---------------------------- MODULE RenewalTiming ----------------------------
(***************************************************************************)
(* When `renew` replaces a certificate, and for how long it asks for the   *)
(* next one: the CA/B Forum schedule, validity_days and the lead times     *)
(* with their validation and their adjustment at renewal time              *)
(* (src/internal/config/store.go), the 48 hour cooldown and the one-off    *)
(* --validity-days (src/internal/app/manager.go).                          *)
(*                                                                         *)
(* Orders are issued at once here; what happens while one is open is the   *)
(* subject of CertOrder.  Time counts in units of which a day has Day;     *)
(* every number of days of the code is a number of such units.             *)
(***************************************************************************)
EXTENDS Integers

CONSTANTS
  Day,                \* the units of a day
  Schedule,           \* validitySchedule, a set of steps
  Validities,         \* values given to or stored as validity_days
  Leads,              \* values of renew_before_days and reissue_lead_days
  DefaultLead,        \* DefaultRenewBeforeDays, DefaultReissueLeadDays
  ReissueLife,        \* lifetimes the provider gives a reissued certificate
  Terms,              \* how much longer than its certificate an order lives
  Bonuses,            \* remaining lifetime a renewal order may carry over
  Outage,             \* how long the timer may go without a completed run
  ReissueSupported,   \* the product's orders can be reissued
  MaxTime             \* bound: the clock stops here

ASSUME UnitsAssumption ==
  /\ Day \in Nat \ {0} /\ Outage \in Nat /\ MaxTime \in Nat
  /\ DefaultLead \in Nat \ {0} /\ ReissueSupported \in BOOLEAN
ASSUME InputsAssumption ==
  /\ Validities \subseteq Nat /\ Leads \subseteq Nat
  /\ ReissueLife \subseteq Nat /\ Terms \subseteq Nat /\ Bonuses \subseteq Nat

(* Limits only go down, and certbro follows each at least a day ahead. *)
StepType == [official: Nat, certbro: Nat, max: Nat]
ASSUME ScheduleAssumption ==
  /\ Schedule \subseteq StepType
  /\ \A t \in 0 .. MaxTime : \E s \in Schedule :
       s.certbro <= t /\ \A u \in Schedule : u.certbro <= t => u.certbro <= s.certbro
  /\ \A s, u \in Schedule : s.certbro <= u.certbro => u.max <= s.max
  /\ \A s \in Schedule : s.certbro = 0 \/ s.certbro + Day <= s.official
  /\ \A s \in Schedule : s.max > Day

VARIABLES
  now,        \* the clock
  lastCheck,  \* when the timer's renew last ran to its end
  stored,     \* validity_days, renew_before_days, reissue_lead_days
  cert,       \* the deployed certificate and the contract behind it
  issuedAt,   \* last_issued_at
  ordered     \* the last order: when, and the days it asked for

vars == <<now, lastCheck, stored, cert, issuedAt, ordered>>

Settings == [validity: Nat, before: Nat, lead: Nat]

Init ==
  /\ now = 0 /\ lastCheck = 0 /\ issuedAt = 0
  /\ stored \in [validity: Validities \cup {0}, before: Leads \cup {0}, lead: Leads \cup {0}]
  /\ cert \in {[until |-> v, contract |-> v + t] : v \in Validities, t \in Terms}
  /\ ordered = [at |-> 0, days |-> 0]

Earlier(s, t) == IF s <= t THEN s ELSE t

(* Mutant of activeValiditySchedule: the official date, without the margin. *)
OfficialSchedule(t) ==
  CHOOSE s \in Schedule :
    s.official <= t /\ \A u \in Schedule : u.official <= t => u.official <= s.official

(* The step of the schedule certbro applies at time t. *)
activeValiditySchedule(t) ==
  CHOOSE s \in Schedule :
    s.certbro <= t /\ \A u \in Schedule : u.certbro <= t => u.certbro <= s.certbro

MaxValidityDaysAt(t) == activeValiditySchedule(t).max
DefaultValidityDaysAt(t) == MaxValidityDaysAt(t) - Day

(* Mutant of NormalizeStoredValidityDaysAt: values over the limit are kept. *)
NormalizeUnsetOnly(v, t) == IF v = 0 THEN DefaultValidityDaysAt(t) ELSE v

NormalizeStoredValidityDaysAt(v, t) ==
  IF v = 0 \/ v > MaxValidityDaysAt(t) THEN DefaultValidityDaysAt(t) ELSE v

ValidateValidityDaysAt(v, t) == v > 0 /\ v <= MaxValidityDaysAt(t)

ValidateRenewalTiming(v, before, lead) ==
  /\ before > 0 /\ lead > 0
  /\ v > before /\ v > lead

(* Mutant of NormalizeLead: a lead time as long as the validity is kept. *)
NormalizeLeadStrict(v, l) == IF l = 0 \/ l > v THEN v - Day ELSE l

NormalizeLead(v, l) == IF l = 0 \/ l >= v THEN v - Day ELSE l

NormalizeStoredRenewalTiming(s) ==
  [s EXCEPT !.before = NormalizeLead(s.validity, s.before),
            !.lead = NormalizeLead(s.validity, s.lead)]

(* What the record says after loading. *)
ApplyDefaults(s, t) ==
  [validity |-> IF s.validity = 0 THEN DefaultValidityDaysAt(t) ELSE s.validity,
   before |-> IF s.before = 0 THEN DefaultLead ELSE s.before,
   lead |-> IF s.lead = 0 THEN DefaultLead ELSE s.lead]

NoOverride == 0

(* The settings a run of renew plans with: only a run without              *)
(* --validity-days adjusts a stored validity.                              *)
Effective(override) ==
  LET s == ApplyDefaults(stored, now)
      v == IF override = NoOverride THEN NormalizeStoredValidityDaysAt(s.validity, now)
                                    ELSE s.validity
  IN  NormalizeStoredRenewalTiming([s EXCEPT !.validity = v])

Cooldown == 2 * Day

shouldPreferReissue == ReissueSupported /\ cert.contract > cert.until + Day

LeadTime(s) == IF shouldPreferReissue THEN s.lead ELSE s.before
withinRenewalCooldown == now < issuedAt + Cooldown
dueForRenewal(s) == cert.until <= now + LeadTime(s)

Planned(s, force) == force \/ (~withinRenewalCooldown /\ dueForRenewal(s))

(* renew runs in time to leave the certificate alone. *)
RenewSkip(override) ==
  LET s == Effective(override) IN
  /\ s.validity > Day /\ ~Planned(s, FALSE)
  /\ stored' = s /\ lastCheck' = now
  /\ UNCHANGED <<now, cert, issuedAt, ordered>>

(* A reissue inherits the contract; --validity-days is refused with it. *)
RenewReissue(force) ==
  LET s == Effective(NoOverride) IN
  /\ s.validity > Day /\ Planned(s, force) /\ shouldPreferReissue
  /\ \E n \in ReissueLife : cert' = [cert EXCEPT !.until = Earlier(now + n, cert.contract)]
  /\ stored' = s /\ lastCheck' = now /\ issuedAt' = now
  /\ UNCHANGED <<now, ordered>>

(* Mutant of OrderAccepted: the override is not held against the lead times. *)
OrderWithinLimit(s) == ValidateValidityDaysAt(s.validity, now)

(* startOrder validates what it is about to ask for. *)
OrderAccepted(s) ==
  /\ ValidateValidityDaysAt(s.validity, now)
  /\ ValidateRenewalTiming(s.validity, s.before, s.lead)

(* A renewal order or a new order for the days of the override, if any. *)
RenewOrder(override, force) ==
  LET e == Effective(override)
      s == IF override = NoOverride THEN e ELSE [e EXCEPT !.validity = override]
  IN
  /\ e.validity > Day /\ Planned(e, force) /\ ~shouldPreferReissue
  /\ OrderAccepted(s)
  /\ ordered' = [at |-> now, days |-> s.validity]
  /\ \E bonus \in Bonuses, term \in Terms :
       LET until == now + s.validity + bonus
       IN  cert' = [until |-> until, contract |-> until + term]
  /\ stored' = s /\ lastCheck' = now /\ issuedAt' = now
  /\ UNCHANGED now

(* A run is refused and nothing is saved: a stored validity too short, an   *)
(* override that the lead times do not fit, or one that meets a reissue.    *)
RenewRefused(override, force) ==
  LET e == Effective(override)
      s == IF override = NoOverride THEN e ELSE [e EXCEPT !.validity = override]
  IN
  /\ e.validity > Day =>
       /\ Planned(e, force)
       /\ IF shouldPreferReissue THEN override # NoOverride ELSE ~OrderAccepted(s)
  /\ lastCheck' = IF override = NoOverride THEN now ELSE lastCheck
  /\ UNCHANGED <<now, stored, cert, issuedAt, ordered>>

(* certbro update *)
Update(v) ==
  LET s == ApplyDefaults(stored, now) IN
  /\ ValidateValidityDaysAt(v, now) /\ ValidateRenewalTiming(v, s.before, s.lead)
  /\ stored' = [s EXCEPT !.validity = v]
  /\ UNCHANGED <<now, lastCheck, cert, issuedAt, ordered>>

(* Time passes; the timer completes a run again after Outage at the latest. *)
Tick ==
  /\ now < MaxTime /\ now - lastCheck <= Outage
  /\ now' = now + 1
  /\ UNCHANGED <<lastCheck, stored, cert, issuedAt, ordered>>

Override == {NoOverride} \cup {v \in Validities : ValidateValidityDaysAt(v, now)}

Next ==
  \/ Tick
  \/ \E v \in Validities : Update(v)
  \/ \E o \in Override : RenewSkip(o)
  \/ \E force \in BOOLEAN : RenewReissue(force)
  \/ \E o \in Override, force \in BOOLEAN : RenewOrder(o, force)
  \/ \E o \in Override, force \in BOOLEAN : RenewRefused(o, force)

Spec == Init /\ [][Next]_vars

-----------------------------------------------------------------------------
(* Properties. *)

(* The clocks and settings are natural numbers, and runs lie in the past. *)
TypeOK ==
  /\ now \in 0 .. MaxTime /\ lastCheck \in 0 .. now /\ issuedAt \in 0 .. now
  /\ stored \in Settings /\ cert \in [until: Nat, contract: Nat]
  /\ ordered \in [at: 0 .. now, days: Nat]

(* The settings and the provider leave the timer the time it needs: after   *)
(* an outage, through the cooldown, and for the short certificate at the    *)
(* end of a contract.  With the default lead of seven days that is an       *)
(* outage of three; a validity of two days leaves none at all.              *)
MinLead == Day + 2 * Outage
MinValidity == 3 * Day + 2 * Outage
TimingCovered ==
  /\ \A v \in Validities : v >= MinValidity
  /\ \A l \in Leads \cup {DefaultLead} : l >= MinLead
  /\ \A n \in ReissueLife : n >= MinValidity
  /\ \A s \in Schedule : s.max >= MinValidity + Day

(* The deployed certificate is always replaced before it expires, whatever  *)
(* is updated, forced, reissued or overridden in between and however the    *)
(* schedule moves: "certbro keeps existing managed certificates operational *)
(* across future schedule changes".                                         *)
NeverLapses == now < cert.until

(* What makes NeverLapses inductive: a certificate outlives its cooldown    *)
(* and an outage after it, unless the contract has ended with it, and when  *)
(* the timer last ran it was far from its end or in its cooldown.           *)
SettingsCovered ==
  /\ stored.validity = 0 \/ stored.validity >= MinValidity
  /\ stored.before = 0 \/ stored.before >= MinLead
  /\ stored.lead = 0 \/ stored.lead >= MinLead
OutlivesCooldown ==
  \/ cert.until >= issuedAt + MinValidity
  \/ cert.until = cert.contract /\ cert.until > issuedAt + Cooldown + Outage
FarWhenChecked ==
  \/ cert.until > lastCheck + MinLead
  \/ lastCheck < issuedAt + Cooldown
TimingInv ==
  /\ TypeOK /\ now <= lastCheck + Outage + 1
  /\ SettingsCovered /\ OutlivesCooldown /\ FarWhenChecked

(* No order ever asks for more than the official limit allows, on the day   *)
(* it is placed and for a day after, until the CA has issued it.            *)
OrdersWithinLimit ==
  \A s \in Schedule :
    s.official <= ordered.at + Day => ordered.days = 0 \/ ordered.days <= s.max

(* validity_days never drops to a lead time or below it by what certbro     *)
(* itself saves: no record makes every run of renew place another order.    *)
SettingsStayUsable ==
  [][stored' # stored =>
       LET s == ApplyDefaults(stored, now)' IN
       ValidateRenewalTiming(s.validity, s.before, s.lead)]_vars
=============================================================================
