------------------------- MODULE RenewalTimingProofs -------------------------
(***************************************************************************)
(* For every schedule, every input and every outage that TimingCovered     *)
(* allows, the timer replaces a certificate before it expires.             *)
(***************************************************************************)
EXTENDS RenewalTiming, TLAPS

(* The schedule always has an active step, one of its own. *)
LEMMA ActiveStep ==
  ASSUME NEW t \in 0 .. MaxTime
  PROVE  /\ activeValiditySchedule(t) \in Schedule
         /\ MaxValidityDaysAt(t) \in Nat /\ MaxValidityDaysAt(t) > Day
         /\ DefaultValidityDaysAt(t) \in Nat \ {0}
         /\ DefaultValidityDaysAt(t) <= MaxValidityDaysAt(t)
<1>1. \E s \in Schedule :
        s.certbro <= t /\ \A u \in Schedule : u.certbro <= t => u.certbro <= s.certbro
  BY ScheduleAssumption
<1>2. activeValiditySchedule(t) \in Schedule
  BY <1>1 DEF activeValiditySchedule
<1>3. MaxValidityDaysAt(t) \in Nat /\ MaxValidityDaysAt(t) > Day
  BY <1>2, ScheduleAssumption DEF MaxValidityDaysAt, StepType
<1> QED
  BY <1>2, <1>3, UnitsAssumption DEF DefaultValidityDaysAt

(* NormalizeStoredRenewalTiming: whatever is stored, the adjusted settings  *)
(* pass the validation that explicit ones must pass.                        *)
THEOREM NormalizedTimingIsValid ==
  ASSUME NEW s \in Settings, s.validity > Day
  PROVE  LET n == NormalizeStoredRenewalTiming(s) IN
         /\ n \in Settings /\ n.validity = s.validity
         /\ ValidateRenewalTiming(n.validity, n.before, n.lead)
         /\ n.before = s.before \/ n.before = s.validity - Day
         /\ n.lead = s.lead \/ n.lead = s.validity - Day
<1>1. s.validity \in Nat /\ s.before \in Nat /\ s.lead \in Nat
  BY DEF Settings
<1>2. \A l \in Nat : LET m == NormalizeLead(s.validity, l) IN
        m \in Nat /\ m > 0 /\ m < s.validity /\ (m = l \/ m = s.validity - Day)
  BY <1>1, UnitsAssumption DEF NormalizeLead
<1> DEFINE b == NormalizeLead(s.validity, s.before)
           l == NormalizeLead(s.validity, s.lead)
<1>3. /\ b \in Nat /\ b > 0 /\ b < s.validity /\ (b = s.before \/ b = s.validity - Day)
      /\ l \in Nat /\ l > 0 /\ l < s.validity /\ (l = s.lead \/ l = s.validity - Day)
  BY <1>1, <1>2
<1>4. NormalizeStoredRenewalTiming(s) = [s EXCEPT !.before = b, !.lead = l]
  BY DEF NormalizeStoredRenewalTiming
<1> HIDE DEF b, l
<1> QED
  BY <1>1, <1>3, <1>4 DEF Settings, ValidateRenewalTiming

(* The settings every run plans with. *)
Usable(s) ==
  /\ s \in Settings
  /\ s.validity >= MinValidity /\ s.before >= MinLead /\ s.lead >= MinLead

(* Loading fills in settings the timer can work with. *)
LEMMA Defaults ==
  ASSUME TimingCovered, TypeOK, SettingsCovered
  PROVE  Usable(ApplyDefaults(stored, now))
<1>1. DefaultValidityDaysAt(now) \in Nat /\ DefaultValidityDaysAt(now) >= MinValidity
  BY ActiveStep, UnitsAssumption DEF TimingCovered, TypeOK, DefaultValidityDaysAt,
     MaxValidityDaysAt, MinValidity
<1>2. DefaultLead \in Nat /\ DefaultLead >= MinLead
  BY UnitsAssumption DEF TimingCovered
<1>3. stored.validity \in Nat /\ stored.before \in Nat /\ stored.lead \in Nat
  BY DEF TypeOK, Settings
<1> QED
  BY <1>1, <1>2, <1>3 DEF ApplyDefaults, Usable, Settings, SettingsCovered

(* So does the adjustment at renewal time, and without an override what it  *)
(* yields is never refused.                                                 *)
LEMMA EffectiveUsable ==
  ASSUME TimingCovered, TypeOK, SettingsCovered, NEW o \in Nat
  PROVE  /\ Usable(Effective(o)) /\ Effective(o).validity > Day
         /\ o = NoOverride => OrderAccepted(Effective(o))
<1> DEFINE s == ApplyDefaults(stored, now)
           v == IF o = NoOverride THEN NormalizeStoredValidityDaysAt(s.validity, now)
                                  ELSE s.validity
           r == [s EXCEPT !.validity = v]
<1>1. Usable(s)
  BY Defaults
<1>2. now \in 0 .. MaxTime /\ MinValidity \in Nat /\ MinLead \in Nat
      /\ MinValidity - Day >= MinLead /\ MinValidity > Day
  BY UnitsAssumption DEF TypeOK, MinValidity, MinLead
<1>3. DefaultValidityDaysAt(now) \in Nat /\ DefaultValidityDaysAt(now) >= MinValidity
  BY <1>2, ActiveStep, UnitsAssumption DEF TimingCovered, DefaultValidityDaysAt, MaxValidityDaysAt
<1>4. s.validity \in Nat /\ s.validity >= MinValidity
  BY <1>1 DEF Usable, Settings
<1> HIDE DEF s
<1>5. v \in Nat /\ v >= MinValidity
  BY <1>3, <1>4 DEF NormalizeStoredValidityDaysAt
<1>6. o = NoOverride => ValidateValidityDaysAt(v, now)
  BY <1>2, <1>3, <1>4, <1>5, ActiveStep, UnitsAssumption
     DEF NormalizeStoredValidityDaysAt, ValidateValidityDaysAt
<1>7. Effective(o) = NormalizeStoredRenewalTiming(r)
  BY DEF Effective, s
<1> HIDE DEF v
<1>8. r \in Settings /\ r.validity = v /\ r.before = s.before /\ r.lead = s.lead
  BY <1>1, <1>5 DEF Usable, Settings
<1> HIDE DEF r
<1>9. /\ Effective(o) \in Settings /\ Effective(o).validity = v
      /\ ValidateRenewalTiming(Effective(o).validity, Effective(o).before, Effective(o).lead)
      /\ Effective(o).before = s.before \/ Effective(o).before = v - Day
      /\ Effective(o).lead = s.lead \/ Effective(o).lead = v - Day
  BY <1>2, <1>5, <1>7, <1>8, NormalizedTimingIsValid, UnitsAssumption
<1>10. v - Day >= MinLead
  BY <1>2, <1>5, UnitsAssumption
<1> QED
  BY <1>1, <1>2, <1>5, <1>6, <1>9, <1>10, UnitsAssumption DEF Usable, OrderAccepted

(* The clocks of the model as integers, for arithmetic. *)
LEMMA Clocks ==
  ASSUME TypeOK
  PROVE  /\ now \in Nat /\ lastCheck \in Nat /\ issuedAt \in Nat
         /\ now <= MaxTime /\ lastCheck <= now /\ issuedAt <= now
         /\ cert.until \in Nat /\ cert.contract \in Nat
         /\ Day \in Nat /\ Day > 0 /\ Outage \in Nat /\ MaxTime \in Nat
BY UnitsAssumption DEF TypeOK

(* The certificate is still valid, and when a reissue is preferred it has a *)
(* day left and the outage as well.                                         *)
LEMMA StillValid ==
  ASSUME TypeOK, now <= lastCheck + Outage + 1, OutlivesCooldown, FarWhenChecked
  PROVE  /\ now < cert.until
         /\ shouldPreferReissue => cert.contract > now + Cooldown + Outage
<1>1. CASE cert.until >= issuedAt + MinValidity
  <2>1. cert.until >= now + Day + Outage
    BY <1>1, Clocks DEF FarWhenChecked, MinValidity, MinLead, Cooldown
  <2> QED
    BY <2>1, Clocks DEF shouldPreferReissue, Cooldown
<1>2. CASE cert.until = cert.contract /\ cert.until > issuedAt + Cooldown + Outage
  BY <1>2, Clocks DEF FarWhenChecked, MinLead, Cooldown, shouldPreferReissue
<1> QED
  BY <1>1, <1>2 DEF OutlivesCooldown

(* A run that ends today leaves usable settings behind. *)
LEMMA SettingsSaved ==
  ASSUME TimingCovered, NEW s, Usable(s), stored' = s
  PROVE  stored' \in Settings /\ SettingsCovered'
BY DEF Usable, SettingsCovered, MinValidity, MinLead

(* A certificate put in place today starts its cooldown. *)
LEMMA Replaced ==
  ASSUME TimingInv, lastCheck' = now, issuedAt' = now, now' = now,
         stored' \in Settings, SettingsCovered',
         ordered' \in [at: 0 .. now, days: Nat],
         cert' \in [until: Nat, contract: Nat],
         \/ cert'.until >= now + MinValidity
         \/ cert'.until = cert'.contract /\ cert'.until > now + Cooldown + Outage
  PROVE  TimingInv'
<1>1. now \in 0 .. MaxTime /\ Day > 0 /\ Day \in Nat /\ Outage \in Nat /\ now \in Nat
  BY Clocks DEF TimingInv, TypeOK
<1>2. TypeOK'
  BY <1>1 DEF TypeOK
<1>3. now' <= lastCheck' + Outage + 1
  BY <1>1
<1>4. OutlivesCooldown'
  BY DEF OutlivesCooldown, MinValidity, Cooldown
<1>5. FarWhenChecked'
  BY <1>1 DEF FarWhenChecked, Cooldown
<1> QED
  BY <1>2, <1>3, <1>4, <1>5 DEF TimingInv

(* renewalSkip: the certificate is far from its end, or in its cooldown. *)
LEMMA SkipStep ==
  ASSUME TimingCovered, TimingInv, NEW o \in Nat, RenewSkip(o)
  PROVE  TimingInv'
<1> DEFINE s == Effective(o)
<1>1. Usable(s)
  BY EffectiveUsable DEF TimingInv
<1>2. /\ ~Planned(s, FALSE) /\ stored' = s /\ lastCheck' = now
      /\ UNCHANGED <<now, cert, issuedAt, ordered>>
  BY DEF RenewSkip
<1> HIDE DEF s
<1>3. stored' \in Settings /\ SettingsCovered'
  BY <1>1, <1>2, SettingsSaved
<1>4. TypeOK'
  BY <1>2, <1>3, Clocks DEF TimingInv, TypeOK
<1>5. now' <= lastCheck' + Outage + 1 /\ OutlivesCooldown'
  BY <1>2, Clocks DEF TimingInv, OutlivesCooldown, MinValidity, Cooldown
<1>6. FarWhenChecked'
  <2>1. s.before \in Nat /\ s.lead \in Nat /\ s.before >= MinLead /\ s.lead >= MinLead
    BY <1>1 DEF Usable, Settings
  <2>2. MinLead \in Nat /\ now \in Nat /\ cert.until \in Nat
    BY Clocks DEF TimingInv, MinLead
  <2>3. LeadTime(s) \in Nat /\ LeadTime(s) >= MinLead
    BY <2>1 DEF LeadTime
  <2>4. CASE withinRenewalCooldown
    BY <1>2, <2>4 DEF withinRenewalCooldown, FarWhenChecked, Cooldown
  <2>5. CASE ~dueForRenewal(s)
    <3>1. cert.until > now + MinLead
      BY <2>2, <2>3, <2>5 DEF dueForRenewal
    <3> QED
      BY <1>2, <3>1 DEF FarWhenChecked, MinLead
  <2> QED
    BY <1>2, <2>4, <2>5 DEF Planned
<1> QED
  BY <1>3, <1>4, <1>5, <1>6 DEF TimingInv

(* renewalReissue: what is left of the contract outlives the cooldown. *)
LEMMA ReissueStep ==
  ASSUME TimingCovered, TimingInv, NEW force, RenewReissue(force)
  PROVE  TimingInv'
<1>1. PICK n \in ReissueLife :
        cert' = [cert EXCEPT !.until = Earlier(now + n, cert.contract)]
  BY DEF RenewReissue
<1>2. /\ stored' = Effective(NoOverride) /\ lastCheck' = now /\ issuedAt' = now
      /\ UNCHANGED <<now, ordered>> /\ shouldPreferReissue
  BY DEF RenewReissue
<1>3. stored' \in Settings /\ SettingsCovered'
  BY <1>2, EffectiveUsable, SettingsSaved DEF TimingInv, NoOverride
<1>4. cert.contract > now + Cooldown + Outage
  BY <1>2, StillValid DEF TimingInv
<1>5. n \in Nat /\ n >= MinValidity /\ MinValidity \in Nat /\ now \in Nat
      /\ cert.contract \in Nat
  BY InputsAssumption, Clocks DEF TimingCovered, TimingInv, MinValidity
<1>6. cert \in [until: Nat, contract: Nat]
  BY DEF TimingInv, TypeOK
<1>7. /\ cert' \in [until: Nat, contract: Nat] /\ cert'.contract = cert.contract
      /\ cert'.until = now + n \/ cert'.until = cert.contract
  BY <1>1, <1>5, <1>6 DEF Earlier
<1>8. \/ cert'.until >= now + MinValidity
      \/ cert'.until = cert'.contract /\ cert'.until > now + Cooldown + Outage
  BY <1>4, <1>5, <1>7
<1>9. ordered' \in [at: 0 .. now, days: Nat]
  BY <1>2 DEF TimingInv, TypeOK
<1> QED
  BY <1>2, <1>3, <1>7, <1>8, <1>9, Replaced

(* renewalOrder and renewalNewOrder. *)
LEMMA OrderStep ==
  ASSUME TimingCovered, TimingInv, NEW o \in Override, NEW force, RenewOrder(o, force)
  PROVE  TimingInv'
<1> DEFINE e == Effective(o)
           s == IF o = NoOverride THEN e ELSE [e EXCEPT !.validity = o]
<1>1. o \in Nat /\ (o # NoOverride => o >= MinValidity)
  BY InputsAssumption DEF Override, NoOverride, TimingCovered
<1>2. Usable(e)
  BY <1>1, EffectiveUsable DEF TimingInv
<1>3. /\ ordered' = [at |-> now, days |-> s.validity]
      /\ \E bonus \in Bonuses, term \in Terms :
           cert' = [until |-> now + s.validity + bonus,
                    contract |-> now + s.validity + bonus + term]
      /\ stored' = s /\ lastCheck' = now /\ issuedAt' = now /\ now' = now
  BY DEF RenewOrder
<1> HIDE DEF e
<1>4. Usable(s)
  BY <1>1, <1>2 DEF Usable, Settings
<1> HIDE DEF s
<1>5. s.validity \in Nat /\ s.validity >= MinValidity /\ MinValidity \in Nat /\ now \in Nat
  BY <1>4, Clocks DEF Usable, Settings, TimingInv, MinValidity
<1>6. PICK bonus \in Bonuses, term \in Terms :
        cert' = [until |-> now + s.validity + bonus,
                 contract |-> now + s.validity + bonus + term]
  BY <1>3
<1>7. bonus \in Nat /\ term \in Nat
  BY InputsAssumption
<1>8. cert' \in [until: Nat, contract: Nat] /\ cert'.until >= now + MinValidity
  BY <1>5, <1>6, <1>7
<1>9. stored' \in Settings /\ SettingsCovered'
  BY <1>3, <1>4, SettingsSaved
<1>10. ordered' \in [at: 0 .. now, days: Nat]
  BY <1>3, <1>5
<1> QED
  BY <1>3, <1>8, <1>9, <1>10, Replaced

(* TimingInv is inductive. *)
LEMMA TimingStep == TimingCovered /\ TimingInv /\ [Next]_vars => TimingInv'
<1> SUFFICES ASSUME TimingCovered, TimingInv, [Next]_vars
             PROVE  TimingInv'
  OBVIOUS
<1>1. CASE Tick
  <2>1. now' = now + 1 /\ now < MaxTime /\ now - lastCheck <= Outage
        /\ UNCHANGED <<lastCheck, stored, cert, issuedAt, ordered>>
    BY <1>1 DEF Tick
  <2>2. TypeOK' /\ now' <= lastCheck' + Outage + 1
    BY <2>1, Clocks DEF TimingInv, TypeOK
  <2>3. SettingsCovered' /\ OutlivesCooldown' /\ FarWhenChecked'
    BY <2>1 DEF TimingInv, SettingsCovered, OutlivesCooldown, FarWhenChecked,
                MinValidity, MinLead, Cooldown
  <2> QED
    BY <2>2, <2>3 DEF TimingInv
<1>2. ASSUME NEW o \in Override, NEW force \in BOOLEAN, RenewRefused(o, force)
      PROVE  TimingInv'
  <2>1. Usable(Effective(NoOverride)) /\ Effective(NoOverride).validity > Day
        /\ OrderAccepted(Effective(NoOverride))
    BY EffectiveUsable DEF TimingInv, NoOverride
  <2>2. o # NoOverride
    BY <1>2, <2>1 DEF RenewRefused
  <2>3. UNCHANGED vars
    BY <1>2, <2>2 DEF RenewRefused, vars
  <2> QED
    BY <2>3 DEF vars, TimingInv, TypeOK, SettingsCovered, OutlivesCooldown, FarWhenChecked
<1>3. ASSUME NEW v \in Validities, Update(v)
      PROVE  TimingInv'
  <2> DEFINE s == ApplyDefaults(stored, now)
  <2>1. stored' = [s EXCEPT !.validity = v]
        /\ UNCHANGED <<now, lastCheck, cert, issuedAt, ordered>>
    BY <1>3 DEF Update
  <2>2. Usable(s) /\ v \in Nat /\ v >= MinValidity
    BY Defaults, InputsAssumption DEF TimingInv, TimingCovered
  <2> HIDE DEF s
  <2>3. Usable(stored')
    BY <2>1, <2>2 DEF Usable, Settings
  <2>4. stored' \in Settings /\ SettingsCovered'
    BY <2>3, SettingsSaved
  <2> QED
    BY <2>1, <2>4 DEF TimingInv, TypeOK, OutlivesCooldown, FarWhenChecked,
                      MinValidity, MinLead, Cooldown
<1>4. ASSUME NEW o \in Override, RenewSkip(o)
      PROVE  TimingInv'
  BY <1>4, SkipStep, InputsAssumption DEF Override, NoOverride
<1>5. ASSUME NEW force \in BOOLEAN, RenewReissue(force)
      PROVE  TimingInv'
  BY <1>5, ReissueStep
<1>6. ASSUME NEW o \in Override, NEW force \in BOOLEAN, RenewOrder(o, force)
      PROVE  TimingInv'
  BY <1>6, OrderStep
<1>7. CASE UNCHANGED vars
  BY <1>7 DEF vars, TimingInv, TypeOK, SettingsCovered, OutlivesCooldown, FarWhenChecked,
              MinValidity, MinLead, Cooldown
<1> QED
  BY <1>1, <1>2, <1>3, <1>4, <1>5, <1>6, <1>7 DEF Next

(* What lets the timer come in time holds as long as TimingCovered does: a  *)
(* certificate outlives its cooldown, and is not due between two checks for *)
(* longer than its lead time allows.                                        *)
THEOREM TimingInvHolds == ASSUME TimingCovered PROVE Spec => []TimingInv
<1>1. Init => TimingInv
  <2> SUFFICES ASSUME Init PROVE TimingInv
    OBVIOUS
  <2>1. PICK v \in Validities, t \in Terms : cert = [until |-> v, contract |-> v + t]
    BY DEF Init
  <2>2. v \in Nat /\ t \in Nat /\ v >= MinValidity
    BY InputsAssumption DEF TimingCovered
  <2>3. now = 0 /\ lastCheck = 0 /\ issuedAt = 0 /\ ordered = [at |-> 0, days |-> 0]
        /\ stored \in [validity: Validities \cup {0}, before: Leads \cup {0},
                       lead: Leads \cup {0}]
    BY DEF Init
  <2>4. /\ stored.validity \in Validities \cup {0} /\ stored.before \in Leads \cup {0}
        /\ stored.lead \in Leads \cup {0}
        /\ stored = [validity |-> stored.validity, before |-> stored.before,
                     lead |-> stored.lead]
    BY <2>3
  <2>5. SettingsCovered
    BY <2>4 DEF SettingsCovered, TimingCovered
  <2>7. stored \in Settings
    BY <2>4, InputsAssumption DEF Settings
  <2>8. TypeOK
    BY <2>1, <2>2, <2>3, <2>7, UnitsAssumption DEF TypeOK
  <2>6. OutlivesCooldown /\ FarWhenChecked /\ now <= lastCheck + Outage + 1
    BY <2>1, <2>2, <2>3, UnitsAssumption
       DEF OutlivesCooldown, FarWhenChecked, MinValidity, Cooldown
  <2> QED
    BY <2>5, <2>6, <2>8 DEF TimingInv
<1>2. TimingInv /\ [Next]_vars => TimingInv'
  BY TimingStep
<1> QED
  BY <1>1, <1>2, PTL DEF Spec

(* Whatever the schedule, the stored settings and the provider's lifetimes  *)
(* are, as long as TimingCovered holds of them, the timer replaces every    *)
(* certificate before it expires.                                           *)
THEOREM CertificateNeverLapses == ASSUME TimingCovered PROVE Spec => []NeverLapses
<1>1. TimingInv => NeverLapses
  BY StillValid DEF TimingInv, NeverLapses
<1> QED
  BY <1>1, TimingInvHolds, PTL

-----------------------------------------------------------------------------
(* What holds of every input, covered or not. *)

(* Loading yields settings of their type, and none is unset. *)
LEMMA DefaultsTyped ==
  ASSUME TypeOK
  PROVE  LET s == ApplyDefaults(stored, now) IN
         s \in Settings /\ s.validity > 0 /\ s.before > 0 /\ s.lead > 0
<1>1. DefaultValidityDaysAt(now) \in Nat \ {0}
  BY ActiveStep, Clocks DEF TypeOK
<1>2. DefaultLead \in Nat \ {0}
  BY UnitsAssumption
<1>3. stored.validity \in Nat /\ stored.before \in Nat /\ stored.lead \in Nat
  BY DEF TypeOK, Settings
<1> QED
  BY <1>1, <1>2, <1>3 DEF ApplyDefaults, Settings

(* A run that gets past NormalizeStoredRenewalTiming plans with settings    *)
(* that explicit input would be accepted with.                              *)
LEMMA EffectiveValid ==
  ASSUME TypeOK, NEW o, Effective(o).validity > Day
  PROVE  LET e == Effective(o) IN
         e \in Settings /\ ValidateRenewalTiming(e.validity, e.before, e.lead)
<1> DEFINE s == ApplyDefaults(stored, now)
           v == IF o = NoOverride THEN NormalizeStoredValidityDaysAt(s.validity, now)
                                  ELSE s.validity
           r == [s EXCEPT !.validity = v]
<1>1. s \in Settings
  BY DefaultsTyped
<1>2. now \in 0 .. MaxTime
  BY Clocks DEF TypeOK
<1>3. DefaultValidityDaysAt(now) \in Nat /\ s.validity \in Nat
  BY <1>1, <1>2, ActiveStep DEF Settings
<1> HIDE DEF s
<1>4. v \in Nat
  BY <1>3 DEF NormalizeStoredValidityDaysAt
<1>5. Effective(o) = NormalizeStoredRenewalTiming(r)
  BY DEF Effective, s
<1> HIDE DEF v
<1>6. r \in Settings
  BY <1>1, <1>4 DEF Settings
<1> HIDE DEF r
<1>7. Effective(o).validity = r.validity
  BY <1>5, <1>6 DEF NormalizeStoredRenewalTiming, Settings
<1> QED
  BY <1>5, <1>6, <1>7, NormalizedTimingIsValid

(* Settings that pass the validation are what loading them yields. *)
LEMMA ValidIsLoaded ==
  ASSUME NEW s \in Settings, ValidateRenewalTiming(s.validity, s.before, s.lead), NEW t
  PROVE  ApplyDefaults(s, t) = s
<1>1. s.validity # 0 /\ s.before # 0 /\ s.lead # 0
  BY DEF Settings, ValidateRenewalTiming
<1> QED
  BY <1>1 DEF ApplyDefaults, Settings

(* An accepted order: its settings, and the days it asks for. *)
LEMMA OrderPlaced ==
  ASSUME TypeOK, NEW o \in Override, NEW force, RenewOrder(o, force)
  PROVE  /\ stored' \in Settings /\ ordered' = [at |-> now, days |-> stored'.validity]
         /\ ValidateRenewalTiming(stored'.validity, stored'.before, stored'.lead)
         /\ stored'.validity <= MaxValidityDaysAt(now)
         /\ cert' \in [until: Nat, contract: Nat]
<1> DEFINE e == Effective(o)
           s == IF o = NoOverride THEN e ELSE [e EXCEPT !.validity = o]
<1>1. e \in Settings
  BY EffectiveValid DEF RenewOrder
<1>2. o \in Nat
  BY InputsAssumption DEF Override, NoOverride
<1>3. /\ OrderAccepted(s) /\ ordered' = [at |-> now, days |-> s.validity] /\ stored' = s
      /\ \E bonus \in Bonuses, term \in Terms :
           cert' = [until |-> now + s.validity + bonus,
                    contract |-> now + s.validity + bonus + term]
  BY DEF RenewOrder
<1> HIDE DEF e
<1>4. s \in Settings
  BY <1>1, <1>2 DEF Settings
<1> HIDE DEF s
<1>5. cert' \in [until: Nat, contract: Nat]
  <2>1. PICK bonus \in Bonuses, term \in Terms :
          cert' = [until |-> now + s.validity + bonus,
                   contract |-> now + s.validity + bonus + term]
    BY <1>3
  <2>2. bonus \in Nat /\ term \in Nat /\ now \in Nat /\ s.validity \in Nat
    BY <1>4, InputsAssumption, Clocks DEF Settings
  <2> QED
    BY <2>1, <2>2
<1> QED
  BY <1>3, <1>4, <1>5 DEF OrderAccepted, ValidateValidityDaysAt

(* The types are kept, whatever the inputs. *)
LEMMA TimingTypeStep == TypeOK /\ [Next]_vars => TypeOK'
<1> SUFFICES ASSUME TypeOK, [Next]_vars
             PROVE  TypeOK'
  OBVIOUS
<1>1. now \in 0 .. MaxTime /\ now \in 0 .. now /\ ordered.at \in 0 .. now
  BY Clocks DEF TypeOK
<1>2. CASE Tick
  BY <1>2, Clocks DEF Tick, TypeOK
<1>3. ASSUME NEW o \in Override, NEW force \in BOOLEAN, RenewRefused(o, force)
      PROVE  TypeOK'
  BY <1>1, <1>3, Clocks DEF RenewRefused, TypeOK
<1>4. ASSUME NEW v \in Validities, Update(v)
      PROVE  TypeOK'
  <2>1. stored' = [ApplyDefaults(stored, now) EXCEPT !.validity = v] /\ v \in Nat
    BY <1>4, InputsAssumption DEF Update
  <2>2. stored' \in Settings
    BY <2>1, DefaultsTyped DEF Settings
  <2> QED
    BY <1>4, <2>2 DEF Update, TypeOK
<1>5. ASSUME NEW o \in Override, RenewSkip(o)
      PROVE  TypeOK'
  <2>1. stored' \in Settings
    BY <1>5, EffectiveValid DEF RenewSkip
  <2> QED
    BY <1>1, <1>5, <2>1 DEF RenewSkip, TypeOK
<1>6. ASSUME NEW force \in BOOLEAN, RenewReissue(force)
      PROVE  TypeOK'
  <2>1. stored' \in Settings
    BY <1>6, EffectiveValid DEF RenewReissue
  <2>2. PICK n \in ReissueLife : cert' = [cert EXCEPT !.until = Earlier(now + n, cert.contract)]
    BY <1>6 DEF RenewReissue
  <2>3. n \in Nat /\ now \in Nat /\ cert.contract \in Nat
    BY InputsAssumption, Clocks
  <2>4. Earlier(now + n, cert.contract) \in Nat
    BY <2>3 DEF Earlier
  <2>5. cert' \in [until: Nat, contract: Nat]
    BY <2>2, <2>4 DEF TypeOK
  <2> QED
    BY <1>1, <1>6, <2>1, <2>5 DEF RenewReissue, TypeOK
<1>7. ASSUME NEW o \in Override, NEW force \in BOOLEAN, RenewOrder(o, force)
      PROVE  TypeOK'
  <2>1. stored' \in Settings /\ ordered' = [at |-> now, days |-> stored'.validity]
        /\ cert' \in [until: Nat, contract: Nat]
    BY <1>7, OrderPlaced
  <2>2. ordered' \in [at: 0 .. now, days: Nat]
    BY <1>1, <2>1 DEF Settings
  <2> QED
    BY <1>1, <1>7, <2>1, <2>2 DEF RenewOrder, TypeOK
<1>8. CASE UNCHANGED vars
  BY <1>8 DEF vars, TypeOK
<1> QED
  BY <1>2, <1>3, <1>4, <1>5, <1>6, <1>7, <1>8 DEF Next

(* Every behaviour is typed: settings and lifetimes stay natural numbers.  *)
THEOREM TimingTypeCorrect == Spec => []TypeOK
<1>1. Init => TypeOK
  <2> SUFFICES ASSUME Init PROVE TypeOK
    OBVIOUS
  <2>1. PICK v \in Validities, t \in Terms : cert = [until |-> v, contract |-> v + t]
    BY DEF Init
  <2>2. v \in Nat /\ t \in Nat
    BY InputsAssumption
  <2>3. now = 0 /\ lastCheck = 0 /\ issuedAt = 0 /\ ordered = [at |-> 0, days |-> 0]
        /\ stored \in [validity: Validities \cup {0}, before: Leads \cup {0},
                       lead: Leads \cup {0}]
    BY DEF Init
  <2>4. /\ stored.validity \in Validities \cup {0} /\ stored.before \in Leads \cup {0}
        /\ stored.lead \in Leads \cup {0}
        /\ stored = [validity |-> stored.validity, before |-> stored.before,
                     lead |-> stored.lead]
    BY <2>3
  <2>5. stored \in Settings
    BY <2>4, InputsAssumption DEF Settings
  <2> QED
    BY <2>1, <2>2, <2>3, <2>5, UnitsAssumption DEF TypeOK
<1> QED
  BY <1>1, TimingTypeStep, PTL DEF Spec

(* Whatever was stored by earlier versions, given to update or overridden,  *)
(* certbro never saves settings that would renew a certificate right away.  *)
THEOREM SettingsAlwaysUsable == Spec => SettingsStayUsable
<1> DEFINE A == stored' # stored =>
                  LET s == ApplyDefaults(stored, now)' IN
                  ValidateRenewalTiming(s.validity, s.before, s.lead)
<1>1. TypeOK /\ [Next]_vars => [A]_vars
  <2> SUFFICES ASSUME TypeOK, [Next]_vars, stored' # stored
               PROVE  /\ stored' \in Settings
                      /\ ValidateRenewalTiming(stored'.validity, stored'.before, stored'.lead)
    BY ValidIsLoaded DEF ApplyDefaults, A
  <2>1. ASSUME NEW v \in Validities, Update(v)
        PROVE  /\ stored' \in Settings
               /\ ValidateRenewalTiming(stored'.validity, stored'.before, stored'.lead)
    <3> DEFINE s == ApplyDefaults(stored, now)
    <3>1. stored' = [s EXCEPT !.validity = v] /\ ValidateRenewalTiming(v, s.before, s.lead)
          /\ v \in Nat
      BY <2>1, InputsAssumption DEF Update
    <3>2. s \in Settings
      BY DefaultsTyped
    <3> HIDE DEF s
    <3>3. stored' \in Settings /\ stored'.validity = v /\ stored'.before = s.before
          /\ stored'.lead = s.lead
      BY <3>1, <3>2 DEF Settings
    <3> QED
      BY <3>1, <3>3
  <2>2. ASSUME NEW o \in Override, RenewSkip(o)
        PROVE  /\ stored' \in Settings
               /\ ValidateRenewalTiming(stored'.validity, stored'.before, stored'.lead)
    BY <2>2, EffectiveValid DEF RenewSkip
  <2>3. ASSUME NEW force \in BOOLEAN, RenewReissue(force)
        PROVE  /\ stored' \in Settings
               /\ ValidateRenewalTiming(stored'.validity, stored'.before, stored'.lead)
    BY <2>3, EffectiveValid DEF RenewReissue
  <2>4. ASSUME NEW o \in Override, NEW force \in BOOLEAN, RenewOrder(o, force)
        PROVE  /\ stored' \in Settings
               /\ ValidateRenewalTiming(stored'.validity, stored'.before, stored'.lead)
    BY <2>4, OrderPlaced
  <2>5. /\ ~Tick /\ ~UNCHANGED vars
        /\ \A o \in Override, force \in BOOLEAN : ~RenewRefused(o, force)
    BY DEF Tick, RenewRefused, vars
  <2> QED
    BY <2>1, <2>2, <2>3, <2>4, <2>5 DEF Next
<1> QED
  BY <1>1, TimingTypeCorrect, PTL DEF Spec, SettingsStayUsable, A

(* No order asks for more days than the CA/B Forum limit allows on the day  *)
(* it is placed and the day after, across every step of the schedule.       *)
THEOREM OrdersStayWithinLimit == Spec => []OrdersWithinLimit
<1>1. Init => OrdersWithinLimit
  BY DEF Init, OrdersWithinLimit
<1>2. TypeOK /\ OrdersWithinLimit /\ [Next]_vars => OrdersWithinLimit'
  <2> SUFFICES ASSUME TypeOK, OrdersWithinLimit, [Next]_vars
               PROVE  OrdersWithinLimit'
    OBVIOUS
  <2>1. CASE UNCHANGED ordered
    BY <2>1 DEF OrdersWithinLimit
  <2>2. ASSUME NEW o \in Override, NEW force \in BOOLEAN, RenewOrder(o, force)
        PROVE  OrdersWithinLimit'
    <3>1. /\ ordered'.at = now /\ ordered'.days = stored'.validity
          /\ stored'.validity \in Nat /\ stored'.validity <= MaxValidityDaysAt(now)
      BY <2>2, OrderPlaced DEF Settings
    <3>2. now \in 0 .. MaxTime /\ now \in Nat /\ Day \in Nat
      BY Clocks DEF TypeOK
    <3>3. \E s \in Schedule :
            s.certbro <= now /\ \A u \in Schedule : u.certbro <= now => u.certbro <= s.certbro
      BY <3>2, ScheduleAssumption
    <3> DEFINE a == activeValiditySchedule(now)
    <3>4. a \in Schedule /\ (\A u \in Schedule : u.certbro <= now => u.certbro <= a.certbro)
      BY <3>3 DEF activeValiditySchedule
    <3>5. MaxValidityDaysAt(now) = a.max
      BY DEF MaxValidityDaysAt
    <3> HIDE DEF a
    <3>6. ASSUME NEW u \in Schedule, u.official <= now + Day
          PROVE  stored'.validity <= u.max
      <4>1. u \in StepType /\ a \in StepType
        BY <3>4, ScheduleAssumption
      <4>2. u.certbro = 0 \/ u.certbro + Day <= u.official
        BY ScheduleAssumption
      <4>3. u.certbro <= now
        BY <3>2, <3>6, <4>1, <4>2 DEF StepType
      <4>4. a.max <= u.max
        BY <3>4, <4>3, ScheduleAssumption
      <4> QED
        BY <3>1, <3>5, <4>1, <4>4 DEF StepType
    <3> QED
      BY <3>1, <3>6 DEF OrdersWithinLimit
  <2>3. CASE \/ Tick \/ UNCHANGED vars
             \/ \E o \in Override, force \in BOOLEAN : RenewRefused(o, force)
    BY <2>1, <2>3 DEF Tick, RenewRefused, vars
  <2>4. CASE (\E v \in Validities : Update(v)) \/ (\E o \in Override : RenewSkip(o))
               \/ (\E force \in BOOLEAN : RenewReissue(force))
    BY <2>1, <2>4 DEF Update, RenewSkip, RenewReissue
  <2> QED
    BY <2>2, <2>3, <2>4 DEF Next
<1> QED
  BY <1>1, <1>2, TimingTypeCorrect, PTL DEF Spec
=============================================================================
