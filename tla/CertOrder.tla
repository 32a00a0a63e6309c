------------------------------ MODULE CertOrder ------------------------------
(***************************************************************************)
(* One managed certificate of certbro: the `issue` and `renew` commands    *)
(* that place an order or a reissue with the regfish TLS API, wait for the *)
(* certificate, deploy it and keep the record that lets a later run resume *)
(* (src/internal/app/manager.go).  Every write to the disk and every call  *)
(* of the API is a step of its own, and the process may die or fail at     *)
(* each of them; the clock, the API and the CA move in between.            *)
(*                                                                         *)
(* A key stands for the private key, its CSR and the certificate issued    *)
(* for it; an order has the key of its CSR as its id.  Time counts in      *)
(* units that the constants below are multiples of.                        *)
(***************************************************************************)
EXTENDS Integers

CONSTANTS
  Keys,               \* private keys (and CSRs, and order ids)
  NoKey,              \* the absence of one
  Life,               \* how long an issued certificate is valid
  ContractLife,       \* how long an order may be reissued, from its issuance
  RenewBefore,        \* renew_before_days
  ReissueLead,        \* reissue_lead_days
  Cooldown,           \* renewalCooldownAfterIssue
  Day,                \* the margin of shouldPreferReissue
  MaxTime,            \* bound: the clock stops here
  ReissueSupported,   \* the product's orders can be reissued
  RenewalSupported,   \* the product's orders can be renewed
  OrgValidated,       \* an OV/EV product: console steps, pausing after DCV
  ForceFlags,         \* the values `renew --force` is run with
  AbortPoints,        \* the steps at which the process may die or fail
  MaxAborts,          \* bound: how many times it does
  ApiRejects,         \* orders may be rejected
  ApiReissueFails,    \* reissues may fail
  ApiPurges           \* the API forgets orders whose contract has ended

NoTime == -1
Time == 0 .. (MaxTime + ContractLife)
OptTime == Time \cup {NoTime}
OptKey == Keys \cup {NoKey}

(* What the provider may do with an order, and where a run may fail. *)
ASSUME KeysAssumption == NoKey \notin Keys
ASSUME TimesAssumption ==
  /\ MaxTime \in Nat /\ Life \in Nat /\ ContractLife \in Nat
  /\ RenewBefore \in Nat /\ ReissueLead \in Nat
  /\ Cooldown \in Nat /\ Day \in Nat
  /\ Life <= ContractLife
ASSUME SwitchesAssumption ==
  /\ ReissueSupported \in BOOLEAN /\ RenewalSupported \in BOOLEAN
  /\ OrgValidated \in BOOLEAN /\ ForceFlags \subseteq BOOLEAN
  /\ ApiRejects \in BOOLEAN /\ ApiReissueFails \in BOOLEAN
  /\ ApiPurges \in BOOLEAN

Files == {"privkey", "csr", "meta"}       \* the pending directory
Placing == {"privkey", "csr", "meta", "post"}
Waiting == {"ensure", "get", "dcv", "check"}
Deploying == {"livekey", "livecert", "reload", "clear"}
Steps == {"idle", "saverec", "savelist", "download"}
           \cup Placing \cup Waiting \cup Deploying

ASSUME AbortsAssumption == AbortPoints \subseteq Steps \ {"idle"} /\ MaxAborts \in Nat

OrderActions == {"issue", "renewal-order", "new-order"}
Actions == OrderActions \cup {"reissue"}

VARIABLES
  now,      \* the clock
  aborts,   \* how many runs have failed so far
  api,      \* the provider's orders
  dcv,      \* the value of the validation CNAME in the zone
  rec,      \* certbro.json of the certificate
  listed,   \* the certificate has an entry in state.json
  pend,     \* pending/: the key each file belongs to
  live,     \* live/: private key and certificate
  served,   \* what the webserver loaded last
  pc,       \* where the running command is
  after,    \* where it goes when the record is saved
  mode,     \* started by this run, or resumed
  act,      \* the action it performs
  key,      \* the key it works with
  prev,     \* previousValidUntil of waitAndDownload
  mem,      \* the record in memory
  snap,     \* the order as the API last answered it
  got       \* the downloaded certificate

env   == <<now, api, dcv>>
disk  == <<rec, listed, pend, live, served>>
local == <<after, mode, act, key, prev, mem, snap, got>>
vars  == <<now, aborts, api, dcv, rec, listed, pend, live, served,
           pc, after, mode, act, key, prev, mem, snap, got>>

NoCert  == [key |-> NoKey, until |-> NoTime]
NoRec   == [id |-> NoKey, pending |-> "", until |-> NoTime,
            contract |-> NoTime, issuedAt |-> NoTime]
NoOrder == [status |-> "none", action |-> FALSE, token |-> NoKey,
            cert |-> NoKey, until |-> NoTime, contract |-> NoTime,
            reissue |-> "none", rcsr |-> NoKey]

CertType  == [key: OptKey, until: OptTime]
LiveType  == [key: OptKey, cert: CertType]
RecType   == [id: OptKey, pending: Actions \cup {""}, until: OptTime,
              contract: OptTime, issuedAt: OptTime]
OrderType == [status: {"none", "pending", "issued", "rejected", "gone"},
              action: BOOLEAN, token: OptKey, cert: OptKey, until: OptTime,
              contract: OptTime,
              reissue: {"none", "active", "issued", "failed"}, rcsr: OptKey]

Init ==
  /\ now = 0 /\ aborts = 0
  /\ api = [o \in Keys |-> NoOrder] /\ dcv = NoKey
  /\ rec = NoRec /\ listed = FALSE
  /\ pend = [f \in Files |-> NoKey]
  /\ live = [key |-> NoKey, cert |-> NoCert] /\ served = live
  /\ pc = "idle" /\ after = "idle" /\ mode = "fresh" /\ act = "issue"
  /\ key = NoKey /\ prev = NoTime /\ mem = NoRec /\ snap = NoOrder
  /\ got = NoCert

-----------------------------------------------------------------------------
(* The decisions renew takes from the record, the remote order and the clock. *)

PickTime(primary, fallback) == IF primary # NoTime THEN primary ELSE fallback

(* Mutant of ApplyRemote: valid_until is not taken over. *)
ApplyRemoteKeepUntil(r, o, c) == [r EXCEPT !.id = o, !.contract = c.contract]

(* What the record takes over from an answer of the API for order o. *)
ApplyRemote(r, o, c) == [r EXCEPT !.id = o, !.until = c.until, !.contract = c.contract]

(* The order behind the record; a gone one answers 404. *)
Remote == api[rec.id]
Gone == Remote.status = "gone"

(* Mutant of MustComplete: planRenewal forgets the recorded pending action. *)
MustCompleteRemotely ==
  ~Gone /\ (Remote.status = "pending" \/ Remote.reissue = "active")

MustComplete ==
  \/ rec.pending # ""
  \/ ~Gone /\ (Remote.status = "pending" \/ Remote.reissue = "active")

ValidUntil == PickTime(Remote.until, rec.until)
ContractUntil == PickTime(Remote.contract, rec.contract)

PreferReissue ==
  /\ ReissueSupported
  /\ ValidUntil # NoTime /\ ContractUntil # NoTime
  /\ ContractUntil > ValidUntil + Day

LeadTime == IF PreferReissue THEN ReissueLead ELSE RenewBefore

(* Every record planned over has been deployed, so LastIssuedAt is known. *)
InCooldown == rec.issuedAt # NoTime /\ now < rec.issuedAt + Cooldown

Due(force) ==
  \/ force
  \/ ~InCooldown /\ (ValidUntil = NoTime \/ ValidUntil <= now + LeadTime)

(* Mutant of PlanOrder: an order is placed while one is open. *)
PlanOrderAnyway(force) == ~Gone /\ Due(force) /\ ~PreferReissue /\ RenewalSupported

PlanSkip(force)     == ~MustComplete /\ ~Gone /\ ~Due(force)
PlanReissue(force)  == ~MustComplete /\ ~Gone /\ Due(force) /\ PreferReissue
PlanOrder(force)    == ~MustComplete /\ ~Gone /\ Due(force) /\ ~PreferReissue
                         /\ RenewalSupported
PlanNewOrder(force) ==
  /\ ~MustComplete
  /\ Gone \/ (Due(force) /\ ~PreferReissue /\ ~RenewalSupported)

(* Mutant of Ready: a reissue is not waited for. *)
ReadyAtOnce(c, a, p) == c.cert # NoKey /\ c.status = "issued"

(* May the certificate of order c be fetched for action a?  p is the end of *)
(* the validity the certificate had before.                                 *)
Ready(c, a, p) ==
  /\ c.cert # NoKey /\ c.status = "issued"
  /\ a = "reissue" =>
       /\ c.reissue # "active"
       /\ c.reissue = "issued" \/ p = NoTime \/ c.until = NoTime \/ c.until > p

Failed(c) == c.status = "rejected" \/ c.reissue = "failed"

(* A resumed order of an organization-validated product need not be waited for. *)
MayPause(c) == mode = "resume" /\ OrgValidated /\ c.token # NoKey

PendingLoadable == \A f \in Files : pend[f] # NoKey

(* Keys are random: a new one has left no trace anywhere yet. *)
Fresh(k) ==
  /\ k # dcv
  /\ \A f \in Files : pend[f] # k
  /\ k \notin {live.key, live.cert.key, served.key, served.cert.key}
  /\ api[k].status = "none"
  /\ \A o \in Keys : k \notin {api[o].token, api[o].cert, api[o].rcsr}

-----------------------------------------------------------------------------
(* How a command ends: the process and all it held in memory is gone. *)
Exit ==
  /\ pc' = "idle" /\ after' = "idle" /\ mode' = "fresh" /\ act' = "issue"
  /\ key' = NoKey /\ prev' = NoTime /\ mem' = NoRec /\ snap' = NoOrder
  /\ got' = NoCert

(* Save the record r, then go on at next. *)
SaveThen(r, next) == pc' = "saverec" /\ mem' = r /\ after' = next

(* A new key and CSR, to be persisted before the API hears of it. *)
Begin(k, a, r, p) ==
  /\ Fresh(k)
  /\ pc' = "privkey" /\ mode' = "fresh" /\ act' = a /\ key' = k
  /\ mem' = r /\ prev' = p
  /\ UNCHANGED <<after, snap, got, aborts>> /\ UNCHANGED env /\ UNCHANGED disk

(* certbro issue: refused when state.json knows the name. *)
Issue(k) ==
  /\ pc = "idle" /\ ~listed
  /\ Begin(k, "issue", NoRec, NoTime)

(* certbro renew, by hand or from the hourly timer, loads the record and    *)
(* asks the API for the order behind it, then does one of these.            *)
Renew == pc = "idle" /\ rec.id # NoKey

RenewSkip(force) ==
  /\ Renew /\ PlanSkip(force)
  /\ SaveThen(ApplyRemote(rec, rec.id, Remote), "idle")
  /\ UNCHANGED <<mode, act, key, prev, snap, got, aborts>>
  /\ UNCHANGED env /\ UNCHANGED disk

RenewReissue(k, force) ==
  Renew /\ PlanReissue(force) /\ Begin(k, "reissue", rec, Remote.until)

RenewOrder(k, force) ==
  Renew /\ PlanOrder(force) /\ Begin(k, "renewal-order", rec, NoTime)

RenewNewOrder(k, force) ==
  Renew /\ PlanNewOrder(force) /\ Begin(k, "new-order", rec, NoTime)

(* Mutant of PendingAction: an unrecorded reissue is taken for an order. *)
PendingActionRecorded == IF rec.pending # "" THEN rec.pending ELSE "issue"

(* The action a resumed run continues: the recorded one, else what the order shows. *)
PendingAction ==
  CASE rec.pending # "" -> rec.pending
    [] rec.pending = "" /\ Remote.reissue = "active" -> "reissue"
    [] OTHER -> "issue"

RenewResume ==
  /\ Renew /\ MustComplete /\ ~Gone /\ PendingLoadable
  /\ mode' = "resume" /\ act' = PendingAction /\ key' = pend["privkey"]
  /\ prev' = rec.until /\ snap' = Remote
  /\ \/ Remote.action /\ SaveThen(ApplyRemote(rec, rec.id, Remote), "idle")
     \/ ~Remote.action /\ pc' = "ensure" /\ mem' = rec /\ UNCHANGED after
  /\ UNCHANGED <<got, aborts>> /\ UNCHANGED env /\ UNCHANGED disk

(* WritePending: three files, each replaced atomically. *)
WritePendingFile(f, next) ==
  /\ pc = f /\ pc' = next
  /\ pend' = [pend EXCEPT ![f] = key]
  /\ UNCHANGED <<rec, listed, live, served, aborts>> /\ UNCHANGED env /\ UNCHANGED local

WritePending ==
  \/ WritePendingFile("privkey", "csr")
  \/ WritePendingFile("csr", "meta")
  \/ WritePendingFile("meta", "post")

(* What an accepted order looks like at first: the validation record may be *)
(* there already or come later, a console step may be required.             *)
NewOrder(k, t, a) ==
  [NoOrder EXCEPT !.status = "pending", !.token = t, !.action = a]

ConsoleStep == IF OrgValidated THEN BOOLEAN ELSE {FALSE}

(* Mutant of PostOrder: the record does not call the order pending. *)
PostOrderUnrecorded ==
  /\ pc = "post" /\ act \in OrderActions
  /\ \E t \in {key, NoKey}, a \in ConsoleStep :
       LET c == NewOrder(key, t, a) IN
       /\ api' = [api EXCEPT ![key] = c]
       /\ snap' = c
       /\ SaveThen(ApplyRemote(mem, key, c), IF a THEN "idle" ELSE "ensure")
  /\ UNCHANGED <<now, dcv, mode, act, key, prev, got, aborts>> /\ UNCHANGED disk

PostOrder ==
  /\ pc = "post" /\ act \in OrderActions
  /\ \E t \in {key, NoKey}, a \in ConsoleStep :
       LET c == NewOrder(key, t, a) IN
       /\ api' = [api EXCEPT ![key] = c]
       /\ snap' = c
       /\ SaveThen(ApplyRemote([mem EXCEPT !.pending = act], key, c),
                   IF a THEN "idle" ELSE "ensure")
  /\ UNCHANGED <<now, dcv, mode, act, key, prev, got, aborts>> /\ UNCHANGED disk

(* Mutant of PostReissue: the record does not call the reissue pending. *)
PostReissueUnrecorded ==
  /\ pc = "post" /\ act = "reissue"
  /\ api[mem.id].status = "issued" /\ api[mem.id].reissue # "active"
  /\ \E t \in {key, NoKey}, a \in ConsoleStep :
       LET c == [api[mem.id] EXCEPT !.reissue = "active", !.rcsr = key,
                                    !.token = t, !.action = a] IN
       /\ api' = [api EXCEPT ![mem.id] = c]
       /\ snap' = c
       /\ SaveThen(ApplyRemote(mem, mem.id, c), "ensure")
  /\ UNCHANGED <<now, dcv, mode, act, key, prev, got, aborts>> /\ UNCHANGED disk

PostReissue ==
  /\ pc = "post" /\ act = "reissue"
  /\ api[mem.id].status = "issued" /\ api[mem.id].reissue # "active"
  /\ \E t \in {key, NoKey}, a \in ConsoleStep :
       LET c == [api[mem.id] EXCEPT !.reissue = "active", !.rcsr = key,
                                    !.token = t, !.action = a] IN
       /\ api' = [api EXCEPT ![mem.id] = c]
       /\ snap' = c
       /\ SaveThen(ApplyRemote([mem EXCEPT !.pending = act], mem.id, c), "ensure")
  /\ UNCHANGED <<now, dcv, mode, act, key, prev, got, aborts>> /\ UNCHANGED disk

(* persistManaged: certbro.json first, state.json second. *)
SaveRecord ==
  /\ pc = "saverec" /\ pc' = "savelist"
  /\ rec' = mem
  /\ UNCHANGED <<listed, pend, live, served, aborts>> /\ UNCHANGED env /\ UNCHANGED local

SaveList ==
  /\ pc = "savelist" /\ listed' = TRUE
  /\ \/ after = "idle" /\ Exit
     \/ after # "idle" /\ pc' = after /\ UNCHANGED local
  /\ UNCHANGED <<rec, pend, live, served, aborts>> /\ UNCHANGED env

(* Mutant of Provision: resumed runs leave the zone alone. *)
ProvisionFreshOnly ==
  /\ \/ pc = "ensure" /\ pc' = "get"
     \/ pc = "dcv" /\ pc' = "check"
  /\ dcv' = IF snap.token # NoKey /\ mode = "fresh" THEN snap.token ELSE dcv
  /\ UNCHANGED <<now, api, aborts>> /\ UNCHANGED disk /\ UNCHANGED local

(* ensureValidationRecords: publish the CNAME the order asks for.  It runs  *)
(* once before the wait loop and after every answer in it.                  *)
Provision ==
  /\ \/ pc = "ensure" /\ pc' = "get"
     \/ pc = "dcv" /\ pc' = "check"
  /\ dcv' = IF snap.token # NoKey THEN snap.token ELSE dcv
  /\ UNCHANGED <<now, api, aborts>> /\ UNCHANGED disk /\ UNCHANGED local

(* One turn of waitAndDownload, decided on the answer in snap. *)
PollOrder ==
  /\ pc = "get" /\ api[mem.id].status # "gone"
  /\ pc' = "dcv" /\ snap' = api[mem.id]
  /\ UNCHANGED <<after, mode, act, key, prev, mem, got, aborts>>
  /\ UNCHANGED env /\ UNCHANGED disk

PauseAt ==
  \/ snap.action /\ ~(mode = "fresh" /\ act = "reissue")
  \/ ~snap.action /\ ~Ready(snap, act, prev) /\ ~Failed(snap) /\ MayPause(snap)

Pause ==
  /\ pc = "check" /\ PauseAt
  /\ SaveThen(ApplyRemote(mem, mem.id, snap), "idle")
  /\ UNCHANGED <<mode, act, key, prev, snap, got, aborts>>
  /\ UNCHANGED env /\ UNCHANGED disk

StartDownload ==
  /\ pc = "check" /\ ~snap.action /\ Ready(snap, act, prev)
  /\ pc' = "download"
  /\ UNCHANGED aborts /\ UNCHANGED env /\ UNCHANGED disk /\ UNCHANGED local

(* A failed order ends the run; so does a fresh reissue that turns out to   *)
(* need a console step (performReissue has no branch for it), and so may    *)
(* the deadline, for an order without certificate as for a bundle that is   *)
(* not there yet.                                                           *)
GiveUp ==
  /\ \/ /\ pc = "check" /\ snap.action /\ mode = "fresh" /\ act = "reissue"
     \/ /\ pc = "check" /\ ~snap.action /\ ~Ready(snap, act, prev)
        /\ Failed(snap) \/ ~MayPause(snap)
     \/ pc = "download"
  /\ Exit
  /\ UNCHANGED aborts /\ UNCHANGED env /\ UNCHANGED disk

PollAgain ==
  /\ pc = "check" /\ ~snap.action /\ ~Ready(snap, act, prev)
  /\ ~Failed(snap) /\ ~MayPause(snap)
  /\ pc' = "get"
  /\ UNCHANGED aborts /\ UNCHANGED env /\ UNCHANGED disk /\ UNCHANGED local

(* The download answers whatever the order's certificate is by then. *)
Download ==
  /\ pc = "download" /\ api[mem.id].status # "gone"
  /\ pc' = "livekey"
  /\ got' = [key |-> api[mem.id].cert, until |-> api[mem.id].until]
  /\ UNCHANGED <<after, mode, act, key, prev, mem, snap, aborts>>
  /\ UNCHANGED env /\ UNCHANGED disk

(* 409 Conflict before the deadline: the bundle is not there yet. *)
DownloadConflict ==
  /\ pc = "download" /\ pc' = "get"
  /\ UNCHANGED aborts /\ UNCHANGED env /\ UNCHANGED disk /\ UNCHANGED local

(* WriteArtifacts: each file of live/ is replaced atomically, the private   *)
(* key first.                                                               *)
WriteLiveKey ==
  /\ pc = "livekey" /\ pc' = "livecert"
  /\ live' = [live EXCEPT !.key = key]
  /\ UNCHANGED <<rec, listed, pend, served, aborts>> /\ UNCHANGED env /\ UNCHANGED local

WriteLiveCert ==
  /\ pc = "livecert" /\ pc' = "reload"
  /\ live' = [live EXCEPT !.cert = got]
  /\ UNCHANGED <<rec, listed, pend, served, aborts>> /\ UNCHANGED env /\ UNCHANGED local

(* postDeploy: the webserver loads what is live. *)
Reload ==
  /\ pc = "reload" /\ pc' = "clear"
  /\ served' = live
  /\ UNCHANGED <<rec, listed, pend, live, aborts>> /\ UNCHANGED env /\ UNCHANGED local

(* ClearPending removes the directory file by file, in no given order. *)
ClearFile(f) ==
  /\ pc = "clear" /\ pend[f] # NoKey
  /\ pend' = [pend EXCEPT ![f] = NoKey]
  /\ UNCHANGED <<rec, listed, live, served, aborts, pc>> /\ UNCHANGED env /\ UNCHANGED local

(* Mutants of FinishDeployment: the pending action is set to the order's    *)
(* status, and it is not reset.                                             *)
FinishWithStatus ==
  /\ pc = "clear" /\ \A f \in Files : pend[f] = NoKey
  /\ SaveThen(ApplyRemote([mem EXCEPT !.pending = snap.status, !.issuedAt = now],
                          mem.id, snap), "idle")
  /\ UNCHANGED <<mode, act, key, prev, snap, got, aborts>>
  /\ UNCHANGED env /\ UNCHANGED disk

FinishStillPending ==
  /\ pc = "clear" /\ \A f \in Files : pend[f] = NoKey
  /\ SaveThen(ApplyRemote([mem EXCEPT !.issuedAt = now], mem.id, snap), "idle")
  /\ UNCHANGED <<mode, act, key, prev, snap, got, aborts>>
  /\ UNCHANGED env /\ UNCHANGED disk

FinishDeployment ==
  /\ pc = "clear" /\ \A f \in Files : pend[f] = NoKey
  /\ SaveThen(ApplyRemote([mem EXCEPT !.pending = "", !.issuedAt = now], mem.id, snap),
              "idle")
  /\ UNCHANGED <<mode, act, key, prev, snap, got, aborts>>
  /\ UNCHANGED env /\ UNCHANGED disk

(* The API has forgotten the order meanwhile, or has it reissued already:   *)
(* the error ends the run.                                                  *)
Refused ==
  /\ \/ pc \in {"get", "download"} /\ api[mem.id].status = "gone"
     \/ /\ pc = "post" /\ act = "reissue"
        /\ api[mem.id].status # "issued" \/ api[mem.id].reissue = "active"
  /\ Exit
  /\ UNCHANGED aborts /\ UNCHANGED env /\ UNCHANGED disk

(* The process is killed, or the step fails (a full disk, a refused or      *)
(* unanswered request, a failing reload) and the command returns the error. *)
(* At "saverec" after a request it also stands for an answer that was lost. *)
Abort ==
  /\ pc \in AbortPoints /\ aborts < MaxAborts
  /\ aborts' = aborts + 1
  /\ Exit
  /\ UNCHANGED env /\ UNCHANGED disk

-----------------------------------------------------------------------------
(* The provider, the CA and the clock (outside of src/). *)

ApiStep(o, c) ==
  /\ api' = [api EXCEPT ![o] = c]
  /\ UNCHANGED <<now, dcv, pc, aborts>> /\ UNCHANGED disk /\ UNCHANGED local

Earlier(s, t) == IF s <= t THEN s ELSE t

(* The key whose validation record an open order waits for. *)
WantedToken(o) == IF api[o].reissue = "active" THEN api[o].rcsr ELSE o
Open(o) == api[o].status = "pending" \/ (api[o].status = "issued" /\ api[o].reissue = "active")
Validated(o) == Open(o) /\ ~api[o].action /\ api[o].token = WantedToken(o) /\ dcv = WantedToken(o)

ApiExposeToken(o) ==
  /\ Open(o) /\ api[o].token # WantedToken(o)
  /\ ApiStep(o, [api[o] EXCEPT !.token = WantedToken(o)])

ApiRequireAction(o) ==
  /\ OrgValidated /\ Open(o) /\ ~api[o].action /\ api[o].token # WantedToken(o)
  /\ ApiStep(o, [api[o] EXCEPT !.action = TRUE])

(* The customer completes the order in the console. *)
ApiComplete(o) ==
  /\ api[o].action
  /\ ApiStep(o, [api[o] EXCEPT !.action = FALSE, !.token = WantedToken(o)])

ApiIssue(o) ==
  /\ api[o].status = "pending" /\ Validated(o)
  /\ ApiStep(o, [api[o] EXCEPT !.status = "issued", !.cert = o,
                   !.until = now + Life, !.contract = now + ContractLife])

ApiReject(o) ==
  /\ ApiRejects /\ api[o].status = "pending"
  /\ ApiStep(o, [api[o] EXCEPT !.status = "rejected"])

(* The finished reissue may stay in the answers or vanish from them. *)
ApiReissueDone(o) ==
  /\ api[o].status = "issued" /\ Validated(o)
  /\ \E r \in {"issued", "none"} :
       ApiStep(o, [api[o] EXCEPT !.reissue = r, !.cert = api[o].rcsr,
                     !.until = Earlier(now + Life, api[o].contract)])

ApiReissueFail(o) ==
  /\ ApiReissueFails /\ api[o].status = "issued" /\ api[o].reissue = "active"
  /\ ApiStep(o, [api[o] EXCEPT !.reissue = "failed", !.action = FALSE])

ApiPurge(o) ==
  /\ ApiPurges /\ api[o].status = "issued" /\ now >= api[o].contract
  /\ ApiStep(o, [api[o] EXCEPT !.status = "gone"])

Tick ==
  /\ now < MaxTime /\ now' = now + 1
  /\ UNCHANGED <<api, dcv, pc, aborts>> /\ UNCHANGED disk /\ UNCHANGED local

-----------------------------------------------------------------------------
RenewRun ==
  \/ RenewResume
  \/ \E force \in ForceFlags :
       \/ RenewSkip(force)
       \/ \E k \in Keys : RenewReissue(k, force) \/ RenewOrder(k, force)
                            \/ RenewNewOrder(k, force)

ProcessStep ==
  \/ WritePending \/ PostOrder \/ PostReissue \/ SaveRecord \/ SaveList
  \/ Provision \/ PollOrder \/ Pause \/ StartDownload \/ GiveUp \/ PollAgain
  \/ Download \/ DownloadConflict \/ WriteLiveKey \/ WriteLiveCert \/ Reload
  \/ (\E f \in Files : ClearFile(f)) \/ FinishDeployment \/ Refused

ApiProgress(o) ==
  ApiExposeToken(o) \/ ApiComplete(o) \/ ApiIssue(o) \/ ApiReissueDone(o)

Environment ==
  \/ Tick
  \/ \E o \in Keys : ApiProgress(o) \/ ApiRequireAction(o) \/ ApiReject(o)
                       \/ ApiReissueFail(o) \/ ApiPurge(o)

Next ==
  \/ \E k \in Keys : Issue(k)
  \/ RenewRun \/ ProcessStep \/ Abort \/ Environment

Spec == Init /\ [][Next]_vars

(* The timer starts renew again and again, a command that is not killed     *)
(* goes on, the provider and the customer do their part in the end, and a   *)
(* download that is retried for ever succeeds at some time.                 *)
Fairness ==
  /\ WF_vars(RenewRun) /\ WF_vars(ProcessStep) /\ SF_vars(Download)
  /\ \A o \in Keys : WF_vars(ApiProgress(o))

FairSpec == Spec /\ Fairness

-----------------------------------------------------------------------------
(* Properties. *)

(* Every variable holds a value of its kind. *)
TypeOK ==
  /\ now \in 0 .. MaxTime /\ aborts \in 0 .. MaxAborts
  /\ api \in [Keys -> OrderType] /\ dcv \in OptKey
  /\ rec \in RecType /\ listed \in BOOLEAN
  /\ pend \in [Files -> OptKey] /\ live \in LiveType /\ served \in LiveType
  /\ pc \in Steps /\ after \in {"idle", "ensure"}
  /\ mode \in {"fresh", "resume"} /\ act \in Actions
  /\ key \in OptKey /\ prev \in OptTime
  /\ mem \in RecType /\ snap \in OrderType /\ got \in CertType

(* The webserver never runs with a private key that does not belong to its  *)
(* certificate, whatever crashes, lost answers, reissues and resumed runs   *)
(* came before: the certificate finishDeployment writes is always the one   *)
(* issued for the key it is given.                                          *)
ServedMatches == served.key = served.cert.key

(* The key an outstanding order or reissue was made with. *)
OutstandingKey == IF rec.pending = "reissue" THEN api[rec.id].rcsr ELSE rec.id
Deployed == live = served /\ live.key = OutstandingKey /\ live.cert.key = OutstandingKey

(* While the record says that an order or a reissue is pending, pending/    *)
(* holds nothing but the key it was made with, and no file of it is missing *)
(* before that key and its certificate are deployed: renew can finish what  *)
(* was paid for, and never with another key.                                *)
PendingKeyKept ==
  rec.pending # "" =>
    /\ \A f \in Files : pend[f] \in {OutstandingKey, NoKey}
    /\ PendingLoadable \/ Deployed

(* A record without a pending request tells the validity of the certificate *)
(* that is deployed, on which the next renewal is planned.                  *)
RecordTracksLive ==
  rec.id # NoKey /\ rec.pending = "" => live.cert.until = rec.until

(* A deployment interrupted between two files of live/ can be finished at   *)
(* once by the next renew: pending/ holds the key that is in live/, the     *)
(* order's certificate is the one of that key, and as long as the provider  *)
(* knows the order the run resumes, meets no console step and finds the     *)
(* certificate ready.  For a forgotten order renew answers with an error,   *)
(* and live/ stays as it is.                                                *)
TornLiveIsRepaired ==
  live.key # live.cert.key /\ pc = "idle" =>
    /\ \A f \in Files : pend[f] = live.key
    /\ Remote.cert = live.key
    /\ ~Gone => MustComplete /\ ~Remote.action /\ Ready(Remote, PendingAction, rec.until)

(* certbro never pays for a second order while one is open. *)
OneOpenOrder ==
  \A o, p \in Keys :
    api[o].status = "pending" /\ api[p].status = "pending" => o = p

(* A pending request is finished by some later run of renew: it is neither  *)
(* forgotten nor stuck, whatever run was interrupted while it was waited    *)
(* for or while its certificate was deployed.                               *)
PendingResolves == (rec.pending # "") ~> (rec.pending = "")

(* The certificate a reissue was ordered for ends up in the webserver.      *)
ReissueDelivered ==
  \A k \in Keys :
    (rec.id # NoKey /\ Remote.reissue = "active" /\ Remote.rcsr = k) ~> (served.key = k)

(* ... and it is: live/ does not stay the mixture of two certificates, how  *)
(* often runs are interrupted again, if the order is not forgotten.         *)
TornIsMended == (live.key # live.cert.key) ~> (live.key = live.cert.key)

(* When no command runs, a request the record calls pending can be resumed. *)
PendingResumable == pc = "idle" /\ rec.pending # "" => PendingLoadable

=============================================================================
