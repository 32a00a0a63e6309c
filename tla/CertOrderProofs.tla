--------------------------- MODULE CertOrderProofs ---------------------------
(***************************************************************************)
(* What TLAPS proves of CertOrder for every set of keys, every length of   *)
(* the validities and of the lead times, and every choice of the steps at  *)
(* which a run may fail that the theorem names: the types, and that no run *)
(* of issue or renew, however the runs before it ended, pairs a private    *)
(* key with a certificate made for another one or loses the key of a       *)
(* pending request (IInv is inductive).                                    *)
(***************************************************************************)
EXTENDS CertOrderInvariant, TLAPS

(* Facts every proof below may use: the constants are of their types. *)
USE KeysAssumption, TimesAssumption, SwitchesAssumption, AbortsAssumption

(* A new order and the empty values are of their types. *)
LEMMA DefaultsTyped ==
  /\ NoCert \in CertType /\ NoRec \in RecType /\ NoOrder \in OrderType
  /\ [key |-> NoKey, cert |-> NoCert] \in LiveType
BY DEF NoCert, NoRec, NoOrder, CertType, RecType, OrderType, LiveType,
       OptKey, OptTime, Time, NoTime

(* Taking over the state of an order keeps a record a record. *)
LEMMA ApplyRemoteTyped ==
  ASSUME NEW r \in RecType, NEW o \in OptKey, NEW c \in OrderType
  PROVE  /\ ApplyRemote(r, o, c) \in RecType
         /\ ApplyRemote(r, o, c).id = o
         /\ ApplyRemote(r, o, c).pending = r.pending
         /\ ApplyRemote(r, o, c).issuedAt = r.issuedAt
BY DEF ApplyRemote, RecType, OrderType, OptTime

(* The ends of validity the provider hands out are times. *)
LEMMA EndsTyped ==
  ASSUME NEW n \in 0 .. MaxTime, NEW t \in OptTime
  PROVE  /\ n \in OptTime /\ n + Life \in OptTime /\ n + ContractLife \in OptTime
         /\ Earlier(n + Life, t) \in OptTime
BY DEF OptTime, Time, NoTime, Earlier

(* A run that ends leaves well-typed variables behind. *)
LEMMA ExitTyped ==
  ASSUME Exit
  PROVE  /\ pc' \in Steps /\ after' \in {"idle", "ensure"}
         /\ mode' \in {"fresh", "resume"} /\ act' \in Actions
         /\ key' \in OptKey /\ prev' \in OptTime
         /\ mem' \in RecType /\ snap' \in OrderType /\ got' \in CertType
BY DefaultsTyped DEF Exit, Steps, Actions, OrderActions, OptKey, OptTime

(* Type correctness: no step of issue, renew, the provider or the clock     *)
(* takes a variable out of its type, or loses the order it works on.        *)
LEMMA TypeStep == TypeInv /\ [Next]_vars => TypeInv'
<1> SUFFICES ASSUME TypeInv, [Next]_vars PROVE TypeInv'
  OBVIOUS
<1> USE DEF TypeInv, TypeOK, IdKnown
<1>1. ASSUME NEW k \in Keys, NEW a \in Actions, NEW r \in RecType,
             NEW p \in OptTime, Begin(k, a, r, p), a = "reissue" => r.id # NoKey
      PROVE  TypeInv'
  BY <1>1 DEF Begin, env, disk, Steps, Placing, Holding, Waiting, Deploying, OptKey
<1>2. ASSUME NEW k \in Keys, Issue(k) PROVE TypeInv'
  BY <1>1, <1>2, DefaultsTyped DEF Issue, Actions, OrderActions, OptTime
<1>3. ASSUME Renew PROVE /\ rec.id \in Keys /\ Remote \in OrderType
                         /\ Remote.until \in OptTime /\ rec.until \in OptTime
                         /\ ApplyRemote(rec, rec.id, Remote) \in RecType
                         /\ ApplyRemote(rec, rec.id, Remote).id = rec.id
  <2>1. rec.id \in Keys /\ Remote \in OrderType
    BY <1>3 DEF Renew, Remote, RecType, OptKey
  <2>2. rec \in RecType /\ rec.id \in OptKey
    BY <2>1 DEF OptKey
  <2>3. /\ ApplyRemote(rec, rec.id, Remote) \in RecType
        /\ ApplyRemote(rec, rec.id, Remote).id = rec.id
    BY <2>1, <2>2, ApplyRemoteTyped
  <2> QED
    BY <2>1, <2>3 DEF OrderType, RecType
<1>4. ASSUME NEW force \in ForceFlags, RenewSkip(force) PROVE TypeInv'
  <2>1. /\ ApplyRemote(rec, rec.id, Remote) \in RecType
        /\ ApplyRemote(rec, rec.id, Remote).id = rec.id
    BY <1>3, <1>4 DEF RenewSkip
  <2> QED
    BY <1>3, <1>4, <2>1
       DEF RenewSkip, SaveThen, env, disk, Steps, Placing, Holding, Waiting, Deploying
<1>5. ASSUME NEW force \in ForceFlags, NEW k \in Keys,
             RenewReissue(k, force) \/ RenewOrder(k, force) \/ RenewNewOrder(k, force)
      PROVE  TypeInv'
  BY <1>1, <1>3, <1>5
     DEF RenewReissue, RenewOrder, RenewNewOrder, Renew, Actions, OrderActions, OptTime
<1>6. CASE RenewResume
  <2>1. PendingAction \in Actions
    BY DEF PendingAction, RecType, Actions, OrderActions
  <2>2. /\ ApplyRemote(rec, rec.id, Remote) \in RecType
        /\ ApplyRemote(rec, rec.id, Remote).id = rec.id
    BY <1>3, <1>6 DEF RenewResume
  <2>3. pend["privkey"] \in OptKey
    BY DEF Files
  <2>4. pc' \in {"saverec", "ensure"} /\ after' \in {"idle", "ensure"}
        /\ mem' \in RecType /\ mem'.id = rec.id
    BY <1>6, <2>2 DEF RenewResume, SaveThen
  <2>5. mode' = "resume" /\ act' \in Actions /\ key' \in OptKey
        /\ prev' \in OptTime /\ snap' \in OrderType
    BY <1>3, <1>6, <2>1, <2>3 DEF RenewResume
  <2> QED
    BY <1>3, <1>6, <2>4, <2>5
       DEF RenewResume, env, disk, Steps, Placing, Holding, Waiting, Deploying
<1>7. CASE WritePending
  BY <1>7 DEF WritePending, WritePendingFile, env, local, Files, Steps, Placing,
              Holding, Waiting, Deploying
<1>8. CASE PostOrder
  <2>1. PICK t \in {key, NoKey}, a \in ConsoleStep :
          /\ api' = [api EXCEPT ![key] = NewOrder(key, t, a)]
          /\ snap' = NewOrder(key, t, a)
          /\ SaveThen(ApplyRemote([mem EXCEPT !.pending = act], key, NewOrder(key, t, a)),
                      IF a THEN "idle" ELSE "ensure")
    BY <1>8 DEF PostOrder
  <2>2. NewOrder(key, t, a) \in OrderType
    BY DEF NewOrder, NoOrder, OrderType, ConsoleStep, OptKey, OptTime
  <2>3. [mem EXCEPT !.pending = act] \in RecType
    BY DEF RecType
  <2>4. mem' \in RecType /\ mem'.id = key
    BY <2>1, <2>2, <2>3, ApplyRemoteTyped DEF SaveThen
  <2> HIDE DEF NewOrder
  <2>5. api' \in [Keys -> OrderType] /\ snap' \in OrderType
    BY <2>1, <2>2
  <2>6. pc' = "saverec" /\ after' \in {"idle", "ensure"}
    BY <2>1 DEF SaveThen
  <2>7. key # NoKey
    BY <1>8 DEF PostOrder, Placing
  <2> QED
    BY <1>8, <2>4, <2>5, <2>6, <2>7
       DEF PostOrder, disk, Steps, Placing, Holding, Waiting, Deploying
<1>9. CASE PostReissue
  <2> DEFINE c(t, a) == [api[mem.id] EXCEPT !.reissue = "active", !.rcsr = key,
                                            !.token = t, !.action = a]
  <2>1. PICK t \in {key, NoKey}, a \in ConsoleStep :
          /\ api' = [api EXCEPT ![mem.id] = c(t, a)]
          /\ snap' = c(t, a)
          /\ SaveThen(ApplyRemote([mem EXCEPT !.pending = act], mem.id, c(t, a)), "ensure")
    BY <1>9 DEF PostReissue
  <2>2. mem.id \in Keys
    BY <1>9 DEF PostReissue, Placing, RecType, OptKey
  <2>3. [mem EXCEPT !.pending = act] \in RecType
    BY DEF RecType
  <2>4. c(t, a) \in OrderType
    BY <2>2 DEF OrderType, ConsoleStep, OptKey
  <2> HIDE DEF c
  <2>5. mem' \in RecType /\ mem'.id = mem.id
    BY <2>1, <2>2, <2>3, <2>4, ApplyRemoteTyped DEF SaveThen, OptKey
  <2> QED
    BY <1>9, <2>1, <2>2, <2>4, <2>5
       DEF PostReissue, SaveThen, disk, Steps, Placing, Holding, Waiting, Deploying
<1>10. CASE SaveRecord
  BY <1>10 DEF SaveRecord, env, local, Steps, Placing, Holding, Waiting, Deploying
<1>11. CASE SaveList
  <2>1. CASE after = "idle"
    BY <1>11, <2>1, ExitTyped
       DEF SaveList, Exit, env, Placing, Holding, Waiting, Deploying
  <2>2. CASE after # "idle"
    BY <1>11, <2>2 DEF SaveList, env, local, Steps, Placing, Holding, Waiting, Deploying
  <2> QED
    BY <2>1, <2>2
<1>12. CASE Provision
  BY <1>12 DEF Provision, disk, local, Steps, Placing, Holding, Waiting, Deploying, OrderType
<1>13. CASE PollOrder
  BY <1>13 DEF PollOrder, env, disk, Steps, Placing, Holding, Waiting, Deploying,
               RecType, OptKey
<1>14. CASE Pause \/ FinishDeployment
  <2> DEFINE r == [mem EXCEPT !.pending = "", !.issuedAt = now]
  <2>1. mem.id \in OptKey /\ mem.id # NoKey
    BY <1>14 DEF Pause, FinishDeployment, Holding, Waiting, Deploying, RecType
  <2>2. r \in RecType
    BY EndsTyped DEF RecType
  <2> HIDE DEF r
  <2>3. mem' \in RecType /\ mem'.id = mem.id /\ pc' = "saverec" /\ after' = "idle"
    BY <1>14, <2>1, <2>2, ApplyRemoteTyped DEF Pause, FinishDeployment, SaveThen, r
  <2> QED
    BY <1>14, <2>1, <2>3 DEF Pause, FinishDeployment, env, disk, Steps, Placing,
                             Holding, Waiting, Deploying
<1>15. CASE StartDownload \/ PollAgain \/ DownloadConflict
  BY <1>15 DEF StartDownload, PollAgain, DownloadConflict, env, disk, local,
               Steps, Placing, Holding, Waiting, Deploying
<1>16. CASE GiveUp \/ Refused \/ Abort
  <2>1. aborts' \in 0 .. MaxAborts
    BY <1>16 DEF GiveUp, Refused, Abort
  <2> QED
    BY <1>16, <2>1, ExitTyped DEF GiveUp, Refused, Abort, Exit, env, disk, Placing, Holding,
                                  Waiting, Deploying
<1>17. CASE Download
  <2>1. got' \in CertType
    BY <1>17 DEF Download, Holding, RecType, OptKey, OrderType, CertType
  <2> QED
    BY <1>17, <2>1 DEF Download, env, disk, Steps, Placing, Holding, Waiting, Deploying
<1>18. CASE WriteLiveKey \/ WriteLiveCert \/ Reload
  BY <1>18 DEF WriteLiveKey, WriteLiveCert, Reload, env, local, LiveType,
               Steps, Placing, Holding, Waiting, Deploying
<1>19. ASSUME NEW f \in Files, ClearFile(f) PROVE TypeInv'
  BY <1>19 DEF ClearFile, env, local, OptKey
<1>20. ASSUME NEW o \in Keys, NEW c \in OrderType, ApiStep(o, c) PROVE TypeInv'
  BY <1>20 DEF ApiStep, disk, local
<1>21. ASSUME NEW o \in Keys, ApiProgress(o) \/ ApiRequireAction(o) \/ ApiReject(o)
                                \/ ApiReissueFail(o) \/ ApiPurge(o)
       PROVE  TypeInv'
  <2>1. /\ api[o] \in OrderType /\ WantedToken(o) \in OptKey
        /\ now + Life \in OptTime /\ now + ContractLife \in OptTime
        /\ Earlier(now + Life, api[o].contract) \in OptTime
    BY EndsTyped DEF WantedToken, OrderType, OptKey
  <2>2. CASE ApiExposeToken(o) \/ ApiRequireAction(o) \/ ApiComplete(o) \/ ApiReject(o)
    BY <2>2, <2>1, <1>20
       DEF ApiExposeToken, ApiRequireAction, ApiComplete, ApiReject, OrderType
  <2>3. CASE ApiIssue(o)
    BY <2>3, <2>1, <1>20 DEF ApiIssue, OrderType, OptKey
  <2>4. CASE ApiReissueDone(o)
    BY <2>4, <2>1, <1>20 DEF ApiReissueDone, OrderType
  <2>5. CASE ApiReissueFail(o) \/ ApiPurge(o)
    BY <2>5, <2>1, <1>20 DEF ApiReissueFail, ApiPurge, OrderType
  <2> QED
    BY <1>21, <2>2, <2>3, <2>4, <2>5 DEF ApiProgress
<1>22. CASE Tick
  BY <1>22 DEF Tick, disk, local
<1>23. CASE UNCHANGED vars
  BY <1>23 DEF vars
<1> QED
  BY <1>2, <1>4, <1>5, <1>6, <1>7, <1>8, <1>9, <1>10, <1>11, <1>12, <1>13, <1>14,
     <1>15, <1>16, <1>17, <1>18, <1>19, <1>21, <1>22, <1>23
     DEF Next, RenewRun, ProcessStep, Environment

(* The types at the start. *)
LEMMA TypeInit == Init => TypeInv
<1> SUFFICES ASSUME Init PROVE TypeInv
  OBVIOUS
<1>1. api \in [Keys -> OrderType] /\ rec \in RecType /\ mem \in RecType
      /\ snap \in OrderType /\ got \in CertType /\ live \in LiveType
      /\ served \in LiveType
  BY DefaultsTyped DEF Init
<1>2. pend \in [Files -> OptKey] /\ dcv \in OptKey /\ key \in OptKey
  BY DEF Init, OptKey
<1>3. now \in 0 .. MaxTime /\ aborts \in 0 .. MaxAborts /\ prev \in OptTime
  BY TimesAssumption, AbortsAssumption DEF Init, OptTime
<1> QED
  BY <1>1, <1>2, <1>3 DEF Init, TypeInv, TypeOK, IdKnown, Steps, Placing, Holding,
                          Waiting, Deploying, Actions, OrderActions

(* Type correctness of every behaviour of the specification, whatever the  *)
(* constants are: the records, orders and directories of issue and renew.  *)
THEOREM TypeCorrect == Spec => []TypeOK
<1>1. TypeInv => TypeOK
  BY DEF TypeInv
<1> QED
  BY <1>1, TypeInit, TypeStep, PTL DEF Spec

-----------------------------------------------------------------------------
(* Sets of steps, unfolded wherever a step moves the program counter. *)
LEMMA StepSets ==
  /\ Placing = {"privkey", "csr", "meta", "post"}
  /\ Holding = {"ensure", "get", "dcv", "check", "download",
                "livekey", "livecert", "reload", "clear"}
BY DEF Placing, Holding, Waiting, Deploying

(* What the key facts rest on stays as it is when neither the provider nor  *)
(* the record nor the directories change.                                   *)
LEMMA Frame ==
  ASSUME UNCHANGED <<api, rec, pend, live, served>>,
         ApiOK, RecordOK(rec), ServedMatches
  PROVE  ApiOK' /\ RecordOK(rec)' /\ ServedMatches'
BY DEF ApiOK, OrderOK, Reissuing, RecordOK, KeyOf, AllPendingIs, LiveIs, ServedMatches

(* A record is right whenever one for the same request is. *)
LEMMA SameRequest ==
  ASSUME UNCHANGED <<api, pend, live, served>>,
         NEW r, RecordOK(r), mem'.id = r.id, mem'.pending = r.pending
  PROVE  RecordOK(mem)'
BY DEF RecordOK, KeyOf, Reissuing, AllPendingIs, LiveIs

(* Types of what the proofs look into most. *)
LEMMA Typed ==
  ASSUME TypeInv
  PROVE  /\ rec \in RecType /\ mem \in RecType
         /\ rec.id \in OptKey /\ mem.id \in OptKey
         /\ rec.pending \in Actions \cup {""} /\ mem.pending \in Actions \cup {""}
         /\ \A o \in Keys : api[o] \in OrderType
         /\ rec.id # NoKey => Remote \in OrderType
         /\ pend \in [Files -> OptKey]
         /\ pc \in Steps
BY DEF TypeInv, TypeOK, RecType, OptKey, Remote

(* readyForDownload: an order of which a waiting command may fetch the      *)
(* certificate has the one for the key the command holds.                   *)
LEMMA ReadyCert ==
  ASSUME TypeInv, ApiOK, RecordOK(rec), rec.id # NoKey,
         act = IF rec.pending = "" THEN "reissue" ELSE rec.pending,
         key = IF act = "reissue" THEN api[rec.id].rcsr ELSE rec.id,
         key # NoKey,
         Ready(api[rec.id], act, prev)
  PROVE  api[rec.id].cert = key
<1>1. rec.id \in Keys /\ OrderOK(rec.id)
  BY Typed DEF OptKey, ApiOK
<1>2. CASE act = "reissue"
  BY <1>1, <1>2 DEF OrderOK, Ready
<1>3. CASE act # "reissue"
  <2>1. rec.pending \in OrderActions
    BY <1>3, Typed DEF Actions
  <2> QED
    BY <1>1, <1>3, <2>1 DEF OrderOK, Ready, RecordOK
<1> QED
  BY <1>2, <1>3

(* An order whose certificate is the one for the key held is not reissued. *)
LEMMA NotReissuing ==
  ASSUME TypeInv, ApiOK, RecordOK(rec), rec.id # NoKey,
         act = IF rec.pending = "" THEN "reissue" ELSE rec.pending,
         key = IF act = "reissue" THEN api[rec.id].rcsr ELSE rec.id,
         key # NoKey, api[rec.id].cert = key
  PROVE  api[rec.id].reissue # "active" /\ api[rec.id].status \in {"issued", "gone"}
<1>1. rec.id \in Keys /\ OrderOK(rec.id) /\ api[rec.id] \in OrderType
  BY Typed DEF OptKey, ApiOK
<1>2. api[rec.id].status \in {"issued", "gone"}
  BY <1>1 DEF OrderOK, OrderType
<1>3. CASE act = "reissue"
  BY <1>1, <1>2, <1>3 DEF OrderOK
<1>4. CASE act # "reissue"
  <2>1. rec.pending \in OrderActions
    BY <1>4, Typed DEF Actions
  <2> QED
    BY <1>1, <1>2, <2>1 DEF OrderOK, RecordOK
<1> QED
  BY <1>3, <1>4

(* A new run prepares a request. *)
LEMMA BeginStep ==
  ASSUME IInv, pc = "idle", NEW k \in Keys, NEW a \in Actions, NEW r \in RecType,
         NEW p \in OptTime, Begin(k, a, r, p), rec.pending = "",
         rec.id # NoKey => ~Reissuing(rec.id),
         a = "reissue" => r = rec /\ rec.id # NoKey,
         TypeInv'
  PROVE  IInv'
<1>1. UNCHANGED <<api, rec, pend, live, served, listed>> /\ pc' = "privkey"
      /\ key' = k /\ act' = a /\ mem' = r /\ Fresh(k)
  BY DEF Begin, env, disk
<1>2. ApiOK' /\ RecordOK(rec)' /\ ServedMatches'
  BY <1>1, Frame DEF IInv
<1>3. ListedOK'
  BY <1>1 DEF IInv, ListedOK
<1>4. rec.id # NoKey => api[rec.id].cert # k
  BY <1>1, Typed DEF IInv, Fresh, OptKey
<1>5. PlacingOK'
  BY <1>1, <1>4 DEF PlacingOK, Fresh, Reissuing
<1>6. SavingOK' /\ HoldingOK'
  BY <1>1, StepSets DEF SavingOK, HoldingOK
<1> QED
  BY <1>2, <1>3, <1>5, <1>6 DEF IInv

(* A run saves a record of the request it had on the disk already. *)
LEMMA SaveStep ==
  ASSUME IInv, pc # "savelist", UNCHANGED <<api, rec, pend, live, served, listed>>,
         pc' = "saverec", after' = "idle", mem'.id # NoKey, RecordOK(mem)', TypeInv'
  PROVE  IInv'
<1>1. ApiOK' /\ RecordOK(rec)' /\ ServedMatches'
  BY Frame DEF IInv
<1>2. ListedOK'
  BY DEF IInv, ListedOK
<1>3. PlacingOK' /\ HoldingOK' /\ SavingOK'
  BY StepSets DEF PlacingOK, HoldingOK, SavingOK
<1> QED
  BY <1>1, <1>2, <1>3 DEF IInv

(* A run ends: nothing but its own memory is lost. *)
LEMMA ExitStep ==
  ASSUME IInv, Exit, UNCHANGED <<api, rec, pend, live, served>>,
         rec.id # NoKey => listed', TypeInv'
  PROVE  IInv'
<1>1. ApiOK' /\ RecordOK(rec)' /\ ServedMatches'
  BY Frame DEF IInv
<1>2. ListedOK'
  BY DEF ListedOK
<1>3. pc' = "idle"
  BY DEF Exit
<1>4. PlacingOK' /\ HoldingOK' /\ SavingOK'
  BY <1>3, StepSets DEF PlacingOK, HoldingOK, SavingOK
<1> QED
  BY <1>1, <1>2, <1>4 DEF IInv

(* The runs of renew that save at once or prepare a request. *)
LEMMA RenewStep ==
  ASSUME IInv, TypeInv', NEW force \in ForceFlags, NEW k \in Keys,
         \/ RenewSkip(force) \/ RenewReissue(k, force)
         \/ RenewOrder(k, force) \/ RenewNewOrder(k, force)
  PROVE  IInv'
<1>1. pc = "idle" /\ rec.id # NoKey /\ rec.id \in Keys /\ rec \in RecType
      /\ Remote \in OrderType
  BY Typed DEF IInv, RenewSkip, RenewReissue, RenewOrder, RenewNewOrder, Renew, OptKey
<1>2. rec.pending = "" /\ ~Reissuing(rec.id)
  BY DEF RenewSkip, RenewReissue, RenewOrder, RenewNewOrder, PlanSkip, PlanReissue,
         PlanOrder, PlanNewOrder, MustComplete, Gone, Remote, Reissuing
<1>3. CASE RenewSkip(force)
  <2>1. /\ mem' = ApplyRemote(rec, rec.id, Remote)
        /\ pc' = "saverec" /\ after' = "idle"
        /\ UNCHANGED <<api, rec, pend, live, served, listed>>
    BY <1>3 DEF RenewSkip, SaveThen, env, disk
  <2>2. mem'.id = rec.id /\ mem'.pending = rec.pending
    BY <1>1, <2>1, ApplyRemoteTyped DEF OptKey
  <2>3. RecordOK(mem)'
    BY <2>1, <2>2, SameRequest DEF IInv
  <2> QED
    BY <1>1, <2>1, <2>2, <2>3, SaveStep
<1>4. Remote.until \in OptTime /\ NoTime \in OptTime
  BY <1>1 DEF OrderType, OptTime
<1>5. CASE RenewReissue(k, force)
  BY <1>1, <1>2, <1>4, <1>5, BeginStep DEF RenewReissue, Actions
<1>6. CASE RenewOrder(k, force)
  BY <1>1, <1>2, <1>4, <1>6, BeginStep DEF RenewOrder, Actions, OrderActions
<1>7. CASE RenewNewOrder(k, force)
  BY <1>1, <1>2, <1>4, <1>7, BeginStep DEF RenewNewOrder, Actions, OrderActions
<1> QED
  BY <1>3, <1>5, <1>6, <1>7

(* certbro issue starts: an unlisted certificate has no record. *)
LEMMA IssueStep ==
  ASSUME IInv, TypeInv', NEW k \in Keys, Issue(k)
  PROVE  IInv'
<1>1. pc = "idle" /\ rec.id = NoKey /\ rec.pending = ""
  BY DEF IInv, Issue, ListedOK, RecordOK
<1>2. "issue" \in Actions /\ "issue" # "reissue" /\ NoTime \in OptTime
  BY DEF Actions, OrderActions, OptTime
<1> QED
  BY <1>1, <1>2, DefaultsTyped, BeginStep DEF Issue

(* renew resumes: it finds the key of the request it resumes in pending/.   *)
LEMMA ResumeStep ==
  ASSUME IInv, TypeInv', RenewResume
  PROVE  IInv'
<1>1. pc = "idle" /\ rec.id \in Keys /\ Remote \in OrderType /\ rec \in RecType
      /\ UNCHANGED <<api, rec, pend, live, served, listed>>
  BY Typed DEF IInv, RenewResume, Renew, OptKey, env, disk
<1>2. act' = IF rec.pending = "" THEN "reissue" ELSE rec.pending
  BY <1>1 DEF IInv, RenewResume, PendingAction, MustComplete, RecordOK, Gone, Remote
<1>3. rec.pending = "" => Reissuing(rec.id)
  BY <1>1 DEF IInv, RenewResume, MustComplete, RecordOK, Reissuing, Gone, Remote
<1>4. /\ AllPendingIs(key') /\ key' # NoKey
      /\ key' = IF act' = "reissue" THEN api[rec.id].rcsr ELSE rec.id
  <2>1. key' = pend["privkey"] /\ PendingLoadable /\ "privkey" \in Files
    BY DEF RenewResume, Files
  <2>2. CASE rec.pending = ""
    BY <1>1, <1>2, <1>3, <2>1, <2>2
       DEF IInv, RecordOK, AllPendingIs, PendingLoadable
  <2>3. CASE rec.pending # ""
    BY <1>1, <1>2, <2>1, <2>3
       DEF IInv, RecordOK, AllPendingIs, PendingLoadable, KeyOf
  <2> QED
    BY <2>2, <2>3
<1>5. CASE Remote.action
  <2>1. pc' = "saverec" /\ after' = "idle" /\ mem' = ApplyRemote(rec, rec.id, Remote)
    BY <1>5 DEF RenewResume, SaveThen
  <2>2. mem'.id = rec.id /\ mem'.pending = rec.pending
    BY <1>1, <2>1, ApplyRemoteTyped DEF OptKey
  <2>3. RecordOK(mem)'
    BY <1>1, <2>2, SameRequest DEF IInv
  <2> QED
    BY <1>1, <2>1, <2>2, <2>3, SaveStep
<1>6. CASE ~Remote.action
  <2>1. pc' = "ensure" /\ mem' = rec
    BY <1>6 DEF RenewResume
  <2>2. ApiOK' /\ RecordOK(rec)' /\ ServedMatches'
    BY <1>1, Frame DEF IInv
  <2>3. ListedOK' /\ PlacingOK' /\ SavingOK'
    BY <1>1, <2>1, StepSets DEF IInv, ListedOK, PlacingOK, SavingOK
  <2>4. HoldingOK'
    BY <1>1, <1>2, <1>4, <2>1 DEF HoldingOK, AllPendingIs, Deploying
  <2> QED
    BY <2>2, <2>3, <2>4 DEF IInv
<1> QED
  BY <1>5, <1>6

(* WritePending overwrites only what no request needs any more. *)
LEMMA WritePendingStep ==
  ASSUME IInv, TypeInv', WritePending
  PROVE  IInv'
<1>1. PICK f \in Files, n \in {"csr", "meta", "post"} :
        WritePendingFile(f, n) /\ <<f, n>> \in {<<"privkey", "csr">>, <<"csr", "meta">>, <<"meta", "post">>}
  BY DEF WritePending, Files
<1>2. /\ pc = f /\ pc' = n /\ pend' = [pend EXCEPT ![f] = key]
      /\ UNCHANGED <<api, rec, live, served, listed, mem, act, key>>
  BY <1>1 DEF WritePendingFile, env, local
<1>3. rec.pending = "" /\ (rec.id # NoKey => ~Reissuing(rec.id)) /\ pc \in Placing
  BY <1>1, <1>2, StepSets DEF IInv, PlacingOK, Files
<1>4. ApiOK' /\ ServedMatches'
  BY <1>2 DEF IInv, ApiOK, OrderOK, ServedMatches
<1>5. RecordOK(rec)'
  BY <1>2, <1>3 DEF IInv, RecordOK, Reissuing
<1>6. ListedOK' /\ SavingOK' /\ HoldingOK'
  BY <1>1, <1>2, <1>3, StepSets DEF IInv, ListedOK, SavingOK, HoldingOK
<1>7. PlacingOK'
  <2>1. pend' \in [Files -> OptKey] /\ pend \in [Files -> OptKey]
        /\ Files = {"privkey", "csr", "meta"}
    BY DEF IInv, TypeInv, TypeOK, Files
  <2> QED
    BY <1>1, <1>2, <1>3, <2>1, StepSets DEF IInv, PlacingOK, Reissuing
<1> QED
  BY <1>4, <1>5, <1>6, <1>7 DEF IInv

(* The whole of pending/ has the key when the request is sent. *)
LEMMA PostKey ==
  ASSUME IInv, pc = "post"
  PROVE  /\ key \in Keys /\ api[key].status = "none" /\ AllPendingIs(key)
         /\ rec.pending = "" /\ (rec.id # NoKey => ~Reissuing(rec.id) /\ api[rec.id].cert # key)
         /\ (act = "reissue" => mem = rec /\ rec.id \in Keys)
BY StepSets, Typed DEF IInv, TypeInv, TypeOK, IdKnown, PlacingOK, AllPendingIs, Files, OptKey

(* An accepted order: its record is saved next. *)
LEMMA PostOrderStep ==
  ASSUME IInv, TypeInv', PostOrder
  PROVE  IInv'
<1>1. PICK t \in {key, NoKey}, a \in ConsoleStep :
        /\ api' = [api EXCEPT ![key] = NewOrder(key, t, a)]
        /\ mem' = ApplyRemote([mem EXCEPT !.pending = act], key, NewOrder(key, t, a))
        /\ pc' = "saverec" /\ (after' = "idle" \/ after' = "ensure")
  BY DEF PostOrder, SaveThen
<1>2. pc = "post" /\ act \in OrderActions
      /\ UNCHANGED <<rec, pend, live, served, listed, key, act>>
  BY DEF PostOrder, disk
<1>3. /\ key \in Keys /\ api[key].status = "none" /\ AllPendingIs(key)
      /\ rec.pending = "" /\ (rec.id # NoKey => ~Reissuing(rec.id))
  BY <1>2, PostKey
<1> DEFINE c == NewOrder(key, t, a)
<1>4. c \in OrderType /\ c.status = "pending" /\ c.cert = NoKey /\ c.rcsr = NoKey
      /\ c.reissue = "none"
  <2>1. key \in Keys /\ t \in OptKey /\ a \in BOOLEAN
    BY <1>1, <1>3 DEF ConsoleStep, OptKey
  <2> QED
    BY <2>1 DEF NewOrder, NoOrder, OrderType, OptKey, OptTime
<1>5. mem'.id = key /\ mem'.pending = act
  <2>1. [mem EXCEPT !.pending = act] \in RecType /\ [mem EXCEPT !.pending = act].pending = act
    BY Typed DEF IInv, TypeInv, TypeOK, RecType
  <2>2. mem' = ApplyRemote([mem EXCEPT !.pending = act], key, c)
    BY <1>1
  <2>3. key \in OptKey /\ c \in OrderType
    BY <1>3, <1>4 DEF OptKey
  <2> DEFINE r == [mem EXCEPT !.pending = act]
  <2>4. r \in RecType /\ r.pending = act /\ mem' = ApplyRemote(r, key, c)
    BY <2>1, <2>2
  <2> HIDE DEF c, r
  <2> QED
    BY <2>3, <2>4, ApplyRemoteTyped
<1>6. \A o \in Keys : api'[o] = IF o = key THEN c ELSE api[o]
  BY <1>1, <1>3 DEF IInv, TypeInv, TypeOK
<1> HIDE DEF c
<1>7. ApiOK'
  BY <1>4, <1>6 DEF IInv, ApiOK, OrderOK
<1>8. rec.id # key /\ (rec.id # NoKey => rec.id \in Keys /\ api'[rec.id] = api[rec.id])
  BY <1>3, <1>6, Typed DEF IInv, RecordOK, OptKey
<1>9. RecordOK(rec)' /\ ServedMatches' /\ ListedOK'
  BY <1>2, <1>3, <1>8 DEF IInv, RecordOK, Reissuing, ServedMatches, ListedOK
<1>10. SavingOK'
  <2>1. RecordOK(mem)' /\ mem'.id # NoKey /\ AllPendingIs(key)' /\ KeyOf(mem)' = key
    BY <1>2, <1>3, <1>4, <1>5, <1>6
       DEF RecordOK, Reissuing, AllPendingIs, KeyOf, OrderActions
  <2> QED
    BY <1>1, <1>2, <1>5, <2>1 DEF SavingOK, AllPendingIs
<1>11. PlacingOK' /\ HoldingOK'
  BY <1>1, StepSets DEF PlacingOK, HoldingOK
<1> QED
  BY <1>7, <1>9, <1>10, <1>11 DEF IInv

(* An accepted reissue: its record is saved next. *)
LEMMA PostReissueStep ==
  ASSUME IInv, TypeInv', PostReissue
  PROVE  IInv'
<1>1. pc = "post" /\ act = "reissue" /\ api[mem.id].status = "issued"
      /\ UNCHANGED <<rec, pend, live, served, listed, key, act>>
  BY DEF PostReissue, disk
<1>2. /\ key \in Keys /\ AllPendingIs(key) /\ rec.pending = ""
      /\ rec.id \in Keys /\ api[rec.id].cert # key
  BY <1>1, PostKey
<1>3. PICK c \in OrderType :
        /\ c.status = "issued" /\ c.rcsr = key /\ c.reissue = "active"
        /\ c.cert = api[rec.id].cert
        /\ api' = [api EXCEPT ![rec.id] = c]
        /\ mem' = ApplyRemote([mem EXCEPT !.pending = act], rec.id, c)
        /\ pc' = "saverec" /\ after' = "ensure"
  <2>1. PICK t \in {key, NoKey}, a \in ConsoleStep :
          LET c == [api[mem.id] EXCEPT !.reissue = "active", !.rcsr = key,
                                       !.token = t, !.action = a] IN
          /\ api' = [api EXCEPT ![mem.id] = c]
          /\ mem' = ApplyRemote([mem EXCEPT !.pending = act], mem.id, c)
          /\ pc' = "saverec" /\ after' = "ensure"
    BY DEF PostReissue, SaveThen
  <2> DEFINE c == [api[mem.id] EXCEPT !.reissue = "active", !.rcsr = key,
                                      !.token = t, !.action = a]
  <2>2. mem.id = rec.id /\ api[mem.id] \in OrderType
    BY <1>1, <1>2, PostKey DEF IInv, TypeInv, TypeOK
  <2>3. /\ c \in OrderType /\ c.status = "issued" /\ c.rcsr = key
        /\ c.reissue = "active" /\ c.cert = api[rec.id].cert
    BY <1>1, <1>2, <2>2 DEF OrderType, ConsoleStep, OptKey
  <2>4. /\ api' = [api EXCEPT ![rec.id] = c]
        /\ mem' = ApplyRemote([mem EXCEPT !.pending = act], rec.id, c)
        /\ pc' = "saverec" /\ after' = "ensure"
    BY <2>1, <2>2
  <2> HIDE DEF c
  <2> QED
    BY <2>3, <2>4
<1>4. mem'.id = rec.id /\ mem'.pending = "reissue"
  <2> DEFINE m == [mem EXCEPT !.pending = act]
  <2>1. m \in RecType /\ m.pending = act
    BY Typed DEF IInv, TypeInv, TypeOK, RecType
  <2>2. mem' = ApplyRemote(m, rec.id, c) /\ rec.id \in OptKey /\ c \in OrderType
    BY <1>2, <1>3 DEF OptKey
  <2> HIDE DEF m
  <2>3. ApplyRemote(m, rec.id, c).id = rec.id /\ ApplyRemote(m, rec.id, c).pending = m.pending
    BY <2>1, <2>2, ApplyRemoteTyped
  <2> QED
    BY <1>1, <2>1, <2>2, <2>3
<1>5. \A o \in Keys : api'[o] = IF o = rec.id THEN c ELSE api[o]
  BY <1>2, <1>3 DEF IInv, TypeInv, TypeOK
<1>6. ApiOK'
  <2> SUFFICES ASSUME NEW o \in Keys PROVE OrderOK(o)'
    BY DEF ApiOK
  <2>1. CASE o = rec.id
    <3>1. api'[o] = c
      BY <1>5, <2>1
    <3>2. c.cert # c.rcsr /\ c.rcsr # NoKey /\ c.status = "issued" /\ c.reissue = "active"
      BY <1>2, <1>3
    <3> QED
      BY <3>1, <3>2 DEF OrderOK
  <2>2. CASE o # rec.id
    BY <1>5, <2>2 DEF IInv, ApiOK, OrderOK
  <2> QED
    BY <2>1, <2>2
<1>7. RecordOK(rec)' /\ ServedMatches' /\ ListedOK'
  <2>1. api'[rec.id] = c /\ c.status = "issued" /\ c.rcsr = key
    BY <1>2, <1>3, <1>5
  <2>2. pend' = pend /\ rec' = rec /\ pc = "post" /\ listed' = listed /\ served' = served
    BY <1>1
  <2>3. RecordOK(rec)'
    BY <1>2, <2>1, <2>2 DEF RecordOK, Reissuing, AllPendingIs, OrderActions
  <2> QED
    BY <2>2, <2>3 DEF IInv, ServedMatches, ListedOK
<1>8. SavingOK'
  <2>1. RecordOK(mem)' /\ mem'.id # NoKey /\ AllPendingIs(key)' /\ KeyOf(mem)' = key
    BY <1>1, <1>2, <1>3, <1>4, <1>5
       DEF RecordOK, Reissuing, AllPendingIs, KeyOf, OrderActions
  <2> QED
    BY <1>1, <1>3, <1>4, <2>1 DEF SavingOK, AllPendingIs
<1>9. PlacingOK' /\ HoldingOK'
  BY <1>3, StepSets DEF PlacingOK, HoldingOK
<1> QED
  BY <1>6, <1>7, <1>8, <1>9 DEF IInv

(* persistManaged, the two writes. *)
LEMMA SaveRecordStep ==
  ASSUME IInv, TypeInv', SaveRecord
  PROVE  IInv'
<1>1. /\ pc = "saverec" /\ pc' = "savelist" /\ rec' = mem
      /\ UNCHANGED <<api, pend, live, served, listed, mem, after, act, key>>
  BY DEF SaveRecord, env, local
<1>2. ApiOK' /\ ServedMatches'
  BY <1>1 DEF IInv, ApiOK, OrderOK, ServedMatches
<1>3. RecordOK(rec)' /\ RecordOK(mem)'
  BY <1>1 DEF IInv, SavingOK, RecordOK, Reissuing, AllPendingIs, KeyOf, LiveIs
<1>4. SavingOK'
  BY <1>1, <1>3 DEF IInv, SavingOK, KeyOf, AllPendingIs
<1>5. ListedOK' /\ PlacingOK' /\ HoldingOK'
  BY <1>1, StepSets DEF ListedOK, PlacingOK, HoldingOK
<1> QED
  BY <1>2, <1>3, <1>4, <1>5 DEF IInv

(* state.json is written: the command ends or waits for its order. *)
LEMMA SaveListStep ==
  ASSUME IInv, TypeInv', SaveList
  PROVE  IInv'
<1>1. /\ pc = "savelist" /\ listed' = TRUE
      /\ UNCHANGED <<api, rec, pend, live, served>>
  BY DEF SaveList, env
<1>2. CASE after = "idle"
  BY <1>1, <1>2, ExitStep DEF SaveList
<1>3. CASE after # "idle"
  <2>1. after = "ensure" /\ pc' = "ensure" /\ UNCHANGED <<mem, act, key>>
    BY <1>3 DEF SaveList, IInv, TypeInv, TypeOK, local
  <2>2. ApiOK' /\ RecordOK(rec)' /\ ServedMatches' /\ ListedOK'
    BY <1>1, Frame DEF IInv, ListedOK
  <2>3. /\ rec = mem /\ mem.id # NoKey /\ mem.pending = act /\ key = KeyOf(mem)
        /\ AllPendingIs(key) /\ RecordOK(mem)
    BY <1>1, <2>1 DEF IInv, SavingOK
  <2>4. act \in Actions /\ act # ""
    BY DEF IInv, TypeInv, TypeOK, Actions, OrderActions
  <2>5. key # NoKey
    BY <2>3 DEF RecordOK, KeyOf
  <2>6. HoldingOK'
    BY <1>1, <2>1, <2>3, <2>4, <2>5 DEF HoldingOK, KeyOf, AllPendingIs, Deploying
  <2>7. PlacingOK' /\ SavingOK'
    BY <2>1, StepSets DEF PlacingOK, SavingOK
  <2> QED
    BY <2>2, <2>6, <2>7 DEF IInv
<1> QED
  BY <1>2, <1>3

(* The steps of the wait loop that keep the record and the directories. *)
LEMMA WaitStep ==
  ASSUME IInv, TypeInv', pc \in Holding, pc' \in Waiting \cup {"download"},
         UNCHANGED <<api, rec, listed, pend, live, served, mem, act, key, prev>>,
         pc' \in {"dcv", "check"} /\ Ready(snap', act, prev) => api[rec.id].cert = key,
         pc' = "download" => api[rec.id].cert = key,
         pc # "clear"
  PROVE  IInv'
<1>1. ApiOK' /\ RecordOK(rec)' /\ ServedMatches'
  BY Frame DEF IInv
<1>2. ListedOK' /\ PlacingOK' /\ SavingOK'
  BY StepSets DEF IInv, ListedOK, PlacingOK, SavingOK, Waiting
<1>3. HoldingOK'
  BY DEF IInv, HoldingOK, AllPendingIs, Waiting, Deploying, Ready
<1> QED
  BY <1>1, <1>2, <1>3 DEF IInv

(* ensureValidationRecords touches the zone only. *)
LEMMA ProvisionStep ==
  ASSUME IInv, TypeInv', Provision
  PROVE  IInv'
BY WaitStep, StepSets DEF Provision, disk, local, IInv, HoldingOK, Waiting

(* The answer of the API is of the order the command waits for. *)
LEMMA PollStep ==
  ASSUME IInv, TypeInv', PollOrder
  PROVE  IInv'
<1>1. /\ pc = "get" /\ pc' = "dcv" /\ snap' = api[mem.id]
      /\ UNCHANGED <<api, rec, listed, pend, live, served, mem, act, key, prev>>
  BY DEF PollOrder, env, disk
<1>2. pc \in Holding
  BY <1>1, StepSets
<1>3. mem.id = rec.id /\ rec.id # NoKey /\ key # NoKey
      /\ act = (IF rec.pending = "" THEN "reissue" ELSE rec.pending)
      /\ key = IF act = "reissue" THEN api[rec.id].rcsr ELSE rec.id
  BY <1>2 DEF IInv, HoldingOK
<1>4. Ready(api[rec.id], act, prev) => api[rec.id].cert = key
  BY <1>3, ReadyCert DEF IInv
<1> QED
  BY <1>1, <1>2, <1>3, <1>4, WaitStep DEF Waiting

(* The decisions on the last answer that go on in the loop or leave it.     *)
LEMMA LoopStep ==
  ASSUME IInv, TypeInv', StartDownload \/ PollAgain \/ DownloadConflict
  PROVE  IInv'
BY WaitStep, StepSets
   DEF StartDownload, PollAgain, DownloadConflict, env, disk, local, IInv, HoldingOK, Waiting

(* Pausing saves the record of the same request. *)
LEMMA PauseStep ==
  ASSUME IInv, TypeInv', Pause
  PROVE  IInv'
<1>1. /\ pc = "check" /\ mem' = ApplyRemote(mem, mem.id, snap)
      /\ pc' = "saverec" /\ after' = "idle"
      /\ UNCHANGED <<api, rec, listed, pend, live, served>>
  BY DEF Pause, SaveThen, env, disk
<1>2. mem.id \in OptKey /\ mem \in RecType /\ snap \in OrderType
  BY Typed DEF IInv, TypeInv, TypeOK
<1>3. mem'.id = mem.id /\ mem'.pending = mem.pending
  BY <1>1, <1>2, ApplyRemoteTyped
<1>4. mem.id # NoKey /\ RecordOK(mem)
  BY <1>1, StepSets DEF IInv, HoldingOK
<1>5. RecordOK(mem)'
  BY <1>1, <1>3, <1>4, SameRequest
<1> QED
  BY <1>1, <1>3, <1>4, <1>5, SaveStep

(* A run that gives up or fails loses nothing, if it does not stop between  *)
(* the two writes of persistManaged.                                        *)
LEMMA AbortStep ==
  ASSUME IInv, TypeInv', FailuresCovered, GiveUp \/ Refused \/ Abort
  PROVE  IInv'
<1>1. Exit /\ pc # "savelist" /\ UNCHANGED <<api, rec, pend, live, served, listed>>
  BY DEF GiveUp, Refused, Abort, env, disk, FailuresCovered
<1> QED
  BY <1>1, ExitStep DEF IInv, ListedOK

(* A command that deploys: what its steps have in common. *)
LEMMA DeployingKey ==
  ASSUME IInv, pc \in {"download"} \cup Deploying
  PROVE  /\ rec.id \in Keys /\ mem = rec /\ api[rec.id].cert = key /\ key # NoKey
         /\ api[rec.id].reissue # "active" /\ api[rec.id].status \in {"issued", "gone"}
         /\ rec.pending # "" => key = KeyOf(rec)
         /\ pc # "clear" => AllPendingIs(key)
<1>1. pc \in Holding /\ rec.id # NoKey
  BY StepSets DEF IInv, HoldingOK, Deploying
<1>2. /\ mem = rec /\ api[rec.id].cert = key /\ key # NoKey
      /\ act = (IF rec.pending = "" THEN "reissue" ELSE rec.pending)
      /\ key = (IF act = "reissue" THEN api[rec.id].rcsr ELSE rec.id)
      /\ pc # "clear" => AllPendingIs(key)
  BY <1>1 DEF IInv, HoldingOK
<1>3. api[rec.id].reissue # "active" /\ api[rec.id].status \in {"issued", "gone"}
  BY <1>1, <1>2, NotReissuing DEF IInv
<1>4. rec.id \in Keys
  BY <1>1, Typed DEF IInv, OptKey
<1> QED
  BY <1>2, <1>3, <1>4 DEF KeyOf

(* The steps of the deployment that write live/ and reload. *)
LEMMA LiveStep ==
  ASSUME IInv, TypeInv', Download \/ WriteLiveKey \/ WriteLiveCert \/ Reload
  PROVE  IInv'
<1>1. UNCHANGED <<api, rec, listed, pend, mem, act, key>> /\ pc \in {"download"} \cup Deploying
      /\ pc # "clear" /\ pc' \in Deploying
  BY DEF Download, WriteLiveKey, WriteLiveCert, Reload, env, disk, local, Deploying
<1>2. /\ api[rec.id].cert = key /\ AllPendingIs(key) /\ rec.id \in Keys
      /\ api[rec.id].reissue # "active"
      /\ rec.pending # "" => key = KeyOf(rec)
  BY <1>1, DeployingKey
<1>3. ApiOK' /\ ListedOK'
  BY <1>1 DEF IInv, ApiOK, OrderOK, ListedOK, Deploying
<1>4. RecordOK(rec)'
  <2>1. RecordOK(rec) /\ (rec.pending # "" => AllPendingIs(KeyOf(rec)))
    BY <1>2 DEF IInv
  <2> QED
    BY <1>1, <2>1 DEF RecordOK, Reissuing, AllPendingIs, KeyOf
<1>5. PlacingOK' /\ SavingOK'
  BY <1>1, StepSets DEF PlacingOK, SavingOK, Deploying
<1>6. CASE Download
  <2>1. pc' = "livekey" /\ got'.key = api[rec.id].cert /\ UNCHANGED <<live, served>>
    BY <1>1, <1>6, DeployingKey DEF Download, disk
  <2>2. HoldingOK'
    BY <1>1, <1>2, <2>1, StepSets DEF IInv, HoldingOK, AllPendingIs, Deploying
  <2> QED
    BY <1>3, <1>4, <1>5, <2>1, <2>2 DEF IInv, ServedMatches
<1>7. CASE WriteLiveKey
  <2>1. /\ pc = "livekey" /\ pc' = "livecert" /\ live' = [live EXCEPT !.key = key]
        /\ UNCHANGED <<served, got>> /\ live \in LiveType
    BY <1>7 DEF WriteLiveKey, local, IInv, TypeInv, TypeOK
  <2>2. live'.key = key
    BY <2>1 DEF LiveType
  <2>3. HoldingOK'
    BY <1>1, <1>2, <2>1, <2>2, StepSets DEF IInv, HoldingOK, AllPendingIs, Deploying
  <2> QED
    BY <1>3, <1>4, <1>5, <2>1, <2>3 DEF IInv, ServedMatches
<1>8. CASE WriteLiveCert
  <2>1. /\ pc = "livecert" /\ pc' = "reload" /\ live' = [live EXCEPT !.cert = got]
        /\ UNCHANGED <<served, got>> /\ live \in LiveType
    BY <1>8 DEF WriteLiveCert, local, IInv, TypeInv, TypeOK
  <2>2. live'.key = live.key /\ live'.cert = got
    BY <2>1 DEF LiveType
  <2>3. HoldingOK'
    BY <1>1, <1>2, <2>1, <2>2, StepSets DEF IInv, HoldingOK, AllPendingIs, Deploying
  <2> QED
    BY <1>3, <1>4, <1>5, <2>1, <2>3 DEF IInv, ServedMatches
<1>9. CASE Reload
  <2>1. pc = "reload" /\ pc' = "clear" /\ served' = live /\ live' = live
    BY <1>9 DEF Reload
  <2>2. live.key = key /\ live.cert.key = key
    BY <2>1, StepSets DEF IInv, HoldingOK
  <2>3. HoldingOK'
    BY <1>1, <1>2, <2>1, <2>2, StepSets DEF IInv, HoldingOK, AllPendingIs, Deploying
  <2>4. ServedMatches'
    BY <2>1, <2>2 DEF ServedMatches
  <2> QED
    BY <1>3, <1>4, <1>5, <2>3, <2>4 DEF IInv
<1> QED
  BY <1>6, <1>7, <1>8, <1>9

(* ClearPending: what is removed has been deployed. *)
LEMMA ClearStep ==
  ASSUME IInv, TypeInv', NEW f \in Files, ClearFile(f)
  PROVE  IInv'
<1>1. /\ pc = "clear" /\ pc' = "clear" /\ pend' = [pend EXCEPT ![f] = NoKey]
      /\ UNCHANGED <<api, rec, listed, live, served, mem, act, key, prev, snap, got>>
  BY DEF ClearFile, env, local
<1>2. /\ api[rec.id].cert = key /\ rec.id \in Keys
      /\ api[rec.id].reissue # "active"
      /\ rec.pending # "" => key = KeyOf(rec)
  BY <1>1, DeployingKey DEF Deploying
<1>3. \A g \in Files : pend'[g] \in {key, NoKey}
  BY <1>1, StepSets DEF IInv, TypeInv, TypeOK, HoldingOK
<1>4. LiveIs(key)
  BY <1>1, StepSets DEF IInv, HoldingOK, LiveIs
<1>5. RecordOK(rec)'
  BY <1>1, <1>2, <1>3, <1>4 DEF IInv, RecordOK, Reissuing, KeyOf, LiveIs
<1>6. ApiOK' /\ ListedOK' /\ ServedMatches' /\ PlacingOK' /\ SavingOK'
  BY <1>1, StepSets
     DEF IInv, ApiOK, OrderOK, ListedOK, ServedMatches, PlacingOK, SavingOK
<1>7. HoldingOK'
  BY <1>1, <1>3, StepSets DEF IInv, HoldingOK, Deploying
<1> QED
  BY <1>5, <1>6, <1>7 DEF IInv

(* The deployed request is no longer pending in the record saved next. *)
LEMMA FinishStep ==
  ASSUME IInv, TypeInv', FinishDeployment
  PROVE  IInv'
<1> DEFINE r == [mem EXCEPT !.pending = "", !.issuedAt = now]
<1>1. /\ pc = "clear" /\ mem' = ApplyRemote(r, mem.id, snap)
      /\ pc' = "saverec" /\ after' = "idle"
      /\ UNCHANGED <<api, rec, listed, pend, live, served>>
  BY DEF FinishDeployment, SaveThen, env, disk
<1>2. /\ rec.id \in Keys /\ mem = rec /\ api[rec.id].reissue # "active"
      /\ api[rec.id].status \in {"issued", "gone"}
  BY <1>1, DeployingKey DEF Deploying
<1>3. r \in RecType /\ r.pending = "" /\ snap \in OrderType /\ mem.id \in OptKey
  BY EndsTyped, Typed DEF IInv, TypeInv, TypeOK, RecType
<1> HIDE DEF r
<1>4. mem'.id = rec.id /\ mem'.pending = ""
  <2>1. /\ ApplyRemote(r, mem.id, snap).id = mem.id
        /\ ApplyRemote(r, mem.id, snap).pending = r.pending
    BY <1>3, ApplyRemoteTyped
  <2> QED
    BY <1>1, <1>2, <1>3, <2>1
<1>5. RecordOK(mem)'
  BY <1>1, <1>2, <1>4 DEF RecordOK, Reissuing, OrderActions
<1> QED
  BY <1>1, <1>2, <1>4, <1>5, SaveStep

(* What a step of the provider may do to an order while reissues do not     *)
(* fail: the key of a reissue stays, a certificate changes only when the    *)
(* order is issued or a reissue of it is finished.                          *)
Advances(o) ==
  /\ api'[o].rcsr = api[o].rcsr
  /\ api'[o].status = "none" <=> api[o].status = "none"
  /\ api[o].status \in {"issued", "gone"} => api'[o].status \in {"issued", "gone"}
  /\ Reissuing(o)' => Reissuing(o)
  /\ api'[o].cert = api[o].cert \/ api[o].status = "pending" \/ Reissuing(o)
  /\ OrderOK(o)'

(* Every step of the provider is such a step. *)
LEMMA ApiAdvances ==
  ASSUME IInv, FailuresCovered, NEW o \in Keys,
         \/ ApiProgress(o) \/ ApiRequireAction(o) \/ ApiReject(o)
         \/ ApiReissueFail(o) \/ ApiPurge(o)
  PROVE  \A p \in Keys : Advances(p)
<1>1. ASSUME NEW c, ApiStep(o, c) PROVE \A p \in Keys : api'[p] = IF p = o THEN c ELSE api[p]
  BY <1>1 DEF ApiStep, IInv, TypeInv, TypeOK
<1>2. \A p \in Keys : OrderOK(p) /\ api[p] \in OrderType
  BY DEF IInv, ApiOK, TypeInv, TypeOK
<1>3. SUFFICES ASSUME NEW p \in Keys PROVE Advances(p)
  OBVIOUS
<1>4. OrderOK(p) /\ OrderOK(o) /\ api[o] \in OrderType
  BY <1>2
<1>5. CASE ApiExposeToken(o)
  <2>1. api'[p] = IF p = o THEN [api[o] EXCEPT !.token = WantedToken(o)] ELSE api[p]
    BY <1>1, <1>5 DEF ApiExposeToken
  <2>2. api[o].status # "none"
    BY <1>5 DEF ApiExposeToken, Open
  <2> QED
    BY <1>4, <2>1, <2>2 DEF Advances, OrderOK, Reissuing, OrderType
<1>6. CASE ApiRequireAction(o)
  <2>1. api'[p] = IF p = o THEN [api[o] EXCEPT !.action = TRUE] ELSE api[p]
    BY <1>1, <1>6 DEF ApiRequireAction
  <2>2. api[o].status # "none"
    BY <1>6 DEF ApiRequireAction, Open
  <2> QED
    BY <1>4, <2>1, <2>2 DEF Advances, OrderOK, Reissuing, OrderType
<1>7. CASE ApiComplete(o)
  <2>1. api'[p] = IF p = o THEN [api[o] EXCEPT !.action = FALSE, !.token = WantedToken(o)]
                           ELSE api[p]
    BY <1>1, <1>7 DEF ApiComplete
  <2>2. api[o].status # "none"
    BY <1>4, <1>7 DEF ApiComplete, OrderOK, NoOrder
  <2> QED
    BY <1>4, <2>1, <2>2 DEF Advances, OrderOK, Reissuing, OrderType
<1>8. CASE ApiIssue(o)
  <2>1. api'[p] = IF p = o
                    THEN [api[o] EXCEPT !.status = "issued", !.cert = o,
                            !.until = now + Life, !.contract = now + ContractLife]
                    ELSE api[p]
    BY <1>1, <1>8 DEF ApiIssue
  <2>2. api[o].status = "pending"
    BY <1>8 DEF ApiIssue
  <2> QED
    BY <1>4, <2>1, <2>2 DEF Advances, OrderOK, Reissuing, OrderType
<1>9. CASE ApiReject(o)
  <2>1. api'[p] = IF p = o THEN [api[o] EXCEPT !.status = "rejected"] ELSE api[p]
    BY <1>1, <1>9 DEF ApiReject
  <2>2. api[o].status = "pending"
    BY <1>9 DEF ApiReject
  <2> QED
    BY <1>4, <2>1, <2>2 DEF Advances, OrderOK, Reissuing, OrderType
<1>10. CASE ApiReissueDone(o)
  <2>1. PICK r \in {"issued", "none"} :
          api'[p] = IF p = o
                      THEN [api[o] EXCEPT !.reissue = r, !.cert = api[o].rcsr,
                              !.until = Earlier(now + Life, api[o].contract)]
                      ELSE api[p]
    BY <1>1, <1>10 DEF ApiReissueDone
  <2>2. api[o].status = "issued" /\ api[o].reissue = "active"
    BY <1>10 DEF ApiReissueDone, Validated, Open
  <2>3. api[o].rcsr # NoKey
    BY <1>4, <2>2 DEF OrderOK
  <2> QED
    BY <1>4, <2>1, <2>2, <2>3 DEF Advances, OrderOK, Reissuing, OrderType
<1>11. CASE ApiReissueFail(o)
  BY <1>11 DEF ApiReissueFail, FailuresCovered
<1>12. CASE ApiPurge(o)
  <2>1. api'[p] = IF p = o THEN [api[o] EXCEPT !.status = "gone"] ELSE api[p]
    BY <1>1, <1>12 DEF ApiPurge
  <2>2. api[o].status = "issued"
    BY <1>12 DEF ApiPurge
  <2> QED
    BY <1>4, <2>1, <2>2 DEF Advances, OrderOK, Reissuing, OrderType
<1> QED
  BY <1>5, <1>6, <1>7, <1>8, <1>9, <1>10, <1>11, <1>12 DEF ApiProgress

(* A record stays right while the provider moves on. *)
LEMMA RecordAdvances ==
  ASSUME NEW r \in RecType, RecordOK(r), \A p \in Keys : Advances(p),
         UNCHANGED <<pend, live, served>>
  PROVE  /\ r.id # NoKey => api'[r.id].rcsr = api[r.id].rcsr
         /\ r.id = NoKey => r.pending = ""
         /\ r.id # NoKey =>
              /\ api'[r.id].status # "none"
              /\ r.pending = "" => api'[r.id].status \in {"issued", "gone"}
              /\ r.pending \in OrderActions => api'[r.id].rcsr = NoKey
              /\ r.pending = "reissue" => api'[r.id].rcsr # NoKey
              /\ Reissuing(r.id)' => AllPendingIs(api'[r.id].rcsr)
<1>1. r.id # NoKey => r.id \in Keys
  BY DEF RecType, OptKey
<1> QED
  BY <1>1 DEF RecordOK, Advances, Reissuing

(* The key of a record does not change with it either. *)
LEMMA RecordKept ==
  ASSUME NEW r \in RecType, RecordOK(r), \A p \in Keys : Advances(p),
         UNCHANGED <<pend, live, served>>
  PROVE  /\ r.id # NoKey =>
              /\ api'[r.id].status # "none"
              /\ r.pending = "" => api'[r.id].status \in {"issued", "gone"}
              /\ r.pending \in OrderActions => api'[r.id].rcsr = NoKey
              /\ r.pending = "reissue" => api'[r.id].rcsr # NoKey
              /\ Reissuing(r.id)' => (\A f \in Files : pend'[f] = api'[r.id].rcsr)
         /\ r.id = NoKey => r.pending = ""
         /\ (IF r.pending = "reissue" THEN api'[r.id].rcsr ELSE r.id) = KeyOf(r)
<1>1. r.id = NoKey => r.pending = ""
  BY DEF RecordOK
<1> QED
  BY <1>1, RecordAdvances DEF KeyOf, AllPendingIs

(* The provider moves on while a run is where it is. *)
LEMMA ApiKeeps ==
  ASSUME IInv, TypeInv', \A p \in Keys : Advances(p),
         UNCHANGED <<pc, rec, listed, pend, live, served,
                     after, act, key, prev, mem, snap, got>>
  PROVE  IInv'
<1>1. ApiOK'
  BY DEF ApiOK, Advances
<1>2. rec \in RecType /\ mem \in RecType /\ (rec.id # NoKey => rec.id \in Keys)
  BY Typed DEF IInv, OptKey
<1>3. RecordOK(rec)'
  <2>1. RecordOK(rec)
    BY DEF IInv
  <2> QED
    BY <1>2, <2>1, RecordKept DEF RecordOK, KeyOf, AllPendingIs, LiveIs
<1>4. ListedOK' /\ ServedMatches'
  BY DEF IInv, ListedOK, ServedMatches
<1>5. SavingOK'
  <2> SUFFICES ASSUME pc \in {"saverec", "savelist"}
               PROVE  SavingOK'
    BY DEF SavingOK
  <2>1. /\ mem.id # NoKey /\ RecordOK(mem)
        /\ pc = "savelist" => rec = mem
        /\ after = "ensure" => mem.pending = act /\ key = KeyOf(mem) /\ AllPendingIs(key)
    BY DEF IInv, SavingOK
  <2>2. RecordOK(mem)'
    BY <1>2, <2>1, RecordKept DEF RecordOK, KeyOf, AllPendingIs, LiveIs
  <2>3. KeyOf(mem)' = KeyOf(mem)
    BY <1>2, <2>1, RecordKept DEF KeyOf
  <2> QED
    BY <2>1, <2>2, <2>3 DEF SavingOK, AllPendingIs
<1>6. PlacingOK'
  <2> SUFFICES ASSUME pc \in Placing
               PROVE  PlacingOK'
    BY DEF PlacingOK
  <2>1. key \in Keys /\ rec.pending = ""
    BY DEF IInv, TypeInv, TypeOK, IdKnown, PlacingOK, OptKey
  <2>2. rec.id # NoKey => api[rec.id].status \in {"issued", "gone"}
    BY <2>1 DEF IInv, RecordOK
  <2>3. rec.id # NoKey => ~Reissuing(rec.id)' /\ api'[rec.id].cert # key
    BY <1>2, <2>2 DEF IInv, PlacingOK, Advances, Reissuing
  <2>4. api'[key].status = "none"
    BY <2>1 DEF IInv, PlacingOK, Advances
  <2> QED
    BY <2>3, <2>4 DEF IInv, PlacingOK, Reissuing
<1>7. HoldingOK'
  <2> SUFFICES ASSUME pc \in Holding
               PROVE  HoldingOK'
    BY DEF HoldingOK
  <2>1. /\ rec.id # NoKey /\ rec.id \in Keys /\ key # NoKey
        /\ act = (IF rec.pending = "" THEN "reissue" ELSE rec.pending)
        /\ key = IF act = "reissue" THEN api[rec.id].rcsr ELSE rec.id
    BY <1>2 DEF IInv, HoldingOK
  <2>2. api[rec.id].cert = key => api'[rec.id].cert = key
    <3> SUFFICES ASSUME api[rec.id].cert = key
                 PROVE  api'[rec.id].cert = key
      OBVIOUS
    <3>1. api[rec.id].reissue # "active" /\ api[rec.id].status \in {"issued", "gone"}
      BY <2>1, NotReissuing DEF IInv
    <3> QED
      BY <2>1, <3>1 DEF Advances, Reissuing
  <2>3. api'[rec.id].rcsr = api[rec.id].rcsr
    BY <2>1 DEF Advances
  <2> QED
    BY <2>1, <2>2, <2>3 DEF IInv, HoldingOK, AllPendingIs, Ready
<1> QED
  BY <1>1, <1>3, <1>4, <1>5, <1>6, <1>7 DEF IInv

(* The clock matters to no key. *)
LEMMA ClockKeeps ==
  ASSUME IInv, TypeInv',
         UNCHANGED <<api, pc, rec, listed, pend, live, served,
                     after, act, key, prev, mem, snap, got>>
  PROVE  IInv'
<1>1. ApiOK' /\ RecordOK(rec)' /\ ServedMatches' /\ ListedOK'
  BY Frame DEF IInv, ListedOK
<1>2. PlacingOK'
  BY DEF IInv, PlacingOK, Reissuing
<1>3. SavingOK'
  BY DEF IInv, SavingOK, RecordOK, KeyOf, Reissuing, AllPendingIs, LiveIs
<1>4. HoldingOK'
  BY DEF IInv, HoldingOK, AllPendingIs, Ready
<1> QED
  BY <1>1, <1>2, <1>3, <1>4 DEF IInv

(* IInv is inductive. *)
LEMMA KeyStep == FailuresCovered /\ IInv /\ [Next]_vars => IInv'
<1> SUFFICES ASSUME FailuresCovered, IInv, [Next]_vars
             PROVE  IInv'
  OBVIOUS
<1>1. TypeInv'
  BY TypeStep DEF IInv
<1>2. CASE \E k \in Keys : Issue(k)
  BY <1>1, <1>2, IssueStep
<1>3. CASE RenewRun
  <2>1. CASE RenewResume
    BY <1>1, <2>1, ResumeStep
  <2>2. ASSUME NEW force \in ForceFlags, RenewSkip(force)
        PROVE  IInv'
    <3>1. PICK k \in Keys : TRUE
      BY <2>2, Typed DEF IInv, RenewSkip, Renew, OptKey
    <3> QED
      BY <1>1, <2>2, <3>1, RenewStep
  <2>3. ASSUME NEW force \in ForceFlags, NEW k \in Keys,
               RenewReissue(k, force) \/ RenewOrder(k, force) \/ RenewNewOrder(k, force)
        PROVE  IInv'
    BY <1>1, <2>3, RenewStep
  <2> QED
    BY <1>3, <2>1, <2>2, <2>3 DEF RenewRun
<1>4. CASE ProcessStep
  <2>1. CASE WritePending \/ PostOrder \/ PostReissue \/ SaveRecord \/ SaveList
    BY <1>1, <2>1, WritePendingStep, PostOrderStep, PostReissueStep,
       SaveRecordStep, SaveListStep
  <2>2. CASE Provision \/ PollOrder \/ Pause \/ StartDownload \/ PollAgain
               \/ DownloadConflict
    BY <1>1, <2>2, ProvisionStep, PollStep, PauseStep, LoopStep
  <2>3. CASE GiveUp \/ Refused
    BY <1>1, <2>3, AbortStep
  <2>4. CASE Download \/ WriteLiveKey \/ WriteLiveCert \/ Reload
    BY <1>1, <2>4, LiveStep
  <2>5. CASE (\E f \in Files : ClearFile(f)) \/ FinishDeployment
    BY <1>1, <2>5, ClearStep, FinishStep
  <2> QED
    BY <1>4, <2>1, <2>2, <2>3, <2>4, <2>5 DEF ProcessStep
<1>5. CASE Abort
  BY <1>1, <1>5, AbortStep
<1>6. CASE Environment
  <2>1. CASE Tick
    BY <1>1, <2>1, ClockKeeps DEF Tick, disk, local
  <2>2. ASSUME NEW o \in Keys,
               \/ ApiProgress(o) \/ ApiRequireAction(o) \/ ApiReject(o)
               \/ ApiReissueFail(o) \/ ApiPurge(o)
        PROVE  IInv'
    <3>1. \A p \in Keys : Advances(p)
      BY <2>2, ApiAdvances
    <3>2. UNCHANGED <<pc, rec, listed, pend, live, served,
                      after, act, key, prev, mem, snap, got>>
      BY <2>2 DEF ApiProgress, ApiExposeToken, ApiRequireAction, ApiComplete, ApiIssue,
                  ApiReject, ApiReissueDone, ApiReissueFail, ApiPurge, ApiStep, disk, local
    <3> QED
      BY <1>1, <3>1, <3>2, ApiKeeps
  <2> QED
    BY <1>6, <2>1, <2>2 DEF Environment
<1>7. CASE UNCHANGED vars
  BY <1>1, <1>7, ClockKeeps DEF vars
<1> QED
  BY <1>2, <1>3, <1>4, <1>5, <1>6, <1>7 DEF Next

(* It holds at the start. *)
LEMMA KeyInit == Init => IInv
<1> SUFFICES ASSUME Init PROVE IInv
  OBVIOUS
<1>1. TypeInv
  BY TypeInit
<1>2. ApiOK
  BY DEF Init, ApiOK, OrderOK, NoOrder
<1>3. RecordOK(rec) /\ ListedOK /\ ServedMatches
  BY DEF Init, NoRec, NoCert, RecordOK, ListedOK, ServedMatches
<1>4. PlacingOK /\ SavingOK /\ HoldingOK
  BY StepSets DEF Init, PlacingOK, SavingOK, HoldingOK
<1> QED
  BY <1>1, <1>2, <1>3, <1>4 DEF IInv

(* As long as state.json can be written whenever certbro.json could, and    *)
(* the provider does not fail a reissue, IInv holds throughout.             *)
THEOREM InvariantHolds == ASSUME FailuresCovered PROVE Spec => []IInv
<1>1. IInv /\ [Next]_vars => IInv'
  BY KeyStep
<1> QED
  BY <1>1, KeyInit, PTL DEF Spec

(* The webserver never runs with a private key and a certificate that do    *)
(* not belong together, whichever runs were killed or failed before: for    *)
(* every number of keys, crashes and renewals.                              *)
THEOREM ServedAlwaysMatches == ASSUME FailuresCovered PROVE Spec => []ServedMatches
<1>1. IInv => ServedMatches
  BY DEF IInv
<1> QED
  BY <1>1, InvariantHolds, PTL

(* pending/ keeps the key of the request the record calls pending until     *)
(* that key and its certificate are deployed, so a later renew can finish.  *)
THEOREM PendingKeyAlwaysKept == ASSUME FailuresCovered PROVE Spec => []PendingKeyKept
<1>1. IInv => PendingKeyKept
  <2> SUFFICES ASSUME IInv, rec.pending # ""
               PROVE  PendingKeyKept
    BY DEF PendingKeyKept
  <2>1. /\ rec.id # NoKey /\ rec.id \in Keys
        /\ rec.pending \in OrderActions \/ rec.pending = "reissue"
    BY Typed DEF IInv, RecordOK, OptKey, Actions
  <2>2. OutstandingKey = KeyOf(rec) /\ OutstandingKey # NoKey
    BY <2>1 DEF IInv, RecordOK, OutstandingKey, KeyOf, OrderActions
  <2>3. \/ \A f \in Files : pend[f] = OutstandingKey
        \/ (\A f \in Files : pend[f] \in {OutstandingKey, NoKey}) /\ Deployed
    BY <2>2 DEF IInv, RecordOK, AllPendingIs, LiveIs, Deployed
  <2> QED
    BY <2>2, <2>3 DEF PendingKeyKept, PendingLoadable
<1> QED
  BY <1>1, InvariantHolds, PTL
=============================================================================
