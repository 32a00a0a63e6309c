----------------------- MODULE CertOrderServiceProofs -----------------------
(***************************************************************************)
(* The proof that CertOrder implements CertService for every number of     *)
(* keys, crashes and renewals: four actions of it map to actions there,    *)
(* and every other step of a run, of the provider and of the clock is a    *)
(* stuttering step.  What the steps need to know follows from IInv and     *)
(* from AnsweredInv, so the refinement holds for either set of failures.   *)
(***************************************************************************)
EXTENDS CertOrderAnsweredProofs, CertOrderService

-----------------------------------------------------------------------------
(* What both invariants say of requests: the one record r calls pending is  *)
(* with the provider, ...                                                   *)
RequestKnown(r) ==
  r.pending # "" =>
    /\ r.id # NoKey /\ api[r.id].status # "none"
    /\ r.pending = "reissue" => api[r.id].rcsr # NoKey

(* ... a run knows the request it works on, and what it deploys is made for *)
(* its key.                                                                 *)
WorkKnown ==
  pc \in Holding =>
    /\ mem = rec /\ rec.id # NoKey /\ api[rec.id].status # "none" /\ key # NoKey
    /\ act = IF rec.pending = "" THEN "reissue" ELSE rec.pending
    /\ key = IF act = "reissue" THEN api[rec.id].rcsr ELSE rec.id
    /\ pc = "reload" => live.key = key /\ live.cert.key = key
    /\ pc = "clear" => served.key = key

RequestsKnown ==
  /\ TypeInv /\ \A o \in Keys : api[o].status = "none" => api[o] = NoOrder
  /\ RequestKnown(Current) /\ WorkKnown
  /\ pc \in Placing => rec.pending = "" /\ (act = "reissue" => mem = rec)

LEMMA KnownByInvariant == IInv => RequestsKnown
<1> SUFFICES ASSUME IInv PROVE RequestsKnown
  OBVIOUS
<1>1. TypeInv /\ \A o \in Keys : api[o].status = "none" => api[o] = NoOrder
  BY DEF IInv, ApiOK, OrderOK
<1>2. RecordOK(Current)
  BY DEF IInv, SavingOK, Current
<1>3. RequestKnown(Current)
  BY <1>2 DEF RecordOK, RequestKnown
<1>4. WorkKnown
  BY StepSets DEF IInv, HoldingOK, RecordOK, WorkKnown
<1>5. pc \in Placing => rec.pending = "" /\ (act = "reissue" => mem = rec)
  BY DEF IInv, PlacingOK
<1> QED
  BY <1>1, <1>3, <1>4, <1>5 DEF RequestsKnown

LEMMA KnownWhenAnswered == AnsweredInv => RequestsKnown
<1> SUFFICES ASSUME AnsweredInv PROVE RequestsKnown
  OBVIOUS
<1>1. TypeInv /\ \A o \in Keys : api[o].status = "none" => api[o] = NoOrder
  BY DEF AnsweredInv, OrdersKept, OrderKept
<1>2. RequestedOK(Current) /\ FilesOK(Current) /\ Current.pending \in Actions \cup {""}
  BY Typed DEF AnsweredInv, AgreedOK, Current
<1>3. RequestKnown(Current)
  BY <1>2 DEF RequestedOK, FilesOK, RequestKnown, Actions
<1>4. WorkKnown
  <2> SUFFICES ASSUME pc \in Holding PROVE WorkKnown
    BY DEF WorkKnown
  <2>1. /\ mem = rec /\ rec.id \in Keys /\ Current = rec /\ rec.pending = act
        /\ rec.pending # "" /\ key = KeyOf(rec) /\ key # NoKey
    BY FollowerKnows
  <2>2. pc = "reload" => live.key = key /\ live.cert.key = key
    BY StepSets DEF AnsweredInv, FollowedOK
  <2>3. pc = "clear" => served.key = key
    BY StepSets DEF AnsweredInv, FollowedOK
  <2>4. rec.id # NoKey /\ api[rec.id].status # "none"
    BY <1>3, <2>1 DEF RequestKnown
  <2> QED
    BY <2>1, <2>2, <2>3, <2>4 DEF WorkKnown, KeyOf
<1>5. pc \in Placing => rec.pending = "" /\ (act = "reissue" => mem = rec)
  BY DEF AnsweredInv, PreparedOK
<1> QED
  BY <1>1, <1>3, <1>4, <1>5 DEF RequestsKnown

-----------------------------------------------------------------------------
(* The provider's requests depend on two fields of its orders.              *)
LEMMA RequestsKept ==
  ASSUME \A o \in Keys : /\ api'[o].status = "none" <=> api[o].status = "none"
                         /\ api'[o].rcsr = api[o].rcsr
  PROVE  Requests' = Requests
BY DEF Requests

(* What the steps that CertService does not see leave alone. *)
Hidden ==
  /\ UNCHANGED <<rec, served>>
  /\ \A o \in Keys : /\ api'[o].status = "none" <=> api[o].status = "none"
                     /\ api'[o].rcsr = api[o].rcsr

(* The key of the outstanding request is read from the record and from the  *)
(* order it names; while a record is saved it names the same one.           *)
LEMMA OutstandingKnown ==
  ASSUME RequestsKnown, SavesSettled, rec.pending # ""
  PROVE  rec.id \in Keys /\ Outstanding = KeyOf(rec)
<1>1. rec.id # NoKey
  BY DEF RequestsKnown, RequestKnown, Current, SavesSettled, TypeInv, IdKnown
<1> QED
  BY <1>1, Typed DEF RequestsKnown, OptKey, Outstanding, OutstandingKey, KeyOf

(* A hidden step is a stuttering step. *)
LEMMA HiddenStutters ==
  ASSUME RequestsKnown, SavesSettled, Hidden
  PROVE  UNCHANGED <<Requests, Outstanding, Serving>>
<1>1. Requests' = Requests
  BY RequestsKept DEF Hidden
<1>2. Outstanding' = Outstanding
  BY OutstandingKnown DEF Hidden, Outstanding, OutstandingKey
<1>3. Serving' = Serving
  BY DEF Hidden, Serving
<1> QED
  BY <1>1, <1>2, <1>3

(* The provider makes no request of its own and drops none. *)
LEMMA ProviderHidden ==
  ASSUME RequestsKnown, NEW o \in Keys, Providing(o)
  PROVE  \A p \in Keys : /\ api'[p].status = "none" <=> api[p].status = "none"
                         /\ api'[p].rcsr = api[p].rcsr
<1>1. api[o] \in OrderType /\ (api[o].status = "none" => api[o] = NoOrder)
  BY Typed DEF RequestsKnown
<1>2. ASSUME NEW c, ApiStep(o, c), c.rcsr = api[o].rcsr, c.status # "none", api[o].status # "none"
      PROVE  \A p \in Keys : /\ api'[p].status = "none" <=> api[p].status = "none"
                             /\ api'[p].rcsr = api[p].rcsr
  BY <1>2 DEF ApiStep, RequestsKnown, TypeInv, TypeOK
<1>3. CASE ApiExposeToken(o) \/ ApiRequireAction(o) \/ ApiIssue(o)
  BY <1>1, <1>2, <1>3 DEF ApiExposeToken, ApiRequireAction, ApiIssue, Open, OrderType
<1>4. CASE ApiComplete(o)
  <2>1. api[o].status # "none"
    BY <1>1, <1>4 DEF ApiComplete, NoOrder
  <2> QED
    BY <1>1, <1>2, <1>4, <2>1 DEF ApiComplete, OrderType
<1>5. CASE ApiReject(o) \/ ApiReissueFail(o) \/ ApiPurge(o)
  BY <1>1, <1>2, <1>5 DEF ApiReject, ApiReissueFail, ApiPurge, OrderType
<1>6. CASE ApiReissueDone(o)
  BY <1>1, <1>2, <1>6 DEF ApiReissueDone, Validated, Open, OrderType
<1> QED
  BY <1>3, <1>4, <1>5, <1>6 DEF Providing, ApiProgress

(* Every step but four is hidden. *)
LEMMA MostStepsHidden ==
  ASSUME RequestsKnown, [Next]_vars
  PROVE  Hidden \/ PostOrder \/ PostReissue \/ SaveRecord \/ Reload
<1>1. CASE \E k \in Keys : Issue(k)
  BY <1>1 DEF Hidden, Issue, Begin, env, disk
<1>2. CASE RenewRun
  BY <1>2 DEF Hidden, RenewRun, RenewResume, RenewSkip, RenewReissue, RenewOrder,
              RenewNewOrder, Begin, env, disk
<1>3. CASE WritePending \/ SaveList \/ Provision \/ PollOrder \/ Pause \/ StartDownload
  BY <1>3 DEF Hidden, WritePending, WritePendingFile, SaveList, Provision, PollOrder,
              Pause, StartDownload, env, disk
<1>4. CASE GiveUp \/ PollAgain \/ Download \/ DownloadConflict \/ WriteLiveKey
             \/ WriteLiveCert \/ Refused \/ Abort
  BY <1>4 DEF Hidden, GiveUp, PollAgain, Download, DownloadConflict, WriteLiveKey,
              WriteLiveCert, Refused, Abort, env, disk
<1>5. CASE (\E f \in Files : ClearFile(f)) \/ FinishDeployment
  BY <1>5 DEF Hidden, ClearFile, FinishDeployment, env, disk
<1>6. CASE Environment
  <2>1. CASE Tick
    BY <2>1 DEF Hidden, Tick, disk
  <2>2. ASSUME NEW o \in Keys, Providing(o) PROVE Hidden
    <3>1. UNCHANGED <<rec, served>>
      BY <2>2, ProvidingFrame
    <3>2. \A p \in Keys : /\ api'[p].status = "none" <=> api[p].status = "none"
                          /\ api'[p].rcsr = api[p].rcsr
      BY <2>2, ProviderHidden
    <3> QED
      BY <3>1, <3>2 DEF Hidden
  <2> QED
    BY <1>6, <2>1, <2>2 DEF Environment, Providing
<1>7. CASE UNCHANGED vars
  BY <1>7 DEF Hidden, vars
<1> QED
  BY <1>1, <1>2, <1>3, <1>4, <1>5, <1>6, <1>7 DEF Next, ProcessStep

(* A key in preparation stays out of the provider's requests until it is    *)
(* posted.                                                                  *)
LEMMA KeyUnusedStep ==
  ASSUME RequestsKnown, KeyUnused, [Next]_vars
  PROVE  KeyUnused'
<1> SUFFICES ASSUME pc' \in Placing PROVE key' \notin Requests'
  BY DEF KeyUnused
<1>1. CASE PostOrder \/ PostReissue \/ SaveRecord \/ Reload
  BY <1>1, StepSets DEF PostOrder, PostReissue, SaveRecord, Reload, SaveThen
<1>2. CASE Hidden
  <2>1. Requests' = Requests
    BY <1>2, RequestsKept DEF Hidden
  <2>2. CASE pc \in Placing /\ key' = key
    BY <2>1, <2>2 DEF KeyUnused
  <2>3. ASSUME NEW k \in Keys, NEW a, NEW r, NEW p, Begin(k, a, r, p)
        PROVE  key' \notin Requests'
    BY <2>1, <2>3 DEF Begin, Fresh, Requests
  <2>4. CASE \E k \in Keys : Issue(k)
    BY <2>3, <2>4 DEF Issue
  <2>5. CASE RenewRun
    <3>1. ASSUME NEW force \in ForceFlags, NEW k \in Keys,
                 RenewReissue(k, force) \/ RenewOrder(k, force) \/ RenewNewOrder(k, force)
          PROVE  key' \notin Requests'
      BY <2>3, <3>1 DEF RenewReissue, RenewOrder, RenewNewOrder
    <3>2. ~RenewResume /\ \A force \in ForceFlags : ~RenewSkip(force)
      BY StepSets DEF RenewResume, RenewSkip, SaveThen
    <3> QED
      BY <2>5, <3>1, <3>2 DEF RenewRun
  <2>6. CASE WritePending
    BY <2>2, <2>6, StepSets DEF WritePending, WritePendingFile, local
  <2>7. CASE SaveList \/ Provision \/ PollOrder \/ Pause \/ StartDownload \/ GiveUp
    <3>1. SaveList => pc' \notin Placing
      BY StepSets DEF SaveList, Exit, RequestsKnown, TypeInv, TypeOK
    <3> QED
      BY <2>7, <3>1, StepSets DEF Provision, PollOrder, Pause, StartDownload, GiveUp,
                                  Exit, SaveThen
  <2>8. CASE \/ PollAgain \/ Download \/ DownloadConflict \/ WriteLiveKey
             \/ WriteLiveCert \/ Refused \/ Abort \/ FinishDeployment
             \/ \E f \in Files : ClearFile(f)
    BY <2>8, StepSets DEF PollAgain, Download, DownloadConflict, WriteLiveKey,
         WriteLiveCert, Refused, Abort, FinishDeployment, ClearFile, Exit, SaveThen
  <2>9. CASE Environment \/ UNCHANGED vars
    <3>1. UNCHANGED <<pc, key>>
      BY <2>9 DEF Environment, Tick, ApiProgress, ApiExposeToken, ApiRequireAction,
           ApiComplete, ApiIssue, ApiReject, ApiReissueDone, ApiReissueFail, ApiPurge,
           ApiStep, local, vars
    <3> QED
      BY <2>2, <3>1
  <2> QED
    BY <1>1, <2>4, <2>5, <2>6, <2>7, <2>8, <2>9 DEF Next, ProcessStep
<1> QED
  BY <1>1, <1>2, MostStepsHidden

(* A run that saves a record on top of an outstanding request carries that  *)
(* request on, or ends it after the reload.                                 *)
LEMMA SavesSettledStep ==
  ASSUME RequestsKnown, SavesSettled, [Next]_vars
  PROVE  SavesSettled'
<1> SUFFICES ASSUME pc' = "saverec", rec'.pending # ""
             PROVE  /\ mem'.id = rec'.id
                    /\ \/ mem'.pending = rec'.pending
                       \/ mem'.pending = "" /\ served'.key = Outstanding'
  BY DEF SavesSettled
<1>1. CASE PostOrder \/ PostReissue
  BY <1>1, StepSets DEF PostOrder, PostReissue, disk, RequestsKnown
<1>2. CASE SaveRecord \/ Reload
  BY <1>2 DEF SaveRecord, Reload
<1>3. CASE Hidden
  <2>1. UNCHANGED <<rec, served>> /\ Outstanding' = Outstanding
    BY <1>3, HiddenStutters DEF Hidden
  <2>2. CASE pc = "saverec" /\ mem' = mem
    BY <2>1, <2>2 DEF SavesSettled
  <2>3. rec \in RecType /\ mem \in RecType /\ snap \in OrderType /\ mem.id \in OptKey
    BY Typed DEF RequestsKnown, TypeInv, TypeOK
  <2>4. CASE RenewRun
    <3>1. CASE \E force \in ForceFlags : RenewSkip(force)
      BY <2>1, <3>1 DEF RenewSkip, PlanSkip, MustComplete
    <3>2. CASE RenewResume
      <4>1. mem' = rec \/ mem' = ApplyRemote(rec, rec.id, Remote)
        BY <3>2 DEF RenewResume, SaveThen
      <4>2. Remote \in OrderType /\ rec.id \in OptKey
        BY <3>2, Typed DEF RequestsKnown, RenewResume, Renew
      <4>3. /\ ApplyRemote(rec, rec.id, Remote).id = rec.id
            /\ ApplyRemote(rec, rec.id, Remote).pending = rec.pending
        BY <2>3, <4>2, ApplyRemoteTyped
      <4> QED
        BY <2>1, <4>1, <4>3
    <3>3. ASSUME NEW force \in ForceFlags, NEW k \in Keys,
                 RenewReissue(k, force) \/ RenewOrder(k, force) \/ RenewNewOrder(k, force)
          PROVE  FALSE
      BY <3>3 DEF RenewReissue, RenewOrder, RenewNewOrder, Begin
    <3> QED
      BY <2>4, <3>1, <3>2, <3>3 DEF RenewRun
  <2>5. CASE Pause
    <3>1. mem = rec /\ mem' = ApplyRemote(mem, mem.id, snap)
      BY <2>5, StepSets DEF Pause, SaveThen, RequestsKnown, WorkKnown
    <3>2. mem'.id = rec.id /\ mem'.pending = rec.pending
      BY <2>3, <3>1, ApplyRemoteTyped
    <3> QED
      BY <2>1, <3>2
  <2>6. CASE FinishDeployment
    <3> DEFINE r == [mem EXCEPT !.pending = "", !.issuedAt = now]
    <3>1. mem = rec /\ mem' = ApplyRemote(r, mem.id, snap) /\ served.key = key
      BY <2>6, StepSets DEF FinishDeployment, SaveThen, RequestsKnown, WorkKnown
    <3>2. r \in RecType /\ r.pending = ""
      BY <2>3, EndsTyped DEF RecType, RequestsKnown, TypeInv, TypeOK
    <3> HIDE DEF r
    <3>3. mem'.id = rec.id /\ mem'.pending = ""
      BY <2>3, <3>1, <3>2, ApplyRemoteTyped
    <3>4. Outstanding = key
      BY <2>1, <2>6, StepSets DEF FinishDeployment, RequestsKnown, WorkKnown, Outstanding, OutstandingKey
    <3> QED
      BY <2>1, <3>1, <3>3, <3>4
  <2>7. CASE Environment \/ UNCHANGED vars
    <3>1. UNCHANGED <<pc, mem>>
      BY <2>7 DEF Environment, Tick, ApiProgress, ApiExposeToken, ApiRequireAction,
           ApiComplete, ApiIssue, ApiReject, ApiReissueDone, ApiReissueFail, ApiPurge,
           ApiStep, local, vars
    <3> QED
      BY <2>2, <3>1
  <2>8. CASE (\E k \in Keys : Issue(k)) \/ WritePending \/ StartDownload \/ Abort
    BY <2>8 DEF Issue, Begin, WritePending, WritePendingFile, StartDownload, Abort, Exit
  <2>9. CASE \/ SaveList \/ Provision \/ PollOrder \/ GiveUp \/ PollAgain \/ Download
             \/ DownloadConflict \/ WriteLiveKey \/ WriteLiveCert \/ Refused
             \/ \E f \in Files : ClearFile(f)
    BY <2>9 DEF SaveList, Provision, PollOrder, GiveUp, PollAgain, Download,
         DownloadConflict, WriteLiveKey, WriteLiveCert, Refused, ClearFile, Exit,
         RequestsKnown, TypeInv, TypeOK
  <2> QED
    BY <1>1, <1>2, <2>4, <2>5, <2>6, <2>7, <2>8, <2>9 DEF Next, ProcessStep
<1> QED
  BY <1>1, <1>2, <1>3, MostStepsHidden

(* What CertService sees of a posted request: nothing was outstanding, and  *)
(* the key is a new one.                                                    *)
LEMMA PostsAsk ==
  ASSUME RequestsKnown, KeyUnused, TypeInv', PostOrder \/ PostReissue
  PROVE  \E k \in Keys : Service!Ask(k)
<1>1. /\ pc = "post" /\ key \in Keys /\ key \notin Requests
      /\ UNCHANGED <<rec, served>> /\ rec.pending = ""
      /\ act = "reissue" => mem = rec /\ rec.id \in Keys
  BY StepSets, Typed DEF PostOrder, PostReissue, disk, KeyUnused, OptKey,
     RequestsKnown, TypeInv, TypeOK, IdKnown
<1>2. /\ UNCHANGED <<Outstanding, Serving>> /\ Outstanding = NoKey
  BY <1>1 DEF Outstanding, Serving
<1>3. api \in [Keys -> OrderType]
  BY DEF RequestsKnown, TypeInv, TypeOK
<1>4. key \in Requests' /\ Requests' \subseteq Requests \cup {key}
  <2>1. CASE PostOrder
    <3>1. PICK t \in {key, NoKey}, a \in ConsoleStep :
            api' = [api EXCEPT ![key] = NewOrder(key, t, a)]
      BY <2>1 DEF PostOrder
    <3>2. NewOrder(key, t, a).status = "pending" /\ NewOrder(key, t, a).rcsr = NoKey
      BY DEF NewOrder, NoOrder
    <3>3. \A o \in Keys : api'[o] = IF o = key THEN NewOrder(key, t, a) ELSE api[o]
      BY <1>3, <3>1
    <3>4. /\ \A o \in Keys : /\ api'[o].status # "none" => o = key \/ api[o].status # "none"
                             /\ api'[o].rcsr \in Keys => api'[o].rcsr = api[o].rcsr
          /\ api'[key].status # "none"
      BY <1>1, KeysAssumption, <3>2, <3>3
    <3> QED
      BY <1>1, <3>4 DEF Requests
  <2>2. CASE PostReissue
    <3>1. PICK t \in {key, NoKey}, a \in ConsoleStep :
            api' = [api EXCEPT ![mem.id] =
                      [api[mem.id] EXCEPT !.reissue = "active", !.rcsr = key,
                                          !.token = t, !.action = a]]
      BY <2>2 DEF PostReissue
    <3>2. mem.id \in Keys /\ api[mem.id].status = "issued"
      BY <1>1, <2>2 DEF PostReissue
    <3>3. \A o \in Keys : /\ api'[o].status = api[o].status
                          /\ api'[o].rcsr = IF o = mem.id THEN key ELSE api[o].rcsr
      BY <1>3, <3>1, <3>2 DEF OrderType
    <3> QED
      BY <1>1, <3>2, <3>3 DEF Requests
  <2> QED
    BY <2>1, <2>2
<1> QED
  BY <1>1, <1>2, <1>4 DEF Service!Ask

(* Saving the record is what makes a request outstanding or settles it.     *)
LEMMA SavesRecordOrSettle ==
  ASSUME RequestsKnown, SavesSettled, SaveRecord
  PROVE  \/ UNCHANGED <<Requests, Outstanding, Serving>>
         \/ Service!Settle
         \/ \E k \in Keys : Service!Record(k)
<1>1. pc = "saverec" /\ rec' = mem /\ UNCHANGED <<api, served>>
  BY DEF SaveRecord, env
<1>2. UNCHANGED <<Requests, Serving>>
  BY <1>1 DEF Requests, Serving
<1>3. RequestKnown(mem) /\ mem.id \in Keys /\ api[mem.id] \in OrderType
  BY <1>1, Typed DEF RequestsKnown, Current, TypeInv, IdKnown, OptKey
<1>4. Outstanding' = IF mem.pending = "" THEN NoKey ELSE KeyOf(mem)
  BY <1>1 DEF Outstanding, OutstandingKey, KeyOf
<1>5. mem.pending # "" => KeyOf(mem) \in Keys /\ KeyOf(mem) \in Requests
  BY <1>3 DEF RequestKnown, KeyOf, OrderType, OptKey, Requests
<1>6. CASE rec.pending = ""
  <2>1. Outstanding = NoKey
    BY <1>6 DEF Outstanding
  <2> QED
    BY <1>2, <1>4, <1>5, <2>1 DEF Service!Record
<1>7. CASE rec.pending # ""
  <2>1. Outstanding = KeyOf(rec)
    BY <1>7, OutstandingKnown
  <2>2. CASE mem.pending = rec.pending
    BY <1>1, <1>2, <1>4, <1>7, <2>1, <2>2 DEF SavesSettled, KeyOf
  <2>3. CASE mem.pending = "" /\ served.key = Outstanding
    BY <1>2, <1>4, <2>3 DEF Service!Settle, Serving
  <2> QED
    BY <1>1, <1>7, <2>2, <2>3 DEF SavesSettled
<1> QED
  BY <1>6, <1>7

(* The reload serves the certificate of the outstanding request.            *)
LEMMA ReloadServes ==
  ASSUME RequestsKnown, Reload
  PROVE  \E k \in Keys : Service!Serve(k)
<1>1. /\ pc = "reload" /\ served' = live /\ UNCHANGED <<rec, api>>
      /\ live.key = key /\ live.cert.key = key /\ key # NoKey
      /\ rec.id # NoKey /\ api[rec.id].status # "none"
      /\ act = IF rec.pending = "" THEN "reissue" ELSE rec.pending
      /\ key = IF act = "reissue" THEN api[rec.id].rcsr ELSE rec.id
  BY StepSets DEF Reload, env, RequestsKnown, WorkKnown
<1>2. key \in Keys /\ rec.id \in Keys /\ api[rec.id] \in OrderType
  BY <1>1, Typed DEF RequestsKnown, TypeInv, TypeOK, OptKey
<1>3. UNCHANGED <<Requests, Outstanding>>
  BY <1>1 DEF Requests, Outstanding, OutstandingKey
<1>4. key \in Requests
  BY <1>1, <1>2 DEF Requests
<1>5. Outstanding \in {NoKey, key}
  BY <1>1 DEF Outstanding, OutstandingKey
<1>6. Serving' = [key |-> key, cert |-> key]
  BY <1>1 DEF Serving
<1> QED
  BY <1>2, <1>3, <1>4, <1>5, <1>6 DEF Service!Serve

(* Every step of CertOrder is a step of CertService or none.                *)
LEMMA ServiceStep ==
  RequestsKnown /\ ServiceInv /\ [Next]_vars => [Service!Next]_Service!vars
<1> SUFFICES ASSUME RequestsKnown, ServiceInv, [Next]_vars
             PROVE  [Service!Next]_Service!vars
  OBVIOUS
<1>1. CASE Hidden
  BY <1>1, HiddenStutters DEF ServiceInv, Service!vars
<1>2. CASE PostOrder \/ PostReissue
  BY <1>2, PostsAsk, TypeStep DEF RequestsKnown, ServiceInv, Service!Next
<1>3. CASE SaveRecord
  BY <1>3, SavesRecordOrSettle DEF ServiceInv, Service!Next, Service!vars
<1>4. CASE Reload
  BY <1>4, ReloadServes DEF Service!Next
<1> QED
  BY <1>1, <1>2, <1>3, <1>4, MostStepsHidden

(* The record and the requests start empty. *)
LEMMA ServiceInit == Init => Service!Init /\ ServiceInv
<1> SUFFICES ASSUME Init PROVE Service!Init /\ ServiceInv
  OBVIOUS
<1>1. \A o \in Keys : api[o].status = "none" /\ api[o].rcsr = NoKey
  BY DEF Init, NoOrder
<1>2. Requests = {}
  BY <1>1, KeysAssumption DEF Requests
<1>3. Outstanding = NoKey /\ Serving = [key |-> NoKey, cert |-> NoKey]
  BY DEF Init, Outstanding, Serving, NoRec, NoCert
<1>4. ServiceInv
  BY StepSets DEF Init, ServiceInv, KeyUnused, SavesSettled
<1> QED
  BY <1>2, <1>3, <1>4 DEF Service!Init

(* A specification that always knows its requests implements CertService. *)
LEMMA KnownImplements == Spec /\ []RequestsKnown => ImplementsService
<1>1. RequestsKnown /\ ServiceInv /\ [Next]_vars => ServiceInv'
  BY KeyUnusedStep, SavesSettledStep DEF ServiceInv
<1>2. RequestsKnown /\ ServiceInv /\ [Next]_vars => [Service!Next]_Service!vars
  BY ServiceStep
<1> QED
  BY <1>1, <1>2, ServiceInit, PTL DEF Spec, ImplementsService, Service!Spec

(* Certbro keeps its promise whatever fails, a lost answer included: it     *)
(* never makes a second request beside a recorded one, never gives a        *)
(* recorded one up before the webserver runs with its certificate, and      *)
(* never serves a key with another key's certificate.                       *)
THEOREM CertOrderImplementsService ==
  ASSUME FailuresCovered PROVE Spec => ImplementsService
BY KnownByInvariant, KnownImplements, InvariantHolds, PTL

(* It keeps the same promise to a provider that fails reissues, as long as  *)
(* no run ends between an answer and the save of its record.                *)
THEOREM ServiceImplementedWhenAnswered ==
  ASSUME AnswersRecorded PROVE Spec => ImplementsService
BY KnownWhenAnswered, KnownImplements, AnsweredInvHolds, PTL
=============================================================================
