----------------------- MODULE CertOrderAnsweredProofs -----------------------
(***************************************************************************)
(* Proofs about CertOrder for runs that always record the answer to a      *)
(* request, among them those whose reissues fail: no second open order, a  *)
(* pending request that can be resumed, a record that tells of the         *)
(* deployed certificate, and the repair of a torn live/.                   *)
(***************************************************************************)
EXTENDS CertOrderProofs, CertOrderAnswered

(* No run ends between the answer to a request and the save of the record. *)
AnswersRecorded == {"saverec", "savelist"} \cap AbortPoints = {}

-----------------------------------------------------------------------------
(* What the actions have in common, whichever invariant they are to keep.   *)

(* What the record takes over besides the end of validity. *)
LEMMA ApplyRemoteTakes ==
  ASSUME NEW r \in RecType, NEW o \in OptKey, NEW c \in OrderType
  PROVE  ApplyRemote(r, o, c) \in RecType /\ ApplyRemote(r, o, c).id = o
         /\ ApplyRemote(r, o, c).pending = r.pending /\ ApplyRemote(r, o, c).until = c.until
BY ApplyRemoteTyped DEF ApplyRemote, RecType

(* A run of renew that ends at once, or resumes to end at once, saves the   *)
(* recorded request with the end the order has now.                         *)
LEMMA RenewSaves ==
  ASSUME TypeInv,
         \/ \E force \in ForceFlags : RenewSkip(force)
         \/ RenewResume /\ Remote.action
  PROVE  /\ pc = "idle" /\ pc' = "saverec" /\ after' = "idle" /\ rec.id \in Keys
         /\ mem'.id = rec.id /\ mem'.pending = rec.pending /\ mem'.until = api[rec.id].until
         /\ UNCHANGED <<api, rec, listed, pend, live, served>>
<1>1. pc = "idle" /\ rec.id \in Keys /\ rec \in RecType /\ Remote \in OrderType
  BY Typed DEF RenewSkip, RenewResume, Renew, OptKey
<1>2. pc' = "saverec" /\ after' = "idle" /\ mem' = ApplyRemote(rec, rec.id, Remote)
  BY DEF RenewSkip, RenewResume, SaveThen
<1>3. UNCHANGED <<api, rec, listed, pend, live, served>>
  BY DEF RenewSkip, RenewResume, env, disk
<1>4. rec.id \in OptKey
  BY <1>1 DEF OptKey
<1> QED
  BY <1>1, <1>2, <1>3, <1>4, ApplyRemoteTakes DEF Remote

(* A run of renew that prepares a request does so while none is pending and *)
(* the order behind the record is neither open nor being reissued.          *)
LEMMA RenewBegins ==
  ASSUME TypeInv, NEW force \in ForceFlags, NEW k \in Keys,
         RenewReissue(k, force) \/ RenewOrder(k, force) \/ RenewNewOrder(k, force)
  PROVE  /\ pc = "idle" /\ rec.id \in Keys /\ rec.pending = ""
         /\ Remote.status # "pending"
         /\ Fresh(k) /\ pc' = "privkey" /\ key' = k /\ mem' = rec
         /\ act' = "reissue" => prev' = Remote.until
         /\ UNCHANGED <<api, rec, listed, pend, live, served>>
<1>1. pc = "idle" /\ rec.id \in Keys
  BY Typed DEF RenewReissue, RenewOrder, RenewNewOrder, Renew, OptKey
<1>2. rec.pending = "" /\ Remote.status # "pending"
  BY DEF RenewReissue, RenewOrder, RenewNewOrder, PlanReissue, PlanOrder, PlanNewOrder,
         MustComplete, Gone
<1> QED
  BY <1>1, <1>2 DEF RenewReissue, RenewOrder, RenewNewOrder, Begin, env, disk

(* The sets of steps of a run that loops or deploys: neither the record nor *)
(* what the run works on changes.                                           *)
Following ==
  \/ Provision \/ PollOrder \/ StartDownload \/ PollAgain \/ Download
  \/ DownloadConflict \/ WriteLiveKey \/ WriteLiveCert \/ Reload
  \/ \E f \in Files : ClearFile(f)

LEMMA FollowingKeeps ==
  ASSUME Following
  PROVE  /\ pc \in Holding /\ pc' \in Holding
         /\ pc' = "clear" => pc \in {"reload", "clear"}
         /\ pc = "clear" => pc' = "clear"
         /\ pend' = pend \/ pc = "clear"
         /\ UNCHANGED <<api, rec, listed, mem, act, key, prev>>
<1>1. /\ pc \in Holding /\ pc' \in Holding
      /\ pc' = "clear" => pc \in {"reload", "clear"}
      /\ pc = "clear" => pc' = "clear"
      /\ pend' = pend \/ pc = "clear"
  BY StepSets DEF Following, Provision, PollOrder, StartDownload, PollAgain, Download,
         DownloadConflict, WriteLiveKey, WriteLiveCert, Reload, ClearFile, disk
<1>2. UNCHANGED <<api, rec, listed, mem, act, key, prev>>
  BY DEF Following, Provision, PollOrder, StartDownload, PollAgain, Download,
         DownloadConflict, WriteLiveKey, WriteLiveCert, Reload, ClearFile, env, disk, local
<1> QED
  BY <1>1, <1>2

(* A run that pauses saves the request it works on with the answer it has   *)
(* seen last; one that is through saves the end of it.                      *)
LEMMA FollowerSaves ==
  ASSUME TypeInv, Pause \/ FinishDeployment
  PROVE  /\ pc = (IF Pause THEN "check" ELSE "clear") /\ pc' = "saverec" /\ after' = "idle"
         /\ mem'.id = mem.id /\ mem'.until = snap.until
         /\ Pause => mem'.pending = mem.pending
         /\ ~Pause => mem'.pending = ""
         /\ UNCHANGED <<api, rec, listed, pend, live, served>>
<1>1. mem \in RecType /\ mem.id \in OptKey /\ snap \in OrderType
  BY Typed DEF TypeInv, TypeOK
<1>2. pc' = "saverec" /\ after' = "idle" /\ UNCHANGED <<api, rec, listed, pend, live, served>>
  BY DEF Pause, FinishDeployment, SaveThen, env, disk
<1>3. CASE Pause
  <2>1. mem' = ApplyRemote(mem, mem.id, snap) /\ pc = "check"
    BY <1>3 DEF Pause, SaveThen
  <2> QED
    BY <1>1, <1>2, <1>3, <2>1, ApplyRemoteTakes
<1>4. CASE ~Pause
  <2> DEFINE r == [mem EXCEPT !.pending = "", !.issuedAt = now]
  <2>1. r \in RecType /\ r.pending = ""
    BY <1>1, EndsTyped DEF TypeInv, TypeOK, RecType
  <2>2. mem' = ApplyRemote(r, mem.id, snap) /\ pc = "clear"
    BY <1>4 DEF FinishDeployment, SaveThen
  <2> HIDE DEF r
  <2> QED
    BY <1>1, <1>2, <1>4, <2>1, <2>2, ApplyRemoteTakes
<1> QED
  BY <1>3, <1>4

(* A run that ends takes nothing with it but its memory, and no record that *)
(* was to be saved when every answer is recorded.                           *)
Ending == GiveUp \/ Refused \/ Abort

LEMMA EndingKeeps ==
  ASSUME Ending
  PROVE  /\ pc' = "idle" /\ pc \in AbortPoints \cup Holding \cup Placing
         /\ UNCHANGED <<api, rec, listed, pend, live, served>>
BY StepSets DEF Ending, GiveUp, Refused, Abort, Exit, env, disk

(* The provider's steps leave everything but one order alone. *)
Providing(o) == ApiProgress(o) \/ ApiRequireAction(o) \/ ApiReject(o)
                  \/ ApiReissueFail(o) \/ ApiPurge(o)

LEMMA ProvidingFrame ==
  ASSUME NEW o \in Keys, Providing(o)
  PROVE  UNCHANGED <<pc, rec, listed, pend, live, served, after, mode, act, key, prev,
                     mem, snap, got>>
BY DEF Providing, ApiProgress, ApiExposeToken, ApiRequireAction, ApiComplete, ApiIssue,
       ApiReject, ApiReissueDone, ApiReissueFail, ApiPurge, ApiStep, disk, local

(* An accepted order: pending at the provider, to be recorded next. *)
LEMMA OrderPlaced ==
  ASSUME TypeInv, PostOrder
  PROVE  /\ pc = "post" /\ key \in Keys /\ act \in OrderActions
         /\ \A o \in Keys \ {key} : api'[o] = api[o]
         /\ api'[key].status = "pending" /\ api'[key].reissue = "none"
         /\ api'[key].cert = NoKey /\ api'[key].rcsr = NoKey /\ api'[key].until = NoTime
         /\ mem'.id = key /\ mem'.pending = act
         /\ pc' = "saverec" /\ after' \in {"idle", "ensure"}
         /\ UNCHANGED <<rec, listed, pend, live, served, act, key, prev>>
<1>1. pc = "post" /\ key \in Keys /\ key \in OptKey /\ act \in OrderActions
      /\ UNCHANGED <<rec, listed, pend, live, served, act, key, prev>>
  BY StepSets DEF PostOrder, disk, TypeInv, TypeOK, IdKnown, OptKey
<1>2. PICK t \in {key, NoKey}, a \in ConsoleStep :
        /\ api' = [api EXCEPT ![key] = NewOrder(key, t, a)]
        /\ mem' = ApplyRemote([mem EXCEPT !.pending = act], key, NewOrder(key, t, a))
        /\ pc' = "saverec" /\ after' \in {"idle", "ensure"}
  BY DEF PostOrder, SaveThen
<1> DEFINE c == NewOrder(key, t, a)
           r == [mem EXCEPT !.pending = act]
<1>3. /\ c \in OrderType /\ c.status = "pending" /\ c.reissue = "none"
      /\ c.cert = NoKey /\ c.rcsr = NoKey /\ c.until = NoTime
  <2>1. t \in OptKey /\ a \in BOOLEAN
    BY <1>1, <1>2 DEF ConsoleStep, OptKey
  <2> QED
    BY <2>1 DEF NewOrder, NoOrder, OrderType, OptKey, OptTime
<1>4. r \in RecType /\ r.pending = act
  BY Typed DEF TypeInv, TypeOK, RecType
<1>5. api' = [api EXCEPT ![key] = c] /\ mem' = ApplyRemote(r, key, c)
  BY <1>2
<1> HIDE DEF c, r
<1>6. mem'.id = key /\ mem'.pending = act
  BY <1>1, <1>3, <1>4, <1>5, ApplyRemoteTakes
<1>7. api'[key] = c /\ \A o \in Keys \ {key} : api'[o] = api[o]
  BY <1>1, <1>5 DEF TypeInv, TypeOK
<1> QED
  BY <1>1, <1>2, <1>3, <1>6, <1>7

(* An accepted reissue: the certificate of the order stays until it is done. *)
LEMMA ReissuePlaced ==
  ASSUME TypeInv, PostReissue
  PROVE  /\ pc = "post" /\ key \in Keys /\ mem.id \in Keys /\ act = "reissue"
         /\ \A o \in Keys \ {mem.id} : api'[o] = api[o]
         /\ api[mem.id].status = "issued" /\ api'[mem.id].status = "issued"
         /\ api'[mem.id].reissue = "active" /\ api'[mem.id].rcsr = key
         /\ api'[mem.id].cert = api[mem.id].cert /\ api'[mem.id].until = api[mem.id].until
         /\ mem'.id = mem.id /\ mem'.pending = "reissue" /\ mem'.until = api[mem.id].until
         /\ pc' = "saverec" /\ after' = "ensure"
         /\ UNCHANGED <<rec, listed, pend, live, served, act, key, prev>>
<1>1. /\ pc = "post" /\ key \in Keys /\ mem.id \in Keys /\ act = "reissue"
      /\ api[mem.id].status = "issued"
      /\ UNCHANGED <<rec, listed, pend, live, served, act, key, prev>>
  BY StepSets, Typed DEF PostReissue, disk, TypeInv, TypeOK, IdKnown, OptKey
<1> DEFINE c(t, a) == [api[mem.id] EXCEPT !.reissue = "active", !.rcsr = key,
                                          !.token = t, !.action = a]
           r == [mem EXCEPT !.pending = act]
<1>2. PICK t \in {key, NoKey}, a \in ConsoleStep :
        /\ api' = [api EXCEPT ![mem.id] = c(t, a)]
        /\ mem' = ApplyRemote(r, mem.id, c(t, a))
        /\ pc' = "saverec" /\ after' = "ensure"
  BY DEF PostReissue, SaveThen
<1>3. /\ c(t, a) \in OrderType /\ c(t, a).status = "issued"
      /\ c(t, a).reissue = "active" /\ c(t, a).rcsr = key
      /\ c(t, a).cert = api[mem.id].cert /\ c(t, a).until = api[mem.id].until
  <2>1. api[mem.id] \in OrderType /\ t \in OptKey /\ a \in BOOLEAN /\ key \in OptKey
    BY <1>1, <1>2, Typed DEF ConsoleStep, OptKey
  <2> QED
    BY <1>1, <2>1 DEF OrderType
<1>4. r \in RecType /\ r.pending = act /\ mem.id \in OptKey
  BY Typed DEF TypeInv, TypeOK, RecType
<1> HIDE DEF c, r
<1>5. mem'.id = mem.id /\ mem'.pending = act /\ mem'.until = c(t, a).until
  BY <1>2, <1>3, <1>4, ApplyRemoteTakes
<1>6. api'[mem.id] = c(t, a) /\ \A o \in Keys \ {mem.id} : api'[o] = api[o]
  BY <1>1, <1>2 DEF TypeInv, TypeOK
<1> QED
  BY <1>1, <1>2, <1>3, <1>5, <1>6

-----------------------------------------------------------------------------
(* OpenInv: at most one order is open. *)

(* Only an order that is placed is pending from then on. *)
LEMMA NoneOpens ==
  ASSUME TypeInv, NEW o \in Keys, Providing(o)
  PROVE  \A p \in Keys : api'[p].status = "pending" => api[p].status = "pending"
<1>1. ASSUME NEW c, ApiStep(o, c), c.status = "pending" => api[o].status = "pending"
      PROVE  \A p \in Keys : api'[p].status = "pending" => api[p].status = "pending"
  BY <1>1 DEF ApiStep, TypeInv, TypeOK
<1>2. api[o] \in OrderType
  BY DEF TypeInv, TypeOK
<1>3. CASE ApiExposeToken(o) \/ ApiRequireAction(o) \/ ApiComplete(o) \/ ApiReissueFail(o)
  BY <1>1, <1>2, <1>3
     DEF ApiExposeToken, ApiRequireAction, ApiComplete, ApiReissueFail, OrderType
<1>4. CASE ApiIssue(o) \/ ApiReject(o) \/ ApiPurge(o) \/ ApiReissueDone(o)
  BY <1>1, <1>2, <1>4 DEF ApiIssue, ApiReject, ApiPurge, ApiReissueDone, OrderType
<1> QED
  BY <1>3, <1>4 DEF Providing, ApiProgress

(* OpenInv is inductive when every answer is recorded. *)
LEMMA OpenStep == AnswersRecorded /\ OpenInv /\ [Next]_vars => OpenInv'
<1> SUFFICES ASSUME AnswersRecorded, OpenInv, [Next]_vars
             PROVE  OpenInv'
  OBVIOUS
<1>1. TypeInv /\ TypeInv'
  BY TypeStep DEF OpenInv
<1>2. rec.id \in OptKey
  BY <1>1, Typed
<1>3. ASSUME NEW k \in Keys, Issue(k) PROVE OpenInv'
  <2>1. /\ pc = "idle" /\ rec.id = NoKey /\ pc' = "privkey"
        /\ UNCHANGED <<api, rec, listed>>
    BY <1>3 DEF OpenInv, ListedOK, Issue, Begin, env, disk
  <2>2. \A o \in Keys : api[o].status # "pending"
    BY <2>1, KeysAssumption DEF OpenInv, Current
  <2> QED
    BY <1>1, <2>1, <2>2, StepSets DEF OpenInv, ListedOK, Current
<1>4. CASE (\E force \in ForceFlags : RenewSkip(force)) \/ (RenewResume /\ Remote.action)
  BY <1>1, <1>4, RenewSaves, StepSets DEF OpenInv, ListedOK, Current
<1>5. ASSUME NEW force \in ForceFlags, NEW k \in Keys,
             RenewReissue(k, force) \/ RenewOrder(k, force) \/ RenewNewOrder(k, force)
      PROVE  OpenInv'
  BY <1>1, <1>5, RenewBegins, StepSets DEF OpenInv, ListedOK, Current, Remote
<1>6. CASE RenewResume /\ ~Remote.action
  <2>1. /\ pc = "idle" /\ pc' = "ensure" /\ mem' = rec
        /\ UNCHANGED <<api, rec, listed>>
    BY <1>6 DEF RenewResume, Renew, env, disk
  <2> QED
    BY <1>1, <2>1, StepSets DEF OpenInv, ListedOK, Current
<1>7. CASE WritePending
  <2>1. pc \in Placing /\ pc' \in Placing /\ UNCHANGED <<api, rec, listed>>
    BY <1>7, StepSets DEF WritePending, WritePendingFile, env
  <2> QED
    BY <1>1, <2>1, StepSets DEF OpenInv, ListedOK, Current
<1>8. CASE PostOrder
  BY <1>1, <1>8, OrderPlaced, StepSets DEF OpenInv, ListedOK, Current
<1>9. CASE PostReissue
  <2>1. \A o \in Keys : api'[o].status # "pending"
    BY <1>1, <1>9, ReissuePlaced, StepSets DEF OpenInv
  <2> QED
    BY <1>1, <1>9, <2>1, ReissuePlaced, StepSets DEF OpenInv, ListedOK
<1>10. CASE SaveRecord
  BY <1>1, <1>10, StepSets DEF SaveRecord, env, local, OpenInv, ListedOK, Current
<1>11. CASE SaveList
  <2>1. /\ pc = "savelist" /\ listed' = TRUE /\ UNCHANGED <<api, rec>>
        /\ pc' = "idle" \/ (pc' = "ensure" /\ mem' = mem)
    BY <1>1, <1>11 DEF SaveList, Exit, env, local, TypeInv, TypeOK
  <2> QED
    BY <1>1, <2>1, StepSets DEF OpenInv, ListedOK, Current
<1>12. CASE Following
  BY <1>1, <1>12, FollowingKeeps, StepSets DEF OpenInv, ListedOK, Current
<1>13. CASE Pause \/ FinishDeployment
  BY <1>1, <1>13, FollowerSaves, StepSets DEF OpenInv, ListedOK, Current
<1>14. CASE Ending
  BY <1>1, <1>14, EndingKeeps, StepSets DEF OpenInv, ListedOK, Current, AnswersRecorded
<1>15. ASSUME NEW o \in Keys, Providing(o) PROVE OpenInv'
  BY <1>1, <1>15, ProvidingFrame, NoneOpens DEF OpenInv, ListedOK, Current
<1>16. CASE Tick \/ UNCHANGED vars
  BY <1>1, <1>16 DEF Tick, disk, local, vars, OpenInv, ListedOK, Current
<1> QED
  BY <1>3, <1>4, <1>5, <1>6, <1>7, <1>8, <1>9, <1>10, <1>11, <1>12, <1>13, <1>14, <1>15, <1>16
     DEF Next, RenewRun, ProcessStep, Environment, Following, Ending, Providing

(* certbro never has two open orders for one certificate: as long as every  *)
(* answer is recorded, renew plans only once the last order is settled.     *)
THEOREM OneOrderOpen == ASSUME AnswersRecorded PROVE Spec => []OneOpenOrder
<1>1. Init => OpenInv
  <2>1. ASSUME Init PROVE /\ ListedOK /\ pc = "idle"
                          /\ \A o \in Keys : api[o].status = "none"
    BY <2>1 DEF Init, NoRec, NoOrder, ListedOK
  <2> QED
    BY <2>1, TypeInit, StepSets DEF OpenInv
<1>2. OpenInv /\ [Next]_vars => OpenInv'
  BY OpenStep
<1>3. OpenInv => OneOpenOrder
  BY DEF OpenInv, OneOpenOrder
<1> QED
  BY <1>1, <1>2, <1>3, PTL DEF Spec

-----------------------------------------------------------------------------
(* ResumeInv: pending/ is complete while a request is pending.              *)

(* No run ends before a record is saved, or while pending/ is removed. *)
PendingWhole == {"saverec", "clear"} \cap AbortPoints = {}

(* ResumeInv is inductive when no run ends at one of these two steps. *)
LEMMA ResumableStep == PendingWhole /\ ResumeInv /\ [Next]_vars => ResumeInv'
<1> SUFFICES ASSUME PendingWhole, ResumeInv, [Next]_vars
             PROVE  ResumeInv'
  OBVIOUS
<1> USE DEF Current, PendingLoadable
<1>1. TypeInv /\ TypeInv'
  BY TypeStep DEF ResumeInv
<1>2. Files = {"privkey", "csr", "meta"} /\ pend \in [Files -> OptKey]
  BY <1>1 DEF Files, TypeInv, TypeOK
<1>3. ASSUME NEW k \in Keys, Issue(k) PROVE ResumeInv'
  <2>1. /\ pc = "idle" /\ pc' = "privkey" /\ UNCHANGED <<rec, pend>>
    BY <1>3 DEF Issue, Begin, disk
  <2> QED
    BY <1>1, <2>1, StepSets DEF ResumeInv, WrittenOK
<1>4. CASE (\E force \in ForceFlags : RenewSkip(force)) \/ (RenewResume /\ Remote.action)
  BY <1>1, <1>4, RenewSaves, StepSets DEF ResumeInv, WrittenOK
<1>5. ASSUME NEW force \in ForceFlags, NEW k \in Keys,
             RenewReissue(k, force) \/ RenewOrder(k, force) \/ RenewNewOrder(k, force)
      PROVE  ResumeInv'
  BY <1>1, <1>5, RenewBegins, StepSets DEF ResumeInv, WrittenOK
<1>6. CASE RenewResume /\ ~Remote.action
  <2>1. pc = "idle" /\ pc' = "ensure" /\ PendingLoadable /\ UNCHANGED <<rec, pend>>
    BY <1>6 DEF RenewResume, Renew, disk
  <2> QED
    BY <1>1, <2>1, StepSets DEF ResumeInv, WrittenOK
<1>7. CASE WritePending
  <2>1. PICK f \in Files, n \in {"csr", "meta", "post"} :
          /\ pc = f /\ pc' = n /\ pend' = [pend EXCEPT ![f] = key] /\ UNCHANGED rec
          /\ <<f, n>> \in {<<"privkey", "csr">>, <<"csr", "meta">>, <<"meta", "post">>}
    BY <1>7, <1>2 DEF WritePending, WritePendingFile
  <2>2. pc \in Placing /\ pc' \in Placing /\ key # NoKey
    BY <1>1, <1>2, <2>1, StepSets DEF TypeInv, IdKnown
  <2>3. \A g \in Files : pend'[g] = IF g = f THEN key ELSE pend[g]
    BY <1>2, <2>1
  <2>4. WrittenOK'
    BY <1>2, <2>1, <2>2, <2>3 DEF ResumeInv, WrittenOK
  <2> QED
    BY <1>1, <1>2, <2>1, <2>2, <2>3, <2>4, StepSets DEF ResumeInv
<1>8. CASE PostOrder
  BY <1>1, <1>2, <1>8, OrderPlaced, StepSets DEF ResumeInv, WrittenOK
<1>9. CASE PostReissue
  BY <1>1, <1>2, <1>9, ReissuePlaced, StepSets DEF ResumeInv, WrittenOK
<1>10. CASE SaveRecord
  BY <1>1, <1>10, StepSets DEF SaveRecord, env, local, ResumeInv, WrittenOK
<1>11. CASE SaveList
  <2>1. /\ pc = "savelist" /\ UNCHANGED <<rec, pend>>
        /\ pc' = "idle" \/ (pc' = "ensure" /\ after = "ensure")
    BY <1>1, <1>11 DEF SaveList, Exit, TypeInv, TypeOK
  <2> QED
    BY <1>1, <2>1, StepSets DEF ResumeInv, WrittenOK
<1>12. CASE Following
  BY <1>1, <1>12, FollowingKeeps, StepSets DEF ResumeInv, WrittenOK
<1>13. CASE Pause \/ FinishDeployment
  BY <1>1, <1>13, FollowerSaves, StepSets DEF ResumeInv, WrittenOK
<1>14. CASE Ending
  BY <1>1, <1>14, EndingKeeps, StepSets DEF ResumeInv, WrittenOK, PendingWhole, Ending,
     GiveUp, Refused, Abort
<1>15. ASSUME NEW o \in Keys, Providing(o) PROVE ResumeInv'
  BY <1>1, <1>15, ProvidingFrame DEF ResumeInv, WrittenOK
<1>16. CASE Tick \/ UNCHANGED vars
  BY <1>1, <1>16 DEF Tick, disk, local, vars, ResumeInv, WrittenOK
<1> QED
  BY <1>3, <1>4, <1>5, <1>6, <1>7, <1>8, <1>9, <1>10, <1>11, <1>12, <1>13, <1>14, <1>15, <1>16
     DEF Next, RenewRun, ProcessStep, Environment, Following, Ending, Providing

(* Between two runs a request that the record calls pending has its key,    *)
(* CSR and metadata, so that renew can resume it: the files are complete    *)
(* before the request is sent and removed after the last use of them.       *)
THEOREM PendingAlwaysResumable == ASSUME PendingWhole PROVE Spec => []PendingResumable
<1>1. Init => ResumeInv
  <2>1. ASSUME Init PROVE pc = "idle" /\ rec.pending = ""
    BY <2>1 DEF Init, NoRec
  <2> QED
    BY <2>1, TypeInit, StepSets DEF ResumeInv, WrittenOK, Current
<1>2. ResumeInv /\ [Next]_vars => ResumeInv'
  BY ResumableStep
<1>3. ResumeInv => PendingResumable
  BY DEF ResumeInv, PendingResumable, Current
<1> QED
  BY <1>1, <1>2, <1>3, PTL DEF Spec

-----------------------------------------------------------------------------
(* AnsweredInv: record, order, pending/ and live/ agree.                    *)

(* What AnsweredInv says of the record does not depend on the run. *)
LEMMA AgreedKept ==
  ASSUME UNCHANGED <<api, pend, live, served>>, AgreedOK(Current),
         Current'.id = Current.id, Current'.pending = Current.pending,
         Current'.until = Current.until
  PROVE  AgreedOK(Current)'
BY DEF AgreedOK, SettledOK, RequestedOK, FilesOK, Fulfilled, Tracks, Unfinished, KeyOf,
       AllPendingIs, LiveIs

LEMMA OrdersFrame ==
  ASSUME UNCHANGED api, OrdersKept
  PROVE  OrdersKept'
BY DEF OrdersKept, OrderKept, Unfinished

(* While a run follows a request, the record is the one of that request. *)
LEMMA FollowerKnows ==
  ASSUME AnsweredInv, pc \in Holding
  PROVE  /\ mem = rec /\ rec.id \in Keys /\ Current = rec /\ rec.pending = act
         /\ rec.pending \in Actions /\ rec.pending # ""
         /\ key = KeyOf(rec) /\ key # NoKey /\ OrderKept(rec.id)
         /\ act = "reissue" => prev = rec.until /\ api[rec.id].rcsr = key
         /\ act # "reissue" => api[rec.id].rcsr = NoKey /\ key = rec.id
<1>1. /\ mem = rec /\ rec.id \in Keys /\ Current = rec /\ rec.pending = act
      /\ key = KeyOf(rec) /\ key # NoKey
      /\ act = "reissue" => prev = rec.until
  BY Typed, StepSets DEF AnsweredInv, FollowedOK, WorksOn, Current, OptKey
<1>2. act \in Actions /\ "" \notin Actions
  BY DEF AnsweredInv, TypeInv, TypeOK, Actions, OrderActions
<1>3. act # "reissue" => api[rec.id].rcsr = NoKey
  BY <1>1, <1>2 DEF AnsweredInv, AgreedOK, RequestedOK, Actions
<1> QED
  BY <1>1, <1>2, <1>3 DEF KeyOf, AnsweredInv, OrdersKept

(* An order that has the certificate for the key of the request is settled. *)
LEMMA CertifiedSettled ==
  ASSUME AnsweredInv, pc \in Holding, api[rec.id].cert = key
  PROVE  api[rec.id].status \in {"issued", "gone"} /\ ~Unfinished(rec.id)
<1>1. api[rec.id] \in OrderType
  BY FollowerKnows, Typed DEF AnsweredInv
<1>2. api[rec.id].status \in {"issued", "gone"}
  BY <1>1, FollowerKnows DEF OrderKept, OrderType
<1>3. ~Unfinished(rec.id)
  BY FollowerKnows DEF OrderKept, Unfinished
<1> QED
  BY <1>2, <1>3

(* readyForDownload: when the answer of the API lets the run fetch the      *)
(* certificate, it is the one for the key of the request, failed reissues   *)
(* or not.                                                                  *)
LEMMA ReadyCertified ==
  ASSUME AnsweredInv, pc \in Holding, Ready(api[rec.id], act, prev)
  PROVE  api[rec.id].cert = key /\ Fulfilled(rec)
<1>1. api[rec.id] \in OrderType /\ api[rec.id].cert # NoKey /\ api[rec.id].status = "issued"
  BY FollowerKnows, Typed DEF AnsweredInv, Ready
<1>2. CASE act # "reissue"
  BY <1>1, <1>2, FollowerKnows DEF OrderKept, Fulfilled
<1>3. CASE act = "reissue"
  <2>1. prev = rec.until /\ rec.until # NoTime /\ api[rec.id].until # NoTime
        /\ api[rec.id].rcsr = key
    BY <1>1, <1>3, FollowerKnows DEF AnsweredInv, AgreedOK, RequestedOK, OrderKept
  <2>2. Unfinished(rec.id) => api[rec.id].until = rec.until
    BY <1>3, FollowerKnows DEF AnsweredInv, AgreedOK, RequestedOK
  <2>3. api[rec.id].until \in Int
    BY <1>1 DEF OrderType, OptTime, Time, NoTime
  <2>4. ~Unfinished(rec.id)
    BY <1>3, <2>1, <2>2, <2>3 DEF Ready, Unfinished
  <2>5. api[rec.id].reissue = "issued" \/ api[rec.id].until > rec.until
    BY <1>3, <2>1 DEF Ready
  <2> QED
    BY <1>3, <2>1, <2>4, <2>5, FollowerKnows DEF OrderKept, Fulfilled
<1> QED
  BY <1>2, <1>3

(* A torn live/ is that of a request that is fulfilled: the provider asks   *)
(* for no console step and readyForDownload holds of its answer.            *)
LEMMA TornIsReady ==
  ASSUME AnsweredInv, Current = rec, live.key # live.cert.key
  PROVE  /\ rec.pending # "" /\ rec.id \in Keys /\ AllPendingIs(KeyOf(rec))
         /\ live.key = KeyOf(rec) /\ Remote.cert = KeyOf(rec)
         /\ Remote.status \in {"issued", "gone"} /\ ~Remote.action
         /\ ~Gone => Ready(Remote, rec.pending, rec.until)
<1>1. /\ rec.pending # "" /\ rec.id # NoKey /\ AllPendingIs(KeyOf(rec))
      /\ live.key = KeyOf(rec) /\ Fulfilled(rec)
  BY DEF AnsweredInv, AgreedOK, FilesOK, LiveIs
<1>2. rec.id \in Keys /\ rec.pending \in Actions /\ Remote \in OrderType /\ OrderKept(rec.id)
  BY <1>1, Typed DEF AnsweredInv, OrdersKept, OptKey
<1>3. KeyOf(rec) # NoKey
  BY <1>1, <1>2 DEF AnsweredInv, AgreedOK, RequestedOK, KeyOf
<1>4. Remote.cert = KeyOf(rec) /\ Remote.status \in {"issued", "gone"}
  BY <1>1, <1>2, <1>3 DEF Fulfilled, Remote, OrderKept, OrderType
<1>5. ~Unfinished(rec.id)
  <2>1. CASE rec.pending = "reissue"
    BY <1>1, <1>2, <1>3, <2>1 DEF Fulfilled, KeyOf, OrderKept, Unfinished
  <2>2. CASE rec.pending # "reissue"
    BY <1>2, <2>2 DEF AnsweredInv, AgreedOK, RequestedOK, Actions, OrderKept, Unfinished
  <2> QED
    BY <2>1, <2>2
<1>6. ~Remote.action
  BY <1>2, <1>4, <1>5 DEF OrderKept, Remote
<1>7. ~Gone => Ready(Remote, rec.pending, rec.until)
  BY <1>1, <1>3, <1>4, <1>5 DEF Gone, Ready, Remote, Fulfilled, Unfinished
<1> QED
  BY <1>1, <1>2, <1>4, <1>6, <1>7

(* A new run prepares a request. *)
LEMMA AnsweredBegins ==
  ASSUME AnsweredInv, TypeInv', pc = "idle", NEW k \in Keys, Fresh(k), rec.pending = "",
         pc' = "privkey", key' = k, act' = "reissue" => mem' = rec /\ prev' = rec.until,
         UNCHANGED <<api, rec, listed, pend, live, served>>
  PROVE  AnsweredInv'
<1>1. ListedOK' /\ OrdersKept' /\ ServedMatches' /\ RecordTracksLive'
  BY OrdersFrame DEF AnsweredInv, ListedOK, ServedMatches, RecordTracksLive
<1>2. AgreedOK(Current)'
  <2>1. Current' = Current
    BY DEF Current
  <2> QED
    BY <2>1, AgreedKept DEF AnsweredInv
<1>3. PreparedOK'
  BY Typed DEF AnsweredInv, PreparedOK, Fresh, OptKey
<1>4. RecordedOK' /\ FollowedOK'
  BY StepSets DEF RecordedOK, FollowedOK
<1> QED
  BY <1>1, <1>2, <1>3, <1>4 DEF AnsweredInv

(* A record that is about to be saved, with the run at an end. *)
LEMMA AnsweredSaves ==
  ASSUME AnsweredInv, TypeInv', pc # "savelist", pc' = "saverec", after' = "idle",
         AgreedOK(mem)',
         UNCHANGED <<api, rec, listed, pend, live, served>>
  PROVE  AnsweredInv'
<1>1. ListedOK' /\ OrdersKept' /\ ServedMatches' /\ RecordTracksLive'
  BY OrdersFrame DEF AnsweredInv, ListedOK, ServedMatches, RecordTracksLive
<1>2. Current' = mem'
  BY DEF Current
<1>3. AgreedOK(Current)'
  BY <1>2 DEF AgreedOK, SettledOK, RequestedOK, FilesOK, Fulfilled, Tracks, Unfinished,
              KeyOf, AllPendingIs, LiveIs
<1>4. PreparedOK' /\ RecordedOK' /\ FollowedOK'
  BY StepSets DEF PreparedOK, RecordedOK, FollowedOK
<1> QED
  BY <1>1, <1>3, <1>4 DEF AnsweredInv

(* renew saves the record with the end the order has now, and no more. *)
LEMMA AnsweredRenewSaves ==
  ASSUME AnsweredInv, TypeInv',
         (\E force \in ForceFlags : RenewSkip(force)) \/ (RenewResume /\ Remote.action)
  PROVE  AnsweredInv'
<1>1. /\ pc = "idle" /\ pc' = "saverec" /\ after' = "idle" /\ rec.id \in Keys
      /\ mem'.id = rec.id /\ mem'.pending = rec.pending /\ mem'.until = api[rec.id].until
      /\ UNCHANGED <<api, rec, listed, pend, live, served>>
  BY RenewSaves DEF AnsweredInv
<1>2. Current = rec /\ OrderKept(rec.id) /\ AgreedOK(rec) /\ rec.id # NoKey
  <2>1. Current = rec
    BY <1>1 DEF Current
  <2> QED
    BY <1>1, <2>1, KeysAssumption DEF AnsweredInv, OrdersKept
<1>3. SettledOK(mem)'
  BY <1>1, <1>2 DEF AgreedOK, SettledOK, Tracks, Unfinished
<1>4. RequestedOK(mem)'
  BY <1>1, <1>2 DEF AgreedOK, RequestedOK, Unfinished, OrderKept
<1>5. FilesOK(mem)'
  <2>1. rec.pending # "" => live.key = live.cert.key
    BY <1>1, <1>2, TornIsReady DEF RenewSkip, PlanSkip, MustComplete
  <2> QED
    BY <1>1, <1>2, <2>1 DEF AgreedOK, FilesOK, KeyOf, AllPendingIs, LiveIs
<1> QED
  BY <1>1, <1>3, <1>4, <1>5, AnsweredSaves DEF AgreedOK

(* renew resumes: the request is the recorded one, its key is in pending/. *)
LEMMA AnsweredResumes ==
  ASSUME AnsweredInv, TypeInv', RenewResume, ~Remote.action
  PROVE  AnsweredInv'
<1>1. /\ pc = "idle" /\ rec.id \in Keys /\ rec.id # NoKey /\ Current = rec
      /\ pc' = "ensure" /\ mem' = rec
      /\ UNCHANGED <<api, rec, listed, pend, live, served>>
  BY Typed DEF AnsweredInv, RenewResume, Renew, OptKey, Current, env, disk
<1>2. rec.pending # ""
  BY <1>1 DEF AnsweredInv, RenewResume, MustComplete, Remote, Gone, AgreedOK, SettledOK,
              Unfinished
<1>3. act' = rec.pending /\ prev' = rec.until
  BY <1>2 DEF RenewResume, PendingAction
<1>4. key' = KeyOf(rec) /\ AllPendingIs(KeyOf(rec)) /\ KeyOf(rec) # NoKey
  <2>1. PendingLoadable /\ key' = pend["privkey"] /\ "privkey" \in Files
    BY DEF RenewResume, Files
  <2> QED
    BY <1>1, <1>2, <2>1 DEF AnsweredInv, AgreedOK, FilesOK, AllPendingIs, PendingLoadable
<1>5. ListedOK' /\ OrdersKept' /\ ServedMatches' /\ RecordTracksLive'
  BY <1>1, OrdersFrame DEF AnsweredInv, ListedOK, ServedMatches, RecordTracksLive
<1>6. AgreedOK(Current)'
  <2>1. Current' = Current
    BY <1>1 DEF Current
  <2> QED
    BY <1>1, <2>1, AgreedKept DEF AnsweredInv
<1>7. PreparedOK' /\ RecordedOK'
  BY <1>1, StepSets DEF PreparedOK, RecordedOK
<1>8. FollowedOK'
  <2>1. WorksOn(rec)' /\ AllPendingIs(key)'
    BY <1>1, <1>3, <1>4 DEF WorksOn, KeyOf, AllPendingIs
  <2> QED
    BY <1>1, <2>1, StepSets DEF FollowedOK, Deploying
<1> QED
  BY <1>5, <1>6, <1>7, <1>8 DEF AnsweredInv

(* While a request is prepared, the record has none pending. *)
LEMMA PreparingKnows ==
  ASSUME AnsweredInv, pc \in Placing
  PROVE  /\ Current = rec /\ rec.pending = "" /\ AgreedOK(rec)
         /\ key \in Keys /\ api[key].status = "none"
         /\ rec.id # NoKey => rec.id \in Keys /\ api[rec.id].cert # key
BY Typed, StepSets
   DEF AnsweredInv, Current, PreparedOK, TypeInv, TypeOK, IdKnown, OptKey

(* WritePending overwrites only what no request needs any more. *)
LEMMA AnsweredWrites ==
  ASSUME AnsweredInv, TypeInv', WritePending
  PROVE  AnsweredInv'
<1>1. PICK f \in Files, n \in {"csr", "meta", "post"} :
        /\ pc = f /\ pc' = n /\ pend' = [pend EXCEPT ![f] = key]
        /\ <<f, n>> \in {<<"privkey", "csr">>, <<"csr", "meta">>, <<"meta", "post">>}
        /\ UNCHANGED <<api, rec, listed, live, served, mem, act, key, prev>>
  BY DEF WritePending, WritePendingFile, Files, env, local
<1>2. /\ pc \in Placing /\ pc' \in Placing /\ Current' = rec
      /\ Files = {"privkey", "csr", "meta"} /\ pend \in [Files -> OptKey]
  BY <1>1, StepSets DEF Files, Current, AnsweredInv, TypeInv, TypeOK
<1>3. \A g \in Files : pend'[g] = IF g = f THEN key ELSE pend[g]
  BY <1>1, <1>2
<1>4. ListedOK' /\ OrdersKept' /\ ServedMatches' /\ RecordTracksLive'
  BY <1>1, StepSets, OrdersFrame DEF AnsweredInv, ListedOK, ServedMatches, RecordTracksLive
<1>5. AgreedOK(Current)'
  BY <1>1, <1>2, PreparingKnows
     DEF AgreedOK, SettledOK, RequestedOK, FilesOK, Tracks, Unfinished, OrderActions
<1>6. PreparedOK'
  BY <1>1, <1>2, <1>3 DEF AnsweredInv, PreparedOK
<1>7. RecordedOK' /\ FollowedOK'
  BY <1>1, <1>2, StepSets DEF RecordedOK, FollowedOK
<1> QED
  BY <1>4, <1>5, <1>6, <1>7 DEF AnsweredInv

(* The whole of pending/ has the key when the request is sent. *)
LEMMA PostingKnows ==
  ASSUME AnsweredInv, pc = "post"
  PROVE  /\ AllPendingIs(key) /\ live.key = live.cert.key
         /\ act = "reissue" => mem = rec /\ prev = rec.until
<1>1. pc \in Placing
  BY StepSets
<1> QED
  BY <1>1, PreparingKnows
     DEF AnsweredInv, PreparedOK, AllPendingIs, Files, AgreedOK, FilesOK

(* An accepted order is about to be recorded. *)
LEMMA AnsweredPostOrder ==
  ASSUME AnsweredInv, TypeInv', PostOrder
  PROVE  AnsweredInv'
<1>1. /\ pc = "post" /\ pc \in Placing /\ key \in Keys /\ act \in OrderActions
      /\ \A o \in Keys \ {key} : api'[o] = api[o]
      /\ api'[key].status = "pending" /\ api'[key].reissue = "none"
      /\ api'[key].cert = NoKey /\ api'[key].rcsr = NoKey /\ api'[key].until = NoTime
      /\ mem'.id = key /\ mem'.pending = act
      /\ pc' = "saverec"
      /\ UNCHANGED <<rec, listed, pend, live, served, act, key, prev>>
  BY OrderPlaced, StepSets DEF AnsweredInv
<1>2. act # "reissue" /\ act # "" /\ Current' = mem' /\ key # NoKey
  BY <1>1, KeysAssumption DEF OrderActions, Current
<1>3. OrdersKept'
  BY <1>1 DEF AnsweredInv, OrdersKept, OrderKept, Unfinished
<1>4. ListedOK' /\ ServedMatches' /\ RecordTracksLive'
  BY <1>1 DEF AnsweredInv, ListedOK, ServedMatches, RecordTracksLive
<1>5. AllPendingIs(key)' /\ KeyOf(mem)' = key
  BY <1>1, <1>2, PostingKnows DEF AllPendingIs, KeyOf
<1>6. SettledOK(mem)' /\ RequestedOK(mem)'
  BY <1>1, <1>2 DEF SettledOK, RequestedOK
<1>7. FilesOK(mem)'
  BY <1>1, <1>2, <1>5, PostingKnows DEF FilesOK, AllPendingIs
<1>8. AgreedOK(Current)'
  BY <1>2, <1>5, <1>6, <1>7
     DEF AgreedOK, SettledOK, RequestedOK, FilesOK, Fulfilled, Tracks, Unfinished, KeyOf,
         AllPendingIs, LiveIs
<1>9. PreparedOK' /\ FollowedOK'
  BY <1>1, StepSets DEF PreparedOK, FollowedOK
<1>10. RecordedOK'
  BY <1>1, <1>2, <1>5 DEF RecordedOK, WorksOn
<1> QED
  BY <1>3, <1>4, <1>8, <1>9, <1>10 DEF AnsweredInv

(* An accepted reissue is about to be recorded: certificate and end of the  *)
(* validity are still those of the record.                                  *)
LEMMA AnsweredPostReissue ==
  ASSUME AnsweredInv, TypeInv', PostReissue
  PROVE  AnsweredInv'
<1>1. /\ pc = "post" /\ pc \in Placing /\ key \in Keys /\ act = "reissue"
      /\ mem = rec /\ rec.id \in Keys /\ prev = rec.until
  BY ReissuePlaced, PostingKnows, StepSets DEF AnsweredInv
<1>2. /\ \A o \in Keys \ {rec.id} : api'[o] = api[o]
      /\ api[rec.id].status = "issued" /\ api'[rec.id].status = "issued"
      /\ api'[rec.id].reissue = "active" /\ api'[rec.id].rcsr = key
      /\ api'[rec.id].cert = api[rec.id].cert /\ api'[rec.id].until = api[rec.id].until
      /\ mem'.id = rec.id /\ mem'.pending = "reissue" /\ mem'.until = api[rec.id].until
      /\ pc' = "saverec" /\ after' = "ensure"
      /\ UNCHANGED <<rec, listed, pend, live, served, act, key, prev>>
  BY <1>1, ReissuePlaced DEF AnsweredInv
<1>3. /\ Current' = mem' /\ key # NoKey /\ rec.id # NoKey /\ api[rec.id].cert # key
      /\ OrderKept(rec.id) /\ api[rec.id].until = rec.until
  BY <1>1, <1>2, PreparingKnows, KeysAssumption
     DEF Current, AnsweredInv, OrdersKept, AgreedOK, SettledOK, Tracks
<1>4. api'[rec.id].contract = api[rec.id].contract
  BY <1>1 DEF PostReissue, AnsweredInv, TypeInv, TypeOK, OrderType
<1>5. OrdersKept'
  <2> SUFFICES ASSUME NEW o \in Keys PROVE OrderKept(o)'
    BY DEF OrdersKept
  <2>1. CASE o = rec.id
    BY <1>2, <1>3, <1>4, <2>1 DEF OrderKept, Unfinished
  <2>2. CASE o # rec.id
    BY <1>2, <2>2 DEF AnsweredInv, OrdersKept, OrderKept, Unfinished
  <2> QED
    BY <2>1, <2>2
<1>6. ListedOK' /\ ServedMatches' /\ RecordTracksLive'
  BY <1>1, <1>2 DEF AnsweredInv, ListedOK, ServedMatches, RecordTracksLive
<1>7. AllPendingIs(key)' /\ KeyOf(mem)' = key
  BY <1>1, <1>2, PostingKnows DEF AllPendingIs, KeyOf
<1>8. SettledOK(mem)' /\ RequestedOK(mem)'
  BY <1>2, <1>3 DEF SettledOK, RequestedOK, OrderActions, OrderKept
<1>9. FilesOK(mem)'
  BY <1>1, <1>2, <1>3, <1>7, PostingKnows DEF FilesOK, AllPendingIs
<1>10. AgreedOK(Current)'
  BY <1>3, <1>7, <1>8, <1>9
     DEF AgreedOK, SettledOK, RequestedOK, FilesOK, Fulfilled, Tracks, Unfinished, KeyOf,
         AllPendingIs, LiveIs
<1>11. PreparedOK' /\ FollowedOK'
  BY <1>2, StepSets DEF PreparedOK, FollowedOK
<1>12. RecordedOK'
  BY <1>1, <1>2, <1>3, <1>7 DEF RecordedOK, WorksOn
<1> QED
  BY <1>5, <1>6, <1>10, <1>11, <1>12 DEF AnsweredInv

(* persistManaged: the record and state.json are written. *)
LEMMA AnsweredPersists ==
  ASSUME AnsweredInv, TypeInv', SaveRecord \/ SaveList
  PROVE  AnsweredInv'
<1>1. UNCHANGED <<api, pend, live, served>> /\ OrdersKept' /\ ServedMatches'
  BY OrdersFrame DEF AnsweredInv, SaveRecord, SaveList, env, ServedMatches
<1>2. CASE SaveRecord
  <2>1. /\ pc = "saverec" /\ pc' = "savelist" /\ rec' = mem
        /\ UNCHANGED <<listed, after, act, key, prev, mem>>
        /\ Current = mem /\ Current' = mem
    BY <1>2 DEF SaveRecord, local, Current
  <2>2. AgreedOK(Current)'
    BY <1>1, <2>1, AgreedKept DEF AnsweredInv
  <2>3. ListedOK' /\ PreparedOK' /\ FollowedOK'
    BY <2>1, StepSets DEF ListedOK, PreparedOK, FollowedOK
  <2>4. RecordTracksLive'
    BY <1>1, <2>1 DEF AnsweredInv, RecordTracksLive, AgreedOK, SettledOK, Tracks
  <2>5. RecordedOK'
    BY <1>1, <2>1 DEF AnsweredInv, RecordedOK, WorksOn, AllPendingIs, KeyOf
  <2> QED
    BY <1>1, <2>2, <2>3, <2>4, <2>5 DEF AnsweredInv
<1>3. CASE SaveList
  <2>1. /\ pc = "savelist" /\ UNCHANGED rec /\ listed' = TRUE
        /\ mem = rec /\ mem.id # NoKey
        /\ Current = rec /\ Current' = rec
        /\ \/ pc' = "idle"
           \/ pc' = "ensure" /\ after = "ensure" /\ UNCHANGED <<act, key, prev, mem>>
    BY <1>3 DEF SaveList, Exit, local, AnsweredInv, TypeInv, TypeOK, IdKnown,
                RecordedOK, Current
  <2>2. AgreedOK(Current)'
    BY <1>1, <2>1, AgreedKept DEF AnsweredInv
  <2>3. ListedOK' /\ PreparedOK' /\ RecordedOK' /\ RecordTracksLive'
    BY <1>1, <2>1, StepSets
       DEF AnsweredInv, ListedOK, PreparedOK, RecordedOK, RecordTracksLive
  <2>4. FollowedOK'
    <3>1. CASE pc' = "idle"
      BY <3>1, StepSets DEF FollowedOK
    <3>2. CASE pc' = "ensure" /\ after = "ensure" /\ UNCHANGED <<act, key, prev, mem>>
      <4>1. WorksOn(rec) /\ AllPendingIs(key)
        BY <2>1, <3>2 DEF AnsweredInv, RecordedOK
      <4>2. WorksOn(rec)' /\ AllPendingIs(key)'
        BY <1>1, <2>1, <3>2, <4>1 DEF WorksOn, KeyOf, AllPendingIs
      <4> QED
        BY <2>1, <3>2, <4>2, StepSets DEF FollowedOK, Deploying
    <3> QED
      BY <2>1, <3>1, <3>2
  <2> QED
    BY <1>1, <2>2, <2>3, <2>4 DEF AnsweredInv
<1> QED
  BY <1>2, <1>3

(* The record and its agreement with everything stay while a run follows a  *)
(* request without touching the directories.                                *)
LEMMA FollowingFrame ==
  ASSUME AnsweredInv, TypeInv', pc \in Holding, pc' \in Holding,
         UNCHANGED <<api, rec, listed, pend, live, served, mem, act, key, prev>>,
         FollowedOK'
  PROVE  AnsweredInv'
<1>1. ListedOK' /\ OrdersKept' /\ ServedMatches' /\ RecordTracksLive'
  BY StepSets, OrdersFrame DEF AnsweredInv, ListedOK, ServedMatches, RecordTracksLive
<1>2. Current' = Current
  BY StepSets DEF Current
<1>3. AgreedOK(Current)'
  BY <1>2, AgreedKept DEF AnsweredInv
<1>4. PreparedOK' /\ RecordedOK'
  BY StepSets DEF PreparedOK, RecordedOK
<1> QED
  BY <1>1, <1>3, <1>4 DEF AnsweredInv

(* The wait loop and the download. *)
LEMMA AnsweredLoops ==
  ASSUME AnsweredInv, TypeInv',
         Provision \/ PollOrder \/ StartDownload \/ PollAgain \/ Download \/ DownloadConflict
  PROVE  AnsweredInv'
<1>1. /\ pc \in Holding /\ pc' \in Holding /\ pc # "clear"
      /\ UNCHANGED <<api, rec, listed, pend, live, served, mem, act, key, prev>>
  BY StepSets DEF Provision, PollOrder, StartDownload, PollAgain, Download,
                  DownloadConflict, env, disk, local
<1>2. /\ mem = rec /\ rec.id # NoKey /\ WorksOn(rec) /\ AllPendingIs(key)
      /\ WorksOn(rec)' /\ AllPendingIs(key)' /\ Fulfilled(rec)' = Fulfilled(rec)
  <2>1. mem = rec /\ rec.id # NoKey /\ WorksOn(rec) /\ AllPendingIs(key)
    BY <1>1 DEF AnsweredInv, FollowedOK
  <2> QED
    BY <1>1, <2>1 DEF WorksOn, KeyOf, AllPendingIs, Fulfilled
<1>3. CASE Provision \/ PollAgain \/ DownloadConflict
  <2>1. /\ UNCHANGED snap
        /\ pc' = "get" \/ (pc' = "check" /\ pc = "dcv")
    BY <1>3 DEF Provision, PollAgain, DownloadConflict, local
  <2>2. FollowedOK'
    BY <1>1, <1>2, <2>1, StepSets
       DEF AnsweredInv, FollowedOK, Ready, Certified, Unfinished, Deploying
  <2> QED
    BY <1>1, <2>2, FollowingFrame
<1>4. CASE PollOrder
  <2>1. pc' = "dcv" /\ snap' = api[rec.id] /\ ~Gone
    BY <1>2, <1>4 DEF PollOrder, Gone, Remote
  <2>2. Ready(snap', act, prev) => api[rec.id].cert = key /\ Fulfilled(rec)
    BY <1>1, <2>1, ReadyCertified
  <2>3. act = "reissue" => api[rec.id].until # NoTime
    BY <1>1, FollowerKnows DEF AnsweredInv, AgreedOK, RequestedOK, OrderKept
  <2>4. live.key # live.cert.key => Ready(snap', act, prev) /\ ~snap'.action
    BY <1>1, <2>1, FollowerKnows, TornIsReady DEF Ready, Remote
  <2>5. FollowedOK'
    BY <1>1, <1>2, <2>1, <2>2, <2>3, <2>4, StepSets
       DEF FollowedOK, Ready, Certified, Unfinished, Deploying
  <2> QED
    BY <1>1, <2>5, FollowingFrame
<1>5. CASE StartDownload
  <2>1. pc = "check" /\ pc' = "download" /\ UNCHANGED snap /\ Ready(snap, act, prev)
    BY <1>5 DEF StartDownload, local
  <2>2. Certified /\ Fulfilled(rec) /\ api[rec.id].status \in {"issued", "gone"}
    BY <1>1, <2>1, CertifiedSettled DEF AnsweredInv, FollowedOK, Certified
  <2>3. FollowedOK'
    BY <1>1, <1>2, <2>1, <2>2, StepSets DEF FollowedOK, Certified, Deploying
  <2> QED
    BY <1>1, <2>3, FollowingFrame
<1>6. CASE Download
  <2>1. /\ pc = "download" /\ pc' = "livekey" /\ UNCHANGED snap
        /\ got' = [key |-> api[rec.id].cert, until |-> api[rec.id].until]
    BY <1>2, <1>6 DEF Download
  <2>2. Certified /\ Fulfilled(rec) /\ api[rec.id].status \in {"issued", "gone"}
    BY <1>1, <2>1 DEF AnsweredInv, FollowedOK
  <2>3. FollowedOK'
    BY <1>1, <1>2, <2>1, <2>2, StepSets DEF FollowedOK, Certified, Deploying
  <2> QED
    BY <1>1, <2>3, FollowingFrame
<1> QED
  BY <1>3, <1>4, <1>5, <1>6

(* WriteArtifacts and postDeploy: live/ gets the key first, then the        *)
(* certificate of it, and the webserver loads both.                         *)
LEMMA AnsweredDeploys ==
  ASSUME AnsweredInv, TypeInv', WriteLiveKey \/ WriteLiveCert \/ Reload
  PROVE  AnsweredInv'
<1>1. /\ pc \in {"livekey", "livecert", "reload"} /\ pc \in Holding /\ pc' \in Holding
      /\ UNCHANGED <<api, rec, listed, pend, mem, act, key, prev, snap, got>>
  BY StepSets DEF WriteLiveKey, WriteLiveCert, Reload, env, local
<1>2. /\ mem = rec /\ rec.id # NoKey /\ WorksOn(rec) /\ AllPendingIs(key)
      /\ Certified /\ Fulfilled(rec) /\ api[rec.id].status \in {"issued", "gone"}
      /\ WorksOn(rec)' /\ AllPendingIs(key)' /\ Certified' /\ Fulfilled(rec)'
  <2>1. /\ mem = rec /\ rec.id # NoKey /\ WorksOn(rec) /\ AllPendingIs(key)
        /\ Certified /\ Fulfilled(rec) /\ api[rec.id].status \in {"issued", "gone"}
    BY <1>1, StepSets DEF AnsweredInv, FollowedOK, Deploying
  <2> QED
    BY <1>1, <2>1 DEF WorksOn, KeyOf, AllPendingIs, Certified, Fulfilled
<1>3. Current = rec /\ Current' = rec
  BY <1>1, StepSets DEF Current
<1>4. live \in LiveType /\ live'.key = key /\ live'.key \in {live'.cert.key, key}
  <2>1. live \in LiveType
    BY DEF AnsweredInv, TypeInv, TypeOK
  <2>2. pc \in {"livecert", "reload"} => live.key = key
    BY <1>1, StepSets DEF AnsweredInv, FollowedOK
  <2> QED
    BY <1>1, <2>1, <2>2 DEF WriteLiveKey, WriteLiveCert, Reload, LiveType
<1>5. pc' \in {"reload", "clear"} => live'.cert = [key |-> key, until |-> api[rec.id].until]
  BY <1>1, <1>4, StepSets DEF AnsweredInv, FollowedOK, WriteLiveKey, WriteLiveCert, Reload,
                              LiveType
<1>6. AgreedOK(Current)'
  <2>1. rec.pending # "" /\ KeyOf(rec)' = key
    BY <1>1, <1>2, FollowerKnows DEF WorksOn, KeyOf
  <2>2. SettledOK(rec)' /\ RequestedOK(rec)'
    BY <1>1, <1>3, <2>1 DEF AnsweredInv, AgreedOK, SettledOK, RequestedOK, Unfinished
  <2>3. FilesOK(rec)'
    BY <1>1, <1>2, <1>3, <1>4, <2>1 DEF AnsweredInv, AgreedOK, FilesOK, AllPendingIs
  <2> QED
    BY <1>1, <1>3, <2>2, <2>3
       DEF AgreedOK, SettledOK, RequestedOK, FilesOK, Fulfilled, Tracks, Unfinished, KeyOf,
           AllPendingIs, LiveIs
<1>7. FollowedOK'
  <2>1. /\ <<pc, pc'>> \in {<<"livekey", "livecert">>, <<"livecert", "reload">>,
                          <<"reload", "clear">>}
        /\ pc' = "clear" => served' = live'
        /\ pc' = "clear" => \A f \in Files : pend[f] \in {key, NoKey}
    BY <1>2 DEF WriteLiveKey, WriteLiveCert, Reload, AllPendingIs
  <2>2. pc' = "livecert" => got = [key |-> key, until |-> api[rec.id].until]
    BY <1>1, <2>1, StepSets DEF AnsweredInv, FollowedOK
  <2> QED
    BY <1>1, <1>2, <1>4, <1>5, <2>1, <2>2, StepSets DEF FollowedOK
<1>8. ServedMatches'
  <2>1. CASE Reload
    <3>1. live.key = key /\ live.cert.key = key /\ served' = live
      BY <2>1, StepSets DEF Reload, AnsweredInv, FollowedOK
    <3> QED
      BY <3>1 DEF ServedMatches
  <2>2. CASE WriteLiveKey \/ WriteLiveCert
    BY <2>2 DEF WriteLiveKey, WriteLiveCert, AnsweredInv, ServedMatches
  <2> QED
    BY <2>1, <2>2
<1>9. ListedOK' /\ OrdersKept' /\ PreparedOK' /\ RecordedOK'
  BY <1>1, StepSets, OrdersFrame DEF AnsweredInv, ListedOK, PreparedOK, RecordedOK
<1>10. RecordTracksLive'
  BY <1>1, <1>2, FollowerKnows DEF RecordTracksLive
<1> QED
  BY <1>6, <1>7, <1>8, <1>9, <1>10 DEF AnsweredInv

(* ClearPending: what is removed is no longer needed. *)
LEMMA AnsweredClears ==
  ASSUME AnsweredInv, TypeInv', NEW f \in Files, ClearFile(f)
  PROVE  AnsweredInv'
<1>1. /\ pc = "clear" /\ pc' = "clear" /\ pc \in Holding
      /\ pend' = [pend EXCEPT ![f] = NoKey]
      /\ UNCHANGED <<api, rec, listed, live, served, mem, act, key, prev, snap, got>>
  BY StepSets DEF ClearFile, env, local
<1>2. \A g \in Files : pend'[g] \in {key, NoKey}
  <2>1. pend \in [Files -> OptKey] /\ \A g \in Files : pend[g] \in {key, NoKey}
    BY <1>1, StepSets DEF AnsweredInv, TypeInv, TypeOK, FollowedOK
  <2> QED
    BY <1>1, <2>1
<1>3. LiveIs(key) /\ KeyOf(rec) = key /\ rec.pending # "" /\ Current = rec /\ Current' = rec
  <2>1. live.key = key /\ live.cert.key = key /\ served = live
    BY <1>1, StepSets DEF AnsweredInv, FollowedOK
  <2> QED
    BY <1>1, <2>1, FollowerKnows DEF LiveIs, Current
<1>4. AgreedOK(Current)'
  BY <1>1, <1>2, <1>3
     DEF AnsweredInv, AgreedOK, SettledOK, RequestedOK, FilesOK, Unfinished, KeyOf, LiveIs
<1>5. FollowedOK'
  BY <1>1, <1>2, StepSets
     DEF AnsweredInv, FollowedOK, WorksOn, KeyOf, Certified, Fulfilled, Deploying
<1>6. ListedOK' /\ OrdersKept' /\ PreparedOK' /\ RecordedOK' /\ ServedMatches'
      /\ RecordTracksLive'
  BY <1>1, StepSets, OrdersFrame
     DEF AnsweredInv, ListedOK, PreparedOK, RecordedOK, ServedMatches, RecordTracksLive
<1> QED
  BY <1>4, <1>5, <1>6 DEF AnsweredInv

(* A pausing run saves the end of validity it has seen, one that is through *)
(* that of the certificate it has deployed.                                 *)
LEMMA AnsweredEndsWell ==
  ASSUME AnsweredInv, TypeInv', Pause \/ FinishDeployment
  PROVE  AnsweredInv'
<1>1. /\ pc' = "saverec" /\ after' = "idle" /\ mem'.id = mem.id /\ mem'.until = snap.until
      /\ UNCHANGED <<api, rec, listed, pend, live, served>>
      /\ Pause => pc = "check" /\ mem'.pending = mem.pending
      /\ ~Pause => pc = "clear" /\ mem'.pending = ""
  BY FollowerSaves DEF AnsweredInv
<1>2. pc \in Holding /\ pc # "savelist"
  BY <1>1, StepSets
<1>3. mem = rec /\ Current = rec /\ rec.id \in Keys
  BY <1>2, FollowerKnows
<1>4. CASE Pause
  <2>1. SettledOK(mem)'
    BY <1>1, <1>2, <1>3, <1>4, FollowerKnows DEF SettledOK
  <2>2. RequestedOK(mem)'
    BY <1>1, <1>2, <1>3, <1>4, FollowerKnows, StepSets
       DEF AnsweredInv, AgreedOK, RequestedOK, FollowedOK, Unfinished
  <2>3. live.key = live.cert.key
    BY <1>1, <1>2, <1>4, StepSets DEF AnsweredInv, FollowedOK, Pause, PauseAt
  <2>4. FilesOK(mem)'
    BY <1>1, <1>3, <1>4, <2>3 DEF AnsweredInv, AgreedOK, FilesOK, KeyOf, AllPendingIs, LiveIs
  <2> QED
    BY <1>1, <1>2, <2>1, <2>2, <2>4, AnsweredSaves DEF AgreedOK
<1>5. CASE ~Pause
  <2>1. /\ mem'.id = rec.id /\ mem'.pending = "" /\ mem'.until = snap.until /\ pc = "clear"
        /\ UNCHANGED <<api, rec, listed, pend, live, served>>
    BY <1>1, <1>3, <1>5
  <2>2. /\ api[rec.id].cert = key /\ snap.until = api[rec.id].until /\ live.key = key
        /\ live.cert = [key |-> key, until |-> api[rec.id].until]
    BY <2>1, StepSets DEF AnsweredInv, FollowedOK, Certified, Deploying
  <2>3. api[rec.id].status \in {"issued", "gone"} /\ ~Unfinished(rec.id)
    BY <1>2, <2>2, CertifiedSettled
  <2>4. live.cert.key = key /\ live.cert.until = api[rec.id].until
    BY <2>2
  <2>5. Tracks(mem)' /\ live'.key = live'.cert.key
    BY <2>1, <2>2, <2>4 DEF Tracks
  <2>6. SettledOK(mem)'
    BY <2>1, <2>3, <2>5 DEF SettledOK, Unfinished
  <2>7. RequestedOK(mem)' /\ FilesOK(mem)'
    BY <2>1, <2>5 DEF RequestedOK, FilesOK, OrderActions
  <2> QED
    BY <1>1, <1>2, <2>6, <2>7, AnsweredSaves DEF AgreedOK
<1> QED
  BY <1>4, <1>5

(* A run that ends otherwise, where every answer is recorded. *)
LEMMA AnsweredEnds ==
  ASSUME AnsweredInv, TypeInv', AnswersRecorded, Ending
  PROVE  AnsweredInv'
<1>1. /\ pc' = "idle" /\ pc \notin {"saverec", "savelist"}
      /\ UNCHANGED <<api, rec, listed, pend, live, served>>
  BY EndingKeeps, StepSets DEF AnswersRecorded
<1>2. Current' = Current
  BY <1>1 DEF Current
<1>3. AgreedOK(Current)'
  BY <1>1, <1>2, AgreedKept DEF AnsweredInv
<1>4. ListedOK' /\ OrdersKept' /\ ServedMatches' /\ RecordTracksLive'
  BY <1>1, OrdersFrame DEF AnsweredInv, ListedOK, ServedMatches, RecordTracksLive
<1>5. PreparedOK' /\ RecordedOK' /\ FollowedOK'
  BY <1>1, StepSets DEF PreparedOK, RecordedOK, FollowedOK
<1> QED
  BY <1>3, <1>4, <1>5 DEF AnsweredInv

(* What a step of the provider may do to an order: only an open one, or one *)
(* with an unfinished reissue, changes its certificate and its end.         *)
Proceeds(o) ==
  /\ api'[o].rcsr = api[o].rcsr
  /\ api'[o].status = "none" <=> api[o].status = "none"
  /\ api[o].status \in {"issued", "gone"} => api'[o].status \in {"issued", "gone"}
  /\ ~Unfinished(o) => ~Unfinished(o)'
  /\ Unfinished(o)' => api'[o].until = api[o].until
  /\ \/ /\ api'[o].cert = api[o].cert /\ api'[o].until = api[o].until
        /\ api'[o].reissue = api[o].reissue
     \/ api[o].status = "pending" \/ Unfinished(o)
  /\ OrderKept(o)'

(* Every step of the provider is such a step, a failed reissue included. *)
LEMMA ProviderProceeds ==
  ASSUME AnsweredInv, NEW o \in Keys, Providing(o)
  PROVE  \A p \in Keys : Proceeds(p)
<1>1. ASSUME NEW c, ApiStep(o, c) PROVE \A p \in Keys : api'[p] = IF p = o THEN c ELSE api[p]
  BY <1>1 DEF ApiStep, AnsweredInv, TypeInv, TypeOK
<1>2. SUFFICES ASSUME NEW p \in Keys PROVE Proceeds(p)
  OBVIOUS
<1>3. OrderKept(p) /\ OrderKept(o) /\ api[o] \in OrderType
  BY DEF AnsweredInv, OrdersKept, TypeInv, TypeOK
<1> USE DEF Unfinished
<1>4. CASE ApiExposeToken(o)
  <2>1. api'[p] = IF p = o THEN [api[o] EXCEPT !.token = WantedToken(o)] ELSE api[p]
    BY <1>1, <1>4 DEF ApiExposeToken
  <2>2. api[o].status # "none"
    BY <1>4 DEF ApiExposeToken, Open
  <2> QED
    BY <1>3, <2>1, <2>2 DEF Proceeds, OrderKept, OrderType
<1>5. CASE ApiRequireAction(o)
  <2>1. api'[p] = IF p = o THEN [api[o] EXCEPT !.action = TRUE] ELSE api[p]
    BY <1>1, <1>5 DEF ApiRequireAction
  <2>2. /\ api[o].status # "none"
        /\ api[o].status \in {"issued", "gone"} => api[o].reissue = "active"
    BY <1>5 DEF ApiRequireAction, Open
  <2> QED
    BY <1>3, <2>1, <2>2 DEF Proceeds, OrderKept, OrderType
<1>6. CASE ApiComplete(o)
  <2>1. api'[p] = IF p = o THEN [api[o] EXCEPT !.action = FALSE, !.token = WantedToken(o)]
                           ELSE api[p]
    BY <1>1, <1>6 DEF ApiComplete
  <2>2. api[o].status # "none"
    BY <1>3, <1>6 DEF ApiComplete, OrderKept, NoOrder
  <2> QED
    BY <1>3, <2>1, <2>2 DEF Proceeds, OrderKept, OrderType
<1>7. CASE ApiIssue(o)
  <2>1. api'[p] = IF p = o
                    THEN [api[o] EXCEPT !.status = "issued", !.cert = o,
                            !.until = now + Life, !.contract = now + ContractLife]
                    ELSE api[p]
    BY <1>1, <1>7 DEF ApiIssue
  <2>2. /\ api[o].status = "pending" /\ api[o].rcsr = NoKey /\ api[o].reissue = "none"
        /\ ~api[o].action
    BY <1>3, <1>7 DEF ApiIssue, Validated, OrderKept
  <2>3. now + Life # NoTime /\ now + ContractLife # NoTime /\ o # NoKey
    BY TimesAssumption, KeysAssumption DEF AnsweredInv, TypeInv, TypeOK, NoTime
  <2> QED
    BY <1>3, <2>1, <2>2, <2>3 DEF Proceeds, OrderKept, OrderType
<1>8. CASE ApiReject(o)
  <2>1. api'[p] = IF p = o THEN [api[o] EXCEPT !.status = "rejected"] ELSE api[p]
    BY <1>1, <1>8 DEF ApiReject
  <2>2. api[o].status = "pending"
    BY <1>8 DEF ApiReject
  <2> QED
    BY <1>3, <2>1, <2>2 DEF Proceeds, OrderKept, OrderType
<1>9. CASE ApiReissueDone(o)
  <2>1. PICK r \in {"issued", "none"} :
          api'[p] = IF p = o
                      THEN [api[o] EXCEPT !.reissue = r, !.cert = api[o].rcsr,
                              !.until = Earlier(now + Life, api[o].contract)]
                      ELSE api[p]
    BY <1>1, <1>9 DEF ApiReissueDone
  <2>2. api[o].status = "issued" /\ api[o].reissue = "active" /\ ~api[o].action
    BY <1>9 DEF ApiReissueDone, Validated, Open
  <2>3. api[o].rcsr # NoKey
    BY <1>3, <2>2 DEF OrderKept
  <2>4. Earlier(now + Life, api[o].contract) # NoTime
    BY <1>3, <2>2, TimesAssumption
       DEF AnsweredInv, TypeInv, TypeOK, NoTime, OrderKept, Earlier
  <2> QED
    BY <1>3, <2>1, <2>2, <2>3, <2>4 DEF Proceeds, OrderKept, OrderType
<1>10. CASE ApiReissueFail(o)
  <2>1. api'[p] = IF p = o THEN [api[o] EXCEPT !.reissue = "failed", !.action = FALSE]
                           ELSE api[p]
    BY <1>1, <1>10 DEF ApiReissueFail
  <2>2. api[o].status = "issued" /\ api[o].reissue = "active"
    BY <1>10 DEF ApiReissueFail
  <2> QED
    BY <1>3, <2>1, <2>2 DEF Proceeds, OrderKept, OrderType
<1>11. CASE ApiPurge(o)
  <2>1. api'[p] = IF p = o THEN [api[o] EXCEPT !.status = "gone"] ELSE api[p]
    BY <1>1, <1>11 DEF ApiPurge
  <2>2. api[o].status = "issued"
    BY <1>11 DEF ApiPurge
  <2> QED
    BY <1>3, <2>1, <2>2 DEF Proceeds, OrderKept, OrderType
<1> QED
  BY <1>4, <1>5, <1>6, <1>7, <1>8, <1>9, <1>10, <1>11 DEF Providing, ApiProgress

(* The provider moves on while a run is where it is. *)
LEMMA AnsweredProvided ==
  ASSUME AnsweredInv, TypeInv', \A p \in Keys : Proceeds(p),
         UNCHANGED <<pc, rec, listed, pend, live, served, after, act, key, prev,
                     mem, snap, got>>
  PROVE  AnsweredInv'
<1>1. OrdersKept' /\ ListedOK' /\ ServedMatches' /\ RecordTracksLive'
  BY DEF Proceeds, OrdersKept, AnsweredInv, ListedOK, ServedMatches, RecordTracksLive
<1>2. Current' = Current /\ (Current.id # NoKey => Current.id \in Keys)
      /\ Current.pending \in Actions \cup {""} /\ AgreedOK(Current)
  BY Typed DEF Current, OptKey, AnsweredInv
<1>3. Current.pending # "" => Current.id \in Keys
  BY <1>2 DEF AgreedOK, FilesOK
<1>4. AgreedOK(Current)'
  <2> DEFINE r == Current
  <2>1. r' = r /\ (r.id # NoKey => r.id \in Keys) /\ (r.pending # "" => r.id \in Keys)
        /\ AgreedOK(r)
    BY <1>2, <1>3
  <2>2. "" \notin OrderActions /\ "reissue" \notin OrderActions
    BY DEF OrderActions
  <2> HIDE DEF r
  <2>3. KeyOf(r)' = KeyOf(r)
    BY <2>1 DEF KeyOf, Proceeds
  <2>4. SettledOK(r)'
    BY <2>1 DEF AgreedOK, SettledOK, Tracks, Proceeds
  <2>5. RequestedOK(r)'
    BY <2>1, <2>2 DEF AgreedOK, RequestedOK, Proceeds
  <2>6. ASSUME r.pending # "", Fulfilled(r) PROVE Fulfilled(r)'
    <3>1. r.id \in Keys /\ r.id # NoKey /\ OrderKept(r.id) /\ Proceeds(r.id)
      BY <2>1, <2>6, KeysAssumption DEF AnsweredInv, OrdersKept
    <3>2. /\ r.pending = "reissue" => api[r.id].rcsr # NoKey
          /\ r.pending # "reissue" => api[r.id].rcsr = NoKey
      BY <1>2, <2>1, <2>6 DEF AgreedOK, RequestedOK, Actions, r
    <3>3. KeyOf(r) # NoKey /\ api[r.id].cert = KeyOf(r)
      BY <2>6, <3>1, <3>2 DEF KeyOf, Fulfilled
    <3>4. api[r.id].status # "pending" /\ ~Unfinished(r.id)
      BY <3>1, <3>2, <3>3 DEF OrderKept, KeyOf, Unfinished
    <3>5. /\ api'[r.id].cert = api[r.id].cert /\ api'[r.id].until = api[r.id].until
          /\ api'[r.id].reissue = api[r.id].reissue
      BY <3>1, <3>4 DEF Proceeds
    <3> QED
      BY <2>1, <2>3, <2>6, <3>5 DEF Fulfilled
  <2>7. FilesOK(r)'
    <3>1. FilesOK(r) /\ (r.pending # "" /\ Fulfilled(r) => Fulfilled(r)')
      BY <2>1, <2>6 DEF AgreedOK
    <3> QED
      BY <2>1, <2>3, <3>1 DEF FilesOK, AllPendingIs, LiveIs
  <2> QED
    BY <2>4, <2>5, <2>7 DEF AgreedOK, r
<1>5. RecordedOK'
  <2> SUFFICES ASSUME pc \in {"saverec", "savelist"}, after = "ensure"
               PROVE  WorksOn(mem)' /\ AllPendingIs(key)'
    BY DEF AnsweredInv, RecordedOK
  <2>1. WorksOn(mem) /\ AllPendingIs(key) /\ mem.id \in Keys
    BY Typed DEF AnsweredInv, RecordedOK, TypeInv, IdKnown, OptKey
  <2>2. KeyOf(mem)' = KeyOf(mem)
    BY <2>1 DEF KeyOf, Proceeds
  <2> QED
    BY <2>1, <2>2 DEF WorksOn, AllPendingIs
<1>6. PreparedOK'
  <2> SUFFICES ASSUME pc \in Placing PROVE PreparedOK'
    BY DEF PreparedOK
  <2>1. api'[key].status = "none"
    BY PreparingKnows DEF Proceeds
  <2>2. rec.id # NoKey => api'[rec.id].cert # key
    BY PreparingKnows DEF AgreedOK, SettledOK, Proceeds
  <2> QED
    BY <2>1, <2>2 DEF AnsweredInv, PreparedOK
<1>7. FollowedOK'
  <2> SUFFICES ASSUME pc \in Holding PROVE FollowedOK'
    BY DEF FollowedOK
  <2>1. rec.id \in Keys /\ KeyOf(rec)' = KeyOf(rec)
    BY FollowerKnows DEF KeyOf, Proceeds
  <2>2. WorksOn(rec)' /\ (pc # "clear" => AllPendingIs(key)')
    BY <2>1 DEF AnsweredInv, FollowedOK, WorksOn, AllPendingIs
  <2>3. ASSUME api[rec.id].cert = key
        PROVE  /\ api'[rec.id].cert = key /\ api'[rec.id].until = api[rec.id].until
               /\ api'[rec.id].status \in {"issued", "gone"}
               /\ api'[rec.id].reissue = api[rec.id].reissue
    BY <2>1, <2>3, CertifiedSettled DEF Proceeds
  <2>4. Unfinished(rec.id)' => api'[rec.id].until = api[rec.id].until /\ Unfinished(rec.id)
    BY <2>1 DEF Proceeds
  <2>5. Certified => Certified' /\ (Fulfilled(rec) => Fulfilled(rec)')
    BY <2>1, <2>3 DEF Certified, Fulfilled
  <2>6. pc \in {"dcv", "check"} =>
          /\ Ready(snap, act, prev)' => Certified' /\ Fulfilled(rec)'
          /\ live'.key # live'.cert.key => Ready(snap, act, prev)' /\ ~snap'.action
          /\ act = "reissue" =>
               /\ snap.until # NoTime
               /\ Unfinished(rec.id)' => snap.until = api'[rec.id].until
    BY <2>4, <2>5 DEF AnsweredInv, FollowedOK, Ready
  <2>7. pc \in {"download"} \cup Deploying =>
          /\ Certified' /\ Fulfilled(rec)' /\ api'[rec.id].status \in {"issued", "gone"}
          /\ api'[rec.id].until = api[rec.id].until
    BY <2>3, <2>5 DEF AnsweredInv, FollowedOK, Certified
  <2>8. /\ mem' = rec' /\ rec'.id # NoKey
        /\ pc \in {"livekey", "livecert"} => got' = [key |-> key', until |-> api'[rec'.id].until]
        /\ pc \in {"livecert", "reload", "clear"} => live'.key = key'
        /\ pc \in {"reload", "clear"} =>
             live'.cert = [key |-> key', until |-> api'[rec'.id].until]
        /\ pc = "clear" => served' = live' /\ \A f \in Files : pend'[f] \in {key', NoKey}
    BY <2>7 DEF AnsweredInv, FollowedOK, Deploying
  <2> QED
    BY <2>2, <2>6, <2>7, <2>8 DEF FollowedOK
<1> QED
  BY <1>1, <1>4, <1>5, <1>6, <1>7 DEF AnsweredInv

(* The clock moves, or nothing does. *)
LEMMA AnsweredStutters ==
  ASSUME AnsweredInv, TypeInv', Tick \/ UNCHANGED vars
  PROVE  AnsweredInv'
<1>1. UNCHANGED <<api, pc, rec, listed, pend, live, served, after, act, key, prev,
                  mem, snap, got>>
  BY DEF Tick, disk, local, vars
<1>2. \A p \in Keys : Proceeds(p)
  BY <1>1 DEF AnsweredInv, OrdersKept, Proceeds, OrderKept, Unfinished
<1> QED
  BY <1>1, <1>2, AnsweredProvided

(* AnsweredInv is inductive when every answer is recorded. *)
LEMMA AnsweredStep == AnswersRecorded /\ AnsweredInv /\ [Next]_vars => AnsweredInv'
<1> SUFFICES ASSUME AnswersRecorded, AnsweredInv, [Next]_vars
             PROVE  AnsweredInv'
  OBVIOUS
<1>1. TypeInv /\ TypeInv'
  BY TypeStep DEF AnsweredInv
<1>2. ASSUME NEW k \in Keys, Issue(k) PROVE AnsweredInv'
  <2>1. /\ pc = "idle" /\ rec.id = NoKey /\ Fresh(k) /\ pc' = "privkey" /\ key' = k
        /\ act' = "issue" /\ UNCHANGED <<api, rec, listed, pend, live, served>>
    BY <1>2 DEF AnsweredInv, ListedOK, Issue, Begin, env, disk
  <2>2. rec.pending = ""
    BY <2>1 DEF AnsweredInv, AgreedOK, FilesOK, Current
  <2> QED
    BY <1>1, <2>1, <2>2, AnsweredBegins
<1>3. ASSUME NEW force \in ForceFlags, NEW k \in Keys,
             RenewReissue(k, force) \/ RenewOrder(k, force) \/ RenewNewOrder(k, force)
      PROVE  AnsweredInv'
  <2>1. /\ pc = "idle" /\ rec.id \in Keys /\ rec.pending = "" /\ Fresh(k)
        /\ pc' = "privkey" /\ key' = k /\ mem' = rec
        /\ act' = "reissue" => prev' = Remote.until
        /\ UNCHANGED <<api, rec, listed, pend, live, served>>
    BY <1>1, <1>3, RenewBegins
  <2>2. Remote.until = rec.until
    BY <2>1, KeysAssumption DEF AnsweredInv, AgreedOK, SettledOK, Tracks, Current, Remote
  <2> QED
    BY <1>1, <2>1, <2>2, AnsweredBegins
<1>4. CASE (\E force \in ForceFlags : RenewSkip(force)) \/ (RenewResume /\ Remote.action)
  BY <1>1, <1>4, AnsweredRenewSaves
<1>5. CASE RenewResume /\ ~Remote.action
  BY <1>1, <1>5, AnsweredResumes
<1>6. CASE ProcessStep
  <2>1. CASE WritePending \/ PostOrder \/ PostReissue \/ SaveRecord \/ SaveList
    BY <1>1, <2>1, AnsweredWrites, AnsweredPostOrder, AnsweredPostReissue, AnsweredPersists
  <2>2. CASE Provision \/ PollOrder \/ StartDownload \/ PollAgain \/ Download
               \/ DownloadConflict
    BY <1>1, <2>2, AnsweredLoops
  <2>3. CASE WriteLiveKey \/ WriteLiveCert \/ Reload \/ (\E f \in Files : ClearFile(f))
    BY <1>1, <2>3, AnsweredDeploys, AnsweredClears
  <2>4. CASE Pause \/ FinishDeployment
    BY <1>1, <2>4, AnsweredEndsWell
  <2>5. CASE GiveUp \/ Refused
    BY <1>1, <2>5, AnsweredEnds DEF Ending
  <2> QED
    BY <1>6, <2>1, <2>2, <2>3, <2>4, <2>5 DEF ProcessStep
<1>7. CASE Abort
  BY <1>1, <1>7, AnsweredEnds DEF Ending
<1>8. ASSUME NEW o \in Keys, Providing(o) PROVE AnsweredInv'
  BY <1>1, <1>8, ProviderProceeds, ProvidingFrame, AnsweredProvided
<1>9. CASE Tick \/ UNCHANGED vars
  BY <1>1, <1>9, AnsweredStutters
<1> QED
  BY <1>2, <1>3, <1>4, <1>5, <1>6, <1>7, <1>8, <1>9
     DEF Next, RenewRun, Environment, Providing

(* It holds at the start. *)
LEMMA AnsweredInit == Init => AnsweredInv
<1> SUFFICES ASSUME Init PROVE AnsweredInv
  OBVIOUS
<1>1. /\ pc = "idle" /\ rec.id = NoKey /\ rec.pending = ""
      /\ \A o \in Keys : api[o] = NoOrder
      /\ live.key = live.cert.key /\ served = live
  BY DEF Init, NoRec, NoCert
<1>2. OrdersKept
  <2> SUFFICES ASSUME NEW o \in Keys PROVE OrderKept(o)
    BY DEF OrdersKept
  <2>1. api[o] = NoOrder
    BY <1>1
  <2>2. /\ api[o].status = "none" /\ api[o].reissue = "none"
        /\ api[o].cert = NoKey /\ api[o].rcsr = NoKey /\ api[o].until = NoTime
    BY <2>1 DEF NoOrder
  <2> QED
    BY <2>1, <2>2 DEF OrderKept
<1>3. ListedOK /\ ServedMatches /\ RecordTracksLive
  BY <1>1 DEF ListedOK, ServedMatches, RecordTracksLive
<1>4. AgreedOK(Current)
  BY <1>1 DEF Current, AgreedOK, SettledOK, RequestedOK, FilesOK, OrderActions
<1>5. PreparedOK /\ RecordedOK /\ FollowedOK
  BY <1>1, StepSets DEF PreparedOK, RecordedOK, FollowedOK
<1> QED
  BY <1>2, <1>3, <1>4, <1>5, TypeInit DEF AnsweredInv

(* As long as no run ends between the answer to a request and the save of   *)
(* the record, record, provider and directories agree at every step.        *)
THEOREM AnsweredInvHolds == ASSUME AnswersRecorded PROVE Spec => []AnsweredInv
<1>1. AnsweredInv /\ [Next]_vars => AnsweredInv'
  BY AnsweredStep
<1> QED
  BY <1>1, AnsweredInit, PTL DEF Spec

(* The record of a certificate without a pending request tells when the     *)
(* certificate in live/ ends: what planRenewal decides on is true of what   *)
(* is deployed.                                                             *)
THEOREM RecordAlwaysTracksLive ==
  ASSUME AnswersRecorded PROVE Spec => []RecordTracksLive
<1>1. AnsweredInv => RecordTracksLive
  BY DEF AnsweredInv
<1> QED
  BY <1>1, AnsweredInvHolds, PTL

(* A live/ with the key of one certificate and the certificate of another   *)
(* is only ever left when the next renew can finish the deployment: the key *)
(* in pending/ is that of live/, the certificate of that key is issued, and *)
(* unless the provider has forgotten the order readyForDownload holds at    *)
(* the first answer of the resumed run.                                     *)
THEOREM TornLiveAlwaysRepaired ==
  ASSUME AnswersRecorded PROVE Spec => []TornLiveIsRepaired
<1>1. AnsweredInv => TornLiveIsRepaired
  <2> SUFFICES ASSUME AnsweredInv, live.key # live.cert.key, pc = "idle"
               PROVE  /\ \A f \in Files : pend[f] = live.key
                      /\ Remote.cert = live.key
                      /\ ~Gone => /\ MustComplete /\ ~Remote.action
                                  /\ Ready(Remote, PendingAction, rec.until)
    BY DEF TornLiveIsRepaired
  <2>1. Current = rec
    BY DEF Current
  <2>2. PendingAction = rec.pending
    BY <2>1, TornIsReady DEF PendingAction
  <2> QED
    BY <2>1, <2>2, TornIsReady DEF AllPendingIs, MustComplete
<1> QED
  BY <1>1, AnsweredInvHolds, PTL

(* The webserver's key and certificate belong together even if the provider *)
(* fails reissues, as long as every answer is recorded.                     *)
THEOREM ServedMatchesWhenAnswered ==
  ASSUME AnswersRecorded PROVE Spec => []ServedMatches
<1>1. AnsweredInv => ServedMatches
  BY DEF AnsweredInv
<1> QED
  BY <1>1, AnsweredInvHolds, PTL
=============================================================================
