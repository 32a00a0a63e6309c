---------------------------- MODULE IssuePairProofs ----------------------------
(***************************************************************************)
(* Proofs about IssuePair, for either order of discovery, with or without  *)
(* console orders, for any number of requests and of failed runs.          *)
(***************************************************************************)
EXTENDS IssuePair, TLAPS

USE PairAssumption

Record == [known: BOOLEAN, pending: BOOLEAN, reload: BOOLEAN]

(* What a command still has to do, and what is left of it.                   *)
LEMMA Lists ==
  ASSUME NEW t \in Worklists \cup {Pair}
  PROVE  /\ t # <<>> /\ Head(t) \in Certs
         /\ Len(t) > 1 => Tail(t) \in {<<"rsa">>, <<"ecdsa">>} /\ Tail(t) # <<>>
         /\ Len(t) > 1 <=> Len(t) # 1
         /\ t = Pair => Head(t) = "rsa" /\ Len(t) > 1 /\ Tail(t) = <<"ecdsa">>
         /\ t = <<"ecdsa">> => Head(t) = "ecdsa" /\ Len(t) = 1 /\ t # Pair
<1>1. CASE t = <<"rsa", "ecdsa">>
  <2>1. Head(t) = "rsa" /\ Tail(t) = <<"ecdsa">> /\ Len(t) = 2 /\ t # <<>>
    BY <1>1
  <2> QED
    BY <1>1, <2>1 DEF Pair, Certs
<1>2. CASE t = <<"ecdsa", "rsa">>
  <2>1. Head(t) = "ecdsa" /\ Tail(t) = <<"rsa">> /\ Len(t) = 2 /\ t # <<>>
    BY <1>2
  <2> QED
    BY <1>2, <2>1 DEF Pair, Certs
<1>3. CASE t = <<"rsa">>
  <2>1. Head(t) = "rsa" /\ Len(t) = 1 /\ t # <<>>
    BY <1>3
  <2> QED
    BY <1>3, <2>1 DEF Pair, Certs
<1>4. CASE t = <<"ecdsa">>
  <2>1. Head(t) = "ecdsa" /\ Len(t) = 1 /\ t # <<>>
    BY <1>4
  <2> QED
    BY <1>4, <2>1 DEF Pair, Certs
<1> QED
  BY <1>1, <1>2, <1>3, <1>4 DEF Worklists, Pair

LEMMA ListsKnown ==
  {<<"rsa">>, <<"ecdsa">>} \subseteq Worklists /\ Pair # <<>>
BY DEF Worklists, Pair

LEMMA ExitTyped ==
  ASSUME TypeOK, Exit
  PROVE  /\ pc' = "idle" /\ cmd' \in Commands /\ todo' = <<>>
         /\ mem' \in [Certs -> Record]
         /\ \A c \in Certs : mem'[c].pending = FALSE
BY DEF Exit, Commands, NoRecord, Record

(* What a request or a save of the settings changes leaves a record one. *)
LEMMA RecordUpdated ==
  ASSUME NEW r \in Record
  PROVE  /\ [r EXCEPT !.known = TRUE, !.pending = TRUE] \in Record
         /\ [r EXCEPT !.reload = TRUE] \in Record
BY DEF Record

LEMMA RecordsTyped ==
  ASSUME TypeOK
  PROVE  rec \in [Certs -> Record] /\ mem \in [Certs -> Record]
BY DEF TypeOK, Record

(* The certificate at hand, while there is one. *)
LEMMA CertTyped ==
  ASSUME TypeOK, pc # "idle"
  PROVE  todo \in Worklists \cup {Pair} /\ Cert \in Certs
BY Lists DEF TypeOK, Cert

LEMMA NextCertTyped ==
  ASSUME TypeOK, pc # "idle", NextCert
  PROVE  /\ pc' \in Steps /\ cmd' \in Commands /\ finished' = finished
         /\ mem' \in [Certs -> Record]
         /\ todo' \in Worklists \cup {Pair, <<>>}
         /\ pc' # "idle" <=> todo' # <<>>
<1>1. todo \in Worklists \cup {Pair}
  BY CertTyped
<1>2. CASE Len(todo) > 1
  <2>1. todo' \in {<<"rsa">>, <<"ecdsa">>} /\ todo' # <<>>
    BY <1>1, <1>2, Lists DEF NextCert
  <2>2. pc' = "visit" /\ UNCHANGED <<cmd, mem, finished>>
    BY <1>2 DEF NextCert
  <2> QED
    BY <2>1, <2>2, ListsKnown DEF TypeOK, Steps, Record
<1>3. CASE ~(Len(todo) > 1) /\ Exit
  BY <1>3, ExitTyped DEF NextCert, Steps
<1>4. CASE ~(Len(todo) > 1) /\ ~Exit
  <2>1. pc' = "persist" /\ todo' = Pair /\ UNCHANGED <<cmd, mem, finished>>
    BY <1>4 DEF NextCert
  <2> QED
    BY <2>1, ListsKnown DEF TypeOK, Steps, Record
<1> QED
  BY <1>2, <1>3, <1>4

-----------------------------------------------------------------------------
(* Type correctness. *)
LEMMA StartTyped ==
  ASSUME TypeOK,
         StartPair \/ (\E c \in Certs : StartIssue(c)) \/ RenewAll
           \/ (\E c \in Certs : StartRenew(<<c>>))
  PROVE  TypeOK'
<1>1. ASSUME NEW work \in Worklists, StartRenew(work) PROVE TypeOK'
  BY <1>1, Lists DEF StartRenew, TypeOK, provider, disk, server, Steps, Commands
<1>2. ASSUME NEW c \in Certs, StartRenew(<<c>>) PROVE TypeOK'
  <2>1. <<c>> \in Worklists
    BY DEF Certs, Worklists
  <2> QED
    BY <1>1, <1>2, <2>1
<1>3. CASE StartPair
  <2>1. mem' \in [Certs -> Record]
    BY <1>3 DEF StartPair, NoRecord, Record, Certs
  <2> QED
    BY <1>3, <2>1, ListsKnown
       DEF StartPair, TypeOK, provider, disk, server, Steps, Commands, Record
<1>4. ASSUME NEW c \in Certs, StartIssue(c) PROVE TypeOK'
  <2>1. <<c>> \in Worklists /\ <<c>> # <<>>
    BY DEF Certs, Worklists
  <2>2. mem' \in [Certs -> Record]
    BY <1>4 DEF StartIssue, TypeOK, Record
  <2> QED
    BY <1>4, <2>1, <2>2
       DEF StartIssue, TypeOK, provider, disk, server, Steps, Commands, Record
<1> QED
  BY <1>1, <1>2, <1>3, <1>4 DEF RenewAll

LEMMA RequestTyped == ASSUME TypeOK, Request PROVE TypeOK'
<1>1. todo \in Worklists \cup {Pair} /\ todo # <<>> /\ Cert \in Certs
  BY CertTyped, Lists DEF Request
<1>2. orders' \in [Certs -> [gen: 0 .. MaxGen, state: {"none", "console", "open", "issued"}]]
  <2>1. PICK s \in {"open", "console"} :
          orders' = [orders EXCEPT ![Cert] = [gen |-> orders[Cert].gen + 1, state |-> s]]
    BY DEF Request
  <2>2. orders[Cert].gen + 1 \in 0 .. MaxGen
    BY <1>1 DEF Request, TypeOK
  <2> QED
    BY <1>1, <2>1, <2>2 DEF TypeOK
<1>3. mem[Cert] \in Record /\ [mem[Cert] EXCEPT !.known = TRUE, !.pending = TRUE] \in Record
  BY <1>1, RecordsTyped, RecordUpdated
<1>4. rec' \in [Certs -> Record] /\ mem' \in [Certs -> Record]
  BY <1>1, <1>3 DEF Request, TypeOK, Record
<1>5. pend' \in [Certs -> BOOLEAN]
  BY <1>1 DEF Request, TypeOK
<1> QED
  BY <1>1, <1>2, <1>4, <1>5 DEF Request, TypeOK, server, Steps, Record

LEMMA WaitTyped ==
  ASSUME TypeOK, Skip \/ Resume \/ Pause \/ TimeOut \/ Download
  PROVE  TypeOK'
<1>1. pc # "idle" /\ todo \in Worklists \cup {Pair} /\ todo # <<>> /\ Cert \in Certs
  BY CertTyped, Lists DEF Skip, Resume, Pause, TimeOut, Download, Waiting
<1>2. CASE Skip
  <2>1. rec' \in [Certs -> Record]
    BY <1>1, <1>2 DEF Skip, TypeOK, Record
  <2> QED
    BY <1>1, <1>2, <2>1, NextCertTyped DEF Skip, TypeOK, provider, server, Record
<1>3. CASE Resume
  <2>1. CASE Exit
    BY <1>3, <2>1, ExitTyped DEF Resume, TypeOK, provider, disk, server, Steps, Record
  <2>2. CASE pc' = "resumed" /\ UNCHANGED local
    BY <1>1, <1>3, <2>2 DEF Resume, TypeOK, provider, disk, server, local, Steps
  <2> QED
    BY <1>3, <2>1, <2>2 DEF Resume
<1>4. CASE Pause
  BY <1>1, <1>4, NextCertTyped DEF Pause, TypeOK, provider, disk, server, Record
<1>5. CASE TimeOut
  BY <1>5, ExitTyped DEF TimeOut, TypeOK, provider, disk, server, Steps, Record
<1>6. CASE Download
  BY <1>1, <1>6 DEF Download, TypeOK, provider, disk, server, local, Steps
<1> QED
  BY <1>2, <1>3, <1>4, <1>5, <1>6

LEMMA DeployTyped ==
  ASSUME TypeOK, WriteArtifacts \/ Validate \/ Reload
  PROVE  TypeOK'
<1>1. pc # "idle" /\ todo \in Worklists \cup {Pair} /\ todo # <<>> /\ Cert \in Certs
  BY CertTyped, Lists DEF WriteArtifacts, WriteFile, Validate, Reload
<1>2. Head(Plan) = "validate" /\ Plan[2] = "reload"
  BY DEF Plan
<1>3. ASSUME NEW f \in Files, NEW next \in Steps \ {"idle"}, WriteFile(f, next)
      PROVE  TypeOK'
  <2>1. orders[Cert].gen \in 0 .. MaxGen
    BY <1>1 DEF TypeOK
  <2>2. live' \in [Certs -> [Files -> 0 .. MaxGen]]
    BY <1>1, <1>3, <2>1 DEF WriteFile, TypeOK
  <2> QED
    BY <1>1, <1>3, <2>2 DEF WriteFile, TypeOK, provider, server, local
<1>4. CASE WriteArtifacts
  BY <1>2, <1>3, <1>4 DEF WriteArtifacts, Files, Steps
<1>5. CASE Validate
  <2>1. CASE Exit
    BY <1>5, <2>1, ExitTyped DEF Validate, TypeOK, provider, disk, server, Steps, Record
  <2>2. CASE pc' = "reload" /\ UNCHANGED local
    BY <1>1, <1>5, <2>2 DEF Validate, TypeOK, provider, disk, server, local, Steps
  <2> QED
    BY <1>2, <1>5, <2>1, <2>2 DEF Validate
<1>6. CASE Reload
  BY <1>1, <1>6 DEF Reload, TypeOK, provider, disk, local, Steps
<1> QED
  BY <1>4, <1>5, <1>6

LEMMA SaveTyped ==
  ASSUME TypeOK, ClearPending \/ SaveDeployed \/ PersistSettings
  PROVE  TypeOK'
<1>1. pc # "idle" /\ todo \in Worklists \cup {Pair} /\ todo # <<>> /\ Cert \in Certs
  BY CertTyped, Lists DEF ClearPending, SaveDeployed, PersistSettings
<1>2. CASE ClearPending
  BY <1>1, <1>2 DEF ClearPending, TypeOK, provider, server, Steps
<1>3. CASE SaveDeployed
  <2>1. rec' \in [Certs -> Record]
    BY <1>1, <1>3 DEF SaveDeployed, TypeOK, Record
  <2>2. UNCHANGED <<pend, live, aborts, orders, loaded, configured>>
    BY <1>3 DEF SaveDeployed, provider, server
  <2>3. /\ pc' \in Steps /\ cmd' \in Commands /\ finished' = finished
        /\ mem' \in [Certs -> Record] /\ todo' \in Worklists \cup {Pair, <<>>}
        /\ pc' # "idle" <=> todo' # <<>>
    BY <1>1, <1>3, NextCertTyped DEF SaveDeployed
  <2> QED
    BY <2>1, <2>2, <2>3 DEF TypeOK, Record
<1>4. CASE PersistSettings
  <2>1. mem[Cert] \in Record /\ [mem[Cert] EXCEPT !.reload = TRUE] \in Record
    BY <1>1, RecordsTyped, RecordUpdated
  <2>2. rec' \in [Certs -> Record]
    BY <1>1, <1>4, <2>1 DEF PersistSettings, TypeOK, Record
  <2>3. CASE Len(todo) > 1
    <3>1. todo' \in {<<"rsa">>, <<"ecdsa">>} /\ todo' # <<>>
      BY <1>1, <1>4, <2>3, Lists DEF PersistSettings
    <3>2. UNCHANGED <<pc, cmd, mem, finished>>
      BY <1>1, <1>4, <2>3, Lists DEF PersistSettings
    <3> QED
      BY <1>4, <2>2, <3>1, <3>2, ListsKnown
         DEF PersistSettings, TypeOK, provider, server, Record
  <2>4. CASE ~(Len(todo) > 1)
    BY <1>4, <2>2, <2>4, ExitTyped
       DEF PersistSettings, TypeOK, provider, server, Steps, Record
  <2> QED
    BY <2>3, <2>4
<1> QED
  BY <1>2, <1>3, <1>4

LEMMA OutsideTyped ==
  ASSUME TypeOK, Abort \/ Environment
  PROVE  TypeOK'
<1>1. CASE Abort
  <2>1. aborts' \in 0 .. MaxAborts
    BY <1>1 DEF Abort, TypeOK
  <2>2. Exit /\ UNCHANGED <<orders, rec, pend, live, loaded, configured, finished>>
    BY <1>1 DEF Abort, provider, disk, server
  <2> QED
    BY <2>1, <2>2, ExitTyped DEF TypeOK, Steps, Record
<1>2. CASE AdminConfigures
  BY <1>2 DEF AdminConfigures, TypeOK, provider, disk, local
<1>3. ASSUME NEW c \in Certs, CaIssues(c) \/ CustomerCompletes(c) PROVE TypeOK'
  <2>1. PICK s \in {"issued", "open"} : orders' = [orders EXCEPT ![c].state = s]
    BY <1>3 DEF CaIssues, CustomerCompletes, OrderStep
  <2>2. orders' \in [Certs -> [gen: 0 .. MaxGen, state: {"none", "console", "open", "issued"}]]
    BY <2>1 DEF TypeOK
  <2> QED
    BY <1>3, <2>2 DEF CaIssues, CustomerCompletes, OrderStep, TypeOK, disk, server, local
<1> QED
  BY <1>1, <1>2, <1>3 DEF Environment

LEMMA TypeStep == TypeOK /\ [Next]_vars => TypeOK'
<1> SUFFICES ASSUME TypeOK, [Next]_vars PROVE TypeOK'
  OBVIOUS
<1>1. CASE UNCHANGED vars
  BY <1>1 DEF vars, TypeOK
<1>2. CASE Continue
  BY <1>2, RequestTyped, WaitTyped, DeployTyped, SaveTyped DEF Continue
<1>3. CASE Abort \/ Environment
  BY <1>3, OutsideTyped
<1> QED
  BY <1>1, <1>2, <1>3, StartTyped DEF Next

LEMMA TypeInit == Init => TypeOK
<1> SUFFICES ASSUME Init PROVE TypeOK
  OBVIOUS
<1>1. orders \in [Certs -> [gen: 0 .. MaxGen, state: {"none", "console", "open", "issued"}]]
  BY DEF Init, NoOrder
<1>2. rec \in [Certs -> Record] /\ mem \in [Certs -> Record]
  BY DEF Init, NoRecord, Record
<1>3. live \in [Certs -> [Files -> 0 .. MaxGen]] /\ loaded \in [Certs -> [Files -> 0 .. MaxGen]]
  BY DEF Init, Empty
<1>4. pend \in [Certs -> BOOLEAN] /\ configured \in BOOLEAN /\ finished \in BOOLEAN
  BY DEF Init
<1>5. aborts \in 0 .. MaxAborts
  BY DEF Init
<1>6. cmd \in Commands /\ pc \in Steps /\ todo \in Worklists \cup {Pair, <<>>}
  BY DEF Init, Commands, Steps
<1>7. pc # "idle" <=> todo # <<>>
  BY DEF Init
<1> QED
  BY <1>1, <1>2, <1>3, <1>4, <1>5, <1>6, <1>7 DEF TypeOK, Record

(* Whatever is issued, renewed, interrupted and resumed, every variable      *)
(* keeps its type, and a command that runs has a certificate at hand.        *)
THEOREM PairTypeCorrect == Spec => []TypeOK
BY TypeInit, TypeStep, PTL DEF Spec

-----------------------------------------------------------------------------
(* A webserver that is configured runs with whole directories, and the       *)
(* validation before a reload has seen both of them whole: nothing is        *)
(* written between it and the reload.                                        *)
LoadingInv ==
  /\ configured => \A c \in Certs : Whole(loaded[c])
  /\ pc = "reload" /\ configured => \A c \in Certs : Whole(live[c])

LEMMA NextCertGoes ==
  ASSUME NextCert
  PROVE  pc' \in {"visit", "idle", "persist"} /\ finished' = finished
BY DEF NextCert, Exit

LEMMA LoadingStep == LoadingInv /\ [Next]_vars => LoadingInv'
<1> SUFFICES ASSUME LoadingInv, [Next]_vars PROVE LoadingInv'
  OBVIOUS
<1>1. CASE UNCHANGED vars
  BY <1>1 DEF vars, LoadingInv
<1>2. CASE StartPair \/ RenewAll \/ \E c \in Certs : StartIssue(c) \/ StartRenew(<<c>>)
  <2>1. pc' = "visit" /\ UNCHANGED <<loaded, configured>>
    BY <1>2 DEF StartPair, RenewAll, StartRenew, StartIssue, server
  <2> QED
    BY <2>1 DEF LoadingInv
<1>3. CASE Request \/ Resume \/ TimeOut \/ Download \/ ClearPending \/ Abort
  <2>1. pc' # "reload" /\ UNCHANGED <<loaded, configured>>
    BY <1>3 DEF Request, Resume, TimeOut, Download, ClearPending, Abort, Exit, server
  <2> QED
    BY <2>1 DEF LoadingInv
<1>4. CASE Skip \/ Pause \/ SaveDeployed
  <2>1. pc' # "reload" /\ UNCHANGED <<loaded, configured>>
    BY <1>4, NextCertGoes DEF Skip, Pause, SaveDeployed, server
  <2> QED
    BY <2>1 DEF LoadingInv
<1>5. CASE PersistSettings
  <2>1. pc' # "reload" /\ UNCHANGED <<loaded, configured>>
    BY <1>5 DEF PersistSettings, Exit, server
  <2> QED
    BY <2>1 DEF LoadingInv
<1>6. CASE WriteArtifacts
  <2>1. pc' # "reload" /\ UNCHANGED <<loaded, configured>>
    BY <1>6 DEF WriteArtifacts, WriteFile, Plan, server
  <2> QED
    BY <2>1 DEF LoadingInv
<1>7. CASE Validate
  <2>1. UNCHANGED <<live, loaded, configured>>
    BY <1>7 DEF Validate, disk, server
  <2>2. pc' = "reload" /\ configured => \A c \in Certs : Whole(live[c])
    BY <1>7 DEF Validate, Exit
  <2> QED
    BY <2>1, <2>2 DEF LoadingInv
<1>8. CASE Reload
  BY <1>8 DEF Reload, LoadingInv, disk
<1>9. CASE AdminConfigures
  BY <1>9 DEF AdminConfigures, LoadingInv, disk
<1>10. ASSUME NEW c \in Certs, CaIssues(c) \/ CustomerCompletes(c) PROVE LoadingInv'
  BY <1>10 DEF CaIssues, CustomerCompletes, OrderStep, LoadingInv, disk, server
<1> QED
  BY <1>1, <1>2, <1>3, <1>4, <1>5, <1>6, <1>7, <1>8, <1>9, <1>10
     DEF Next, Continue, Environment

(* The webserver never runs with the private key of one and the certificate  *)
(* of another generation, however the deployments of the two certificates    *)
(* are interrupted and whichever of them reloads.                            *)
THEOREM PairLoadedWhole == Spec => []LoadedWhole
<1>1. Init => LoadingInv
  BY DEF Init, LoadingInv
<1>2. LoadingInv => LoadedWhole
  BY DEF LoadingInv, LoadedWhole
<1> QED
  BY <1>1, <1>2, LoadingStep, PTL DEF Spec

-----------------------------------------------------------------------------
(* A request's key is in pending/ while the command remembers the request,   *)
(* and while the record does but for the moment before the record is saved.  *)
KeyInv ==
  /\ \A c \in Certs : mem[c].pending => pend[c]
  /\ \A c \in Certs : rec[c].pending => pend[c] \/ (pc = "save" /\ c = Cert)
  /\ pc = "save" => ~mem[Cert].pending

(* What is remembered after a command has ended or has gone on. *)
LEMMA Remembered ==
  ASSUME TypeOK, Exit \/ NextCert, NEW c \in Certs, mem'[c].pending
  PROVE  mem[c].pending
BY DEF NextCert, Exit, NoRecord

LEMMA KeyStart ==
  ASSUME TypeOK, KeyInv,
         StartPair \/ RenewAll \/ \E c \in Certs : StartIssue(c) \/ StartRenew(<<c>>)
  PROVE  KeyInv'
<1>1. pc = "idle" /\ pc' = "visit" /\ UNCHANGED <<rec, pend>>
  BY DEF StartPair, RenewAll, StartRenew, StartIssue, disk
<1>2. \A c \in Certs : rec[c].pending => pend[c]
  BY <1>1 DEF KeyInv
<1>3. ASSUME NEW c \in Certs, mem'[c].pending PROVE rec[c].pending
  <2>1. CASE StartPair
    <3>1. mem'[c].pending = FALSE
      BY <2>1 DEF StartPair, NoRecord
    <3> QED
      BY <1>3, <3>1
  <2>2. CASE RenewAll \/ \E d \in Certs : StartRenew(<<d>>)
    BY <1>3, <2>2 DEF RenewAll, StartRenew
  <2>3. ASSUME NEW d \in Certs, StartIssue(d) PROVE rec[c].pending
    <3>1. mem'[c].pending = rec[c].pending
      BY <2>3 DEF StartIssue, TypeOK
    <3> QED
      BY <1>3, <3>1
  <2> QED
    BY <2>1, <2>2, <2>3
<1> QED
  BY <1>1, <1>2, <1>3 DEF KeyInv

LEMMA KeyRequest == ASSUME TypeOK, KeyInv, Request PROVE KeyInv'
<1>1. Cert \in Certs /\ pc' = "wait" /\ pc # "save"
  BY CertTyped DEF Request
<1>2. pend' = [pend EXCEPT ![Cert] = TRUE]
  BY DEF Request
<1>3. ASSUME NEW c \in Certs, c # Cert PROVE rec'[c] = rec[c] /\ mem'[c] = mem[c]
  BY <1>1, <1>3 DEF Request, TypeOK
<1>4. \A c \in Certs : pend'[c] = (c = Cert \/ pend[c])
  BY <1>1, <1>2 DEF TypeOK
<1> QED
  BY <1>1, <1>3, <1>4 DEF KeyInv

(* Steps that change neither a record nor pending/. *)
LEMMA KeyUntouched ==
  ASSUME TypeOK, KeyInv, UNCHANGED <<rec, pend>>, pc # "save", pc' # "save",
         \A c \in Certs : mem'[c].pending => mem[c].pending
  PROVE  KeyInv'
BY DEF KeyInv

(* Steps that write the record at hand as it is remembered. *)
LEMMA KeySaved ==
  ASSUME TypeOK, KeyInv, pc # "idle", pc' # "save", UNCHANGED pend,
         NEW r \in Record, r.pending = mem[Cert].pending, rec' = [rec EXCEPT ![Cert] = r],
         \A c \in Certs : mem'[c].pending => mem[c].pending
  PROVE  KeyInv'
<1>1. Cert \in Certs
  BY CertTyped
<1>2. rec'[Cert].pending = mem[Cert].pending /\ \A c \in Certs \ {Cert} : rec'[c] = rec[c]
  BY <1>1 DEF TypeOK
<1>3. ASSUME NEW c \in Certs, rec'[c].pending PROVE pend[c]
  <2>1. CASE c = Cert
    BY <1>1, <1>2, <1>3, <2>1 DEF KeyInv
  <2>2. CASE c # Cert
    BY <1>2, <1>3, <2>2 DEF KeyInv
  <2> QED
    BY <2>1, <2>2
<1> QED
  BY <1>3 DEF KeyInv

LEMMA KeyClear == ASSUME TypeOK, KeyInv, ClearPending PROVE KeyInv'
<1>1. Cert \in Certs /\ Cert' = Cert /\ pc = "clear" /\ pc' = "save" /\ rec' = rec
  BY CertTyped DEF ClearPending, Cert
<1>2. mem'[Cert].pending = FALSE /\ \A c \in Certs \ {Cert} : mem'[c] = mem[c]
  BY <1>1 DEF ClearPending, TypeOK
<1>3. \A c \in Certs \ {Cert} : pend'[c] = pend[c]
  BY <1>1 DEF ClearPending, TypeOK
<1>4. ASSUME NEW c \in Certs, mem'[c].pending PROVE pend'[c]
  BY <1>2, <1>3, <1>4 DEF KeyInv
<1>5. ASSUME NEW c \in Certs, c # Cert, rec'[c].pending PROVE pend'[c]
  BY <1>1, <1>3, <1>5 DEF KeyInv
<1> QED
  BY <1>1, <1>2, <1>4, <1>5 DEF KeyInv

LEMMA KeyStep ==
  ASSUME "save" \notin AbortPoints
  PROVE  TypeOK /\ KeyInv /\ [Next]_vars => KeyInv'
<1> SUFFICES ASSUME TypeOK, KeyInv, [Next]_vars PROVE KeyInv'
  OBVIOUS
<1>1. CASE UNCHANGED vars
  BY <1>1 DEF vars, KeyInv, Cert
<1>2. CASE TimeOut \/ Abort
  <2>1. Exit /\ UNCHANGED <<rec, pend>> /\ pc # "save"
    BY <1>2 DEF TimeOut, Abort, Waiting, disk
  <2>2. pc' # "save"
    BY <2>1 DEF Exit
  <2> QED
    BY <2>1, <2>2, KeyUntouched, Remembered
<1>3. CASE Pause
  <2>1. NextCert /\ UNCHANGED <<rec, pend>> /\ pc # "save"
    BY <1>3 DEF Pause, Waiting, disk
  <2> QED
    BY <2>1, NextCertGoes, KeyUntouched, Remembered
<1>4. CASE Resume \/ Validate
  <2>1. UNCHANGED <<rec, pend>> /\ pc # "save" /\ pc' # "save" /\ (Exit \/ mem' = mem)
    BY <1>4 DEF Resume, Validate, Exit, Plan, disk, local
  <2> QED
    BY <2>1, KeyUntouched, Remembered
<1>5. CASE Download \/ WriteArtifacts \/ Reload
  <2>1. UNCHANGED <<rec, pend, mem>> /\ pc # "save" /\ pc' # "save"
    BY <1>5 DEF Download, WriteArtifacts, WriteFile, Reload, Waiting, Plan, disk, local
  <2> QED
    BY <2>1, KeyUntouched
<1>6. CASE Skip \/ SaveDeployed
  <2>1. /\ pc # "idle" /\ NextCert /\ UNCHANGED pend
        /\ rec' = [rec EXCEPT ![Cert] = mem[Cert]]
    BY <1>6 DEF Skip, SaveDeployed
  <2>2. mem[Cert] \in Record
    BY <2>1, CertTyped DEF TypeOK, Record
  <2> QED
    BY <2>1, <2>2, NextCertGoes, KeySaved, Remembered
<1>7. CASE PersistSettings
  <2>1. pc = "persist" /\ UNCHANGED pend
    BY <1>7 DEF PersistSettings
  <2>2. PICK r : r = [mem[Cert] EXCEPT !.reload = TRUE]
    OBVIOUS
  <2>3. r \in Record /\ r.pending = mem[Cert].pending
    BY <2>1, <2>2, CertTyped DEF TypeOK, Record
  <2>4. rec' = [rec EXCEPT ![Cert] = r]
    BY <1>7, <2>2 DEF PersistSettings
  <2>5. pc' # "save" /\ (Exit \/ mem' = mem)
    BY <1>7, <2>1 DEF PersistSettings, Exit
  <2> QED
    BY <2>1, <2>3, <2>4, <2>5, KeySaved, Remembered
<1>8. CASE Environment
  <2>1. UNCHANGED <<rec, pend, mem, pc, todo>>
    BY <1>8 DEF Environment, AdminConfigures, CaIssues, CustomerCompletes, OrderStep, disk, local
  <2> QED
    BY <2>1 DEF KeyInv, Cert
<1> QED
  BY <1>1, <1>2, <1>3, <1>4, <1>5, <1>6, <1>7, <1>8, KeyStart, KeyRequest, KeyClear
     DEF Next, Continue

(* Unless a run dies between removing pending/ and saving the record, every  *)
(* request that a record calls pending has its key between two commands,     *)
(* whatever happens to the other certificate of the host.                    *)
THEOREM PairKeysKept ==
  ASSUME "save" \notin AbortPoints
  PROVE  Spec => []PairResumable
<1>1. Init => KeyInv
  BY DEF Init, KeyInv, NoRecord
<1>2. KeyInv => PairResumable
  BY DEF KeyInv, PairResumable
<1> QED
  BY <1>1, <1>2, TypeInit, TypeStep, KeyStep, PTL DEF Spec

-----------------------------------------------------------------------------
(* issue-pair knows both certificates when it comes to saving the settings,  *)
(* and no command starts later that does not carry them along.               *)
SettlingInv ==
  /\ \A c \in Certs : (mem[c].pending => mem[c].known) /\ (rec[c].pending => rec[c].known)
  /\ pc \notin {"idle", "visit"} => mem[Cert].known
  /\ cmd = "pair" => todo = Pair \/ (todo = <<"ecdsa">> /\ mem["rsa"].known)
  /\ pc = "persist" => cmd = "pair" /\ \A c \in Certs : mem[c].known
  /\ pc = "persist" /\ todo = <<"ecdsa">> => rec["rsa"].known /\ rec["rsa"].reload
  /\ finished => cmd = "renew" /\ \A c \in Certs : rec[c].known /\ rec[c].reload
  /\ finished /\ pc # "idle" => \A c \in Certs : mem[c].known /\ mem[c].reload

LEMMA SettlingUntouched ==
  ASSUME SettlingInv, UNCHANGED <<rec, mem, cmd, pc, todo, finished>>
  PROVE  SettlingInv'
BY DEF SettlingInv, Cert

LEMMA SettlingExit ==
  ASSUME TypeOK, SettlingInv, Exit, UNCHANGED <<rec, finished>>
  PROVE  SettlingInv'
<1>1. pc' = "idle" /\ cmd' = "renew" /\ \A c \in Certs : mem'[c].pending = FALSE
  BY ExitTyped DEF Exit
<1> QED
  BY <1>1 DEF SettlingInv

(* A step of the command that leaves the records as they are. *)
LEMMA SettlingOn ==
  ASSUME SettlingInv, UNCHANGED <<rec, mem, cmd, todo, finished>>,
         pc # "idle", pc' # "persist", mem[Cert].known
  PROVE  SettlingInv'
<1>1. Cert' = Cert
  BY DEF Cert
<1> QED
  BY <1>1 DEF SettlingInv

LEMMA SettlingStart ==
  ASSUME TypeOK, SettlingInv,
         StartPair \/ RenewAll \/ \E c \in Certs : StartIssue(c) \/ StartRenew(<<c>>)
  PROVE  SettlingInv'
<1>1. pc' = "visit" /\ UNCHANGED <<rec, finished>>
  BY DEF StartPair, RenewAll, StartRenew, StartIssue, disk
<1>2. CASE StartPair
  <2>1. ~finished
    BY <1>2 DEF StartPair, SettlingInv, Certs
  <2>2. cmd' = "pair" /\ todo' = Pair /\ \A c \in Certs : mem'[c].pending = FALSE
    BY <1>2 DEF StartPair, NoRecord
  <2> QED
    BY <1>1, <2>1, <2>2 DEF SettlingInv
<1>3. CASE RenewAll \/ \E c \in Certs : StartRenew(<<c>>)
  <2>1. cmd' = "renew" /\ mem' = rec
    BY <1>3 DEF RenewAll, StartRenew
  <2> QED
    BY <1>1, <2>1 DEF SettlingInv
<1>4. ASSUME NEW c \in Certs, StartIssue(c) PROVE SettlingInv'
  <2>1. ~finished
    BY <1>4 DEF StartIssue, SettlingInv
  <2>2. cmd' = "issue"
    BY <1>4 DEF StartIssue
  <2>3. \A d \in Certs : mem'[d].pending = rec[d].pending /\ mem'[d].known = rec[d].known
    BY <1>4 DEF StartIssue, TypeOK
  <2> QED
    BY <1>1, <2>1, <2>2, <2>3 DEF SettlingInv
<1> QED
  BY <1>2, <1>3, <1>4

LEMMA SettlingRequest == ASSUME TypeOK, SettlingInv, Request PROVE SettlingInv'
<1>1. Cert \in Certs /\ Cert' = Cert /\ pc = "visit" /\ pc' = "wait"
  BY CertTyped DEF Request, Cert
<1>2. UNCHANGED <<cmd, todo, finished>>
  BY DEF Request
<1>3. PICK r : r = [mem[Cert] EXCEPT !.known = TRUE, !.pending = TRUE]
  OBVIOUS
<1>4. r.known = TRUE /\ r.reload = mem[Cert].reload
  BY <1>1, <1>3 DEF TypeOK
<1>5. \A c \in Certs : /\ mem'[c] = IF c = Cert THEN r ELSE mem[c]
                       /\ rec'[c] = IF c = Cert THEN r ELSE rec[c]
  BY <1>1, <1>3 DEF Request, TypeOK
<1>6. mem'[Cert'].known
  BY <1>1, <1>4, <1>5
<1>7. \A c \in Certs : mem[c].known => mem'[c].known
  BY <1>4, <1>5
<1>8. cmd' = "pair" => todo' = Pair \/ (todo' = <<"ecdsa">> /\ mem'["rsa"].known)
  BY <1>2, <1>7 DEF SettlingInv, Certs
<1>9. ASSUME NEW c \in Certs
      PROVE  (mem'[c].pending => mem'[c].known) /\ (rec'[c].pending => rec'[c].known)
  BY <1>4, <1>5 DEF SettlingInv
<1>10. ASSUME finished'
       PROVE  \A c \in Certs : /\ rec'[c].known /\ rec'[c].reload
                               /\ mem'[c].known /\ mem'[c].reload
  BY <1>1, <1>2, <1>4, <1>5, <1>10 DEF SettlingInv
<1> QED
  BY <1>1, <1>2, <1>6, <1>8, <1>9, <1>10 DEF SettlingInv

(* From one certificate to the next one, after its record was saved as it is *)
(* remembered or was left alone.                                             *)
LEMMA SettlingNext ==
  ASSUME TypeOK, SettlingInv, NextCert, pc \notin {"idle", "persist"},
         cmd = "pair" => mem[Cert].known,
         rec' = rec \/ rec' = [rec EXCEPT ![Cert] = mem[Cert]]
  PROVE  SettlingInv'
<1>1. Cert \in Certs /\ todo \in Worklists \cup {Pair} /\ finished' = finished
  BY CertTyped, NextCertGoes
<1>2. \A c \in Certs : rec'[c] = rec[c] \/ (c = Cert /\ rec'[c] = mem[c])
  BY <1>1 DEF TypeOK
<1>3. \A c \in Certs : rec'[c].pending => rec'[c].known
  BY <1>2 DEF SettlingInv
<1>4. finished' => \A c \in Certs : rec'[c].known /\ rec'[c].reload
  BY <1>1, <1>2 DEF SettlingInv
<1>5. CASE Len(todo) > 1
  <2>1. pc' = "visit" /\ todo' = Tail(todo) /\ UNCHANGED <<cmd, mem>>
    BY <1>5 DEF NextCert
  <2>2. cmd = "pair" => todo' = <<"ecdsa">> /\ mem["rsa"].known
    <3> SUFFICES ASSUME cmd = "pair" PROVE todo' = <<"ecdsa">> /\ mem["rsa"].known
      OBVIOUS
    <3>1. todo = Pair
      BY <1>1, <1>5, Lists DEF SettlingInv
    <3> QED
      BY <1>1, <2>1, <3>1, Lists DEF Cert
  <2> QED
    BY <1>1, <1>3, <1>4, <2>1, <2>2 DEF SettlingInv
<1>6. CASE ~(Len(todo) > 1) /\ Exit
  <2>1. pc' = "idle" /\ cmd' = "renew" /\ \A c \in Certs : mem'[c].pending = FALSE
    BY <1>6, ExitTyped DEF Exit
  <2> QED
    BY <1>3, <1>4, <2>1 DEF SettlingInv
<1>7. CASE ~(Len(todo) > 1) /\ ~Exit
  <2>1. cmd = "pair" /\ pc' = "persist" /\ todo' = Pair /\ UNCHANGED <<cmd, mem>>
    BY <1>7 DEF NextCert
  <2>2. todo = <<"ecdsa">> /\ mem["rsa"].known
    BY <1>1, <1>7, <2>1, Lists DEF SettlingInv
  <2>3. \A c \in Certs : mem[c].known
    BY <1>1, <2>1, <2>2, Lists DEF Cert, Certs
  <2>4. Cert' \in Certs /\ Pair # <<"ecdsa">>
    BY <2>1, Lists DEF Cert
  <2> QED
    BY <1>1, <1>3, <1>4, <2>1, <2>3, <2>4 DEF SettlingInv
<1> QED
  BY <1>5, <1>6, <1>7

LEMMA SettlingClear == ASSUME TypeOK, SettlingInv, ClearPending PROVE SettlingInv'
<1>1. Cert \in Certs /\ Cert' = Cert /\ pc = "clear" /\ pc' = "save"
  BY CertTyped DEF ClearPending, Cert
<1>2. UNCHANGED <<rec, cmd, todo, finished>>
  BY DEF ClearPending
<1>3. \A c \in Certs : /\ mem'[c].known = mem[c].known /\ mem'[c].reload = mem[c].reload
                       /\ mem'[c].pending => mem[c].pending
  BY <1>1 DEF ClearPending, TypeOK
<1> QED
  BY <1>1, <1>2, <1>3 DEF SettlingInv, Certs

LEMMA SettlingPersist == ASSUME TypeOK, SettlingInv, PersistSettings PROVE SettlingInv'
<1>1. Cert \in Certs /\ todo \in Worklists \cup {Pair} /\ pc = "persist"
  BY CertTyped DEF PersistSettings
<1>2. cmd = "pair" /\ ~finished /\ (todo = Pair \/ todo = <<"ecdsa">>)
  BY <1>1 DEF SettlingInv
<1>3. PICK r : r = [mem[Cert] EXCEPT !.reload = TRUE]
  OBVIOUS
<1>4. r.known = mem[Cert].known /\ r.pending = mem[Cert].pending /\ r.reload = TRUE
  BY <1>1, <1>3 DEF TypeOK
<1>5. \A c \in Certs : rec'[c] = IF c = Cert THEN r ELSE rec[c]
  BY <1>1, <1>3 DEF PersistSettings, TypeOK
<1>6. rec'[Cert].known /\ rec'[Cert].reload
  BY <1>1, <1>4, <1>5 DEF SettlingInv
<1>7. \A c \in Certs : rec'[c].pending => rec'[c].known
  BY <1>5, <1>6 DEF SettlingInv
<1>8. CASE todo = Pair
  <2>1. Cert = "rsa" /\ todo' = <<"ecdsa">> /\ UNCHANGED <<pc, cmd, mem, finished>>
    BY <1>1, <1>8, Lists DEF PersistSettings, Cert
  <2>2. Cert' \in Certs
    BY <1>1, <2>1, Lists, ListsKnown DEF Cert
  <2> QED
    BY <1>1, <1>2, <1>6, <1>7, <2>1, <2>2 DEF SettlingInv, Certs
<1>9. CASE todo = <<"ecdsa">>
  <2>1. Cert = "ecdsa" /\ Exit
    BY <1>1, <1>9, Lists DEF PersistSettings, Cert
  <2>2. rec'["rsa"] = rec["rsa"]
    BY <1>5, <2>1 DEF Certs
  <2>3. \A c \in Certs : rec'[c].known /\ rec'[c].reload
    BY <1>1, <1>6, <1>9, <2>1, <2>2 DEF SettlingInv, Certs
  <2>4. pc' = "idle" /\ cmd' = "renew" /\ \A c \in Certs : mem'[c].pending = FALSE
    BY <2>1, ExitTyped DEF Exit
  <2> QED
    BY <1>7, <2>3, <2>4 DEF SettlingInv
<1> QED
  BY <1>2, <1>8, <1>9

LEMMA SettlingStep == TypeOK /\ SettlingInv /\ [Next]_vars => SettlingInv'
<1> SUFFICES ASSUME TypeOK, SettlingInv, [Next]_vars PROVE SettlingInv'
  OBVIOUS
<1>1. CASE UNCHANGED vars
  BY <1>1, SettlingUntouched DEF vars
<1>2. CASE TimeOut \/ Abort
  BY <1>2, SettlingExit DEF TimeOut, Abort, disk
<1>3. CASE Resume
  <2>1. Cert \in Certs /\ pc = "visit" /\ mem[Cert].pending /\ UNCHANGED <<rec, finished>>
    BY <1>3, CertTyped DEF Resume, disk
  <2>2. Exit \/ (pc' = "resumed" /\ UNCHANGED <<cmd, todo, mem>>)
    BY <1>3 DEF Resume, local
  <2>3. mem[Cert].known
    BY <2>1 DEF SettlingInv
  <2> QED
    BY <2>1, <2>2, <2>3, SettlingExit, SettlingOn
<1>4. CASE Download \/ WriteArtifacts \/ Reload
  <2>1. /\ pc \notin {"idle", "visit"} /\ pc' # "persist"
        /\ UNCHANGED <<rec, mem, cmd, todo, finished>>
    BY <1>4 DEF Download, WriteArtifacts, WriteFile, Reload, Waiting, Plan, disk, local
  <2>2. mem[Cert].known
    BY <2>1 DEF SettlingInv
  <2> QED
    BY <2>1, <2>2, SettlingOn
<1>5. CASE Validate
  <2>1. pc = "validate" /\ UNCHANGED <<rec, finished>>
    BY <1>5 DEF Validate, disk
  <2>2. Exit \/ (pc' = "reload" /\ UNCHANGED <<cmd, todo, mem>>)
    BY <1>5 DEF Validate, Plan, local
  <2>3. mem[Cert].known
    BY <2>1 DEF SettlingInv
  <2> QED
    BY <2>1, <2>2, <2>3, SettlingExit, SettlingOn
<1>6. CASE Pause
  <2>1. NextCert /\ rec' = rec /\ pc \notin {"idle", "visit", "persist"}
    BY <1>6 DEF Pause, Waiting, disk
  <2>2. mem[Cert].known
    BY <2>1 DEF SettlingInv
  <2> QED
    BY <2>1, <2>2, SettlingNext
<1>7. CASE Skip
  BY <1>7, SettlingNext DEF Skip
<1>8. CASE SaveDeployed
  <2>1. NextCert /\ pc = "save" /\ rec' = [rec EXCEPT ![Cert] = mem[Cert]]
    BY <1>8 DEF SaveDeployed
  <2>2. mem[Cert].known
    BY <2>1 DEF SettlingInv
  <2> QED
    BY <2>1, <2>2, SettlingNext
<1>9. CASE Environment
  <2>1. UNCHANGED <<rec, mem, cmd, pc, todo, finished>>
    BY <1>9 DEF Environment, AdminConfigures, CaIssues, CustomerCompletes, OrderStep, disk, local
  <2> QED
    BY <2>1, SettlingUntouched
<1> QED
  BY <1>1, <1>2, <1>3, <1>4, <1>5, <1>6, <1>7, <1>8, <1>9,
     SettlingStart, SettlingRequest, SettlingClear, SettlingPersist DEF Next, Continue

(* Once issue-pair has ended well, the renewals of both certificates reload  *)
(* the webserver, whatever is renewed, resumed or interrupted later.         *)
THEOREM PairBothReload == Spec => []BothReload
<1>1. Init => SettlingInv
  BY DEF Init, SettlingInv, NoRecord
<1>2. SettlingInv => BothReload
  BY DEF SettlingInv, BothReload
<1> QED
  BY <1>1, <1>2, TypeInit, TypeStep, SettlingStep, PTL DEF Spec
=============================================================================
