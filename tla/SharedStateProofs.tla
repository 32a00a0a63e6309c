-------------------------- MODULE SharedStateProofs --------------------------
(***************************************************************************)
(* Proofs about SharedState: what its variables hold, that only one run of *)
(* renew works at a time, that what state.json lists has its record, and   *)
(* that no order is renewed twice: as long as nothing but renew writes     *)
(* records, and a failing save loses no answer (RenewOnly), the lock makes *)
(* renew place and record its orders one at a time.                        *)
(***************************************************************************)
EXTENDS SharedState, TLAPS

(* The kinds of the values a process works with. *)
LEMMA ConstantTypes ==
  /\ NoRec \in RecType /\ NoStore \in StoreType /\ Unused \in OrderType
  /\ NoOrder \notin Orders /\ Orders \subseteq Nat
BY ValuesAssumption DEF NoRec, RecType, NoStore, StoreType, Unused, OrderType,
   NoOrder, Orders

LEMMA FirstTypes ==
  /\ \A n \in Names : FirstRec(n) \in RecType
  /\ \A o \in Orders : FirstOrder(o) \in OrderType
<1>1. \A n \in Names : FirstRec(n) \in RecType
  BY ConstantTypes, NamesAssumption DEF FirstRec, NoRec, RecType
<1>2. ASSUME NEW o \in Orders PROVE FirstOrder(o) \in OrderType
  BY ConstantTypes, NamesAssumption DEF FirstOrder, Unused, OrderType
<1> QED BY <1>1, <1>2

(* An exit leaves the process with nothing. *)
LEMMA ExitType ==
  ASSUME TypeOK, NEW p \in Procs, Exit(p)
  PROVE  /\ lock' \in Procs \cup {NoProc}
         /\ pc' \in [Procs -> Steps] /\ after' \in [Procs -> {"idle", "wait", "next"}]
         /\ cmd' \in [Procs -> Commands \cup {"none"}]
         /\ arg' \in [Procs -> Names \cup {NoName}]
         /\ mem' \in [Procs -> RecType] /\ store' \in [Procs -> StoreType]
         /\ todo' \in [Procs -> SUBSET Names]
BY ConstantTypes DEF TypeOK, Exit, Goto, Released, Steps

(* What Start leaves to be typed: its record, its step, the store and todo. *)
LEMMA StartType ==
  ASSUME TypeOK, NEW p \in Procs, NEW c, NEW n \in Names \cup {NoName},
         NEW r \in RecType, NEW s \in Steps, Start(p, c, n, r, s),
         store' \in [Procs -> StoreType], todo' \in [Procs -> SUBSET Names]
  PROVE  TypeOK'
BY DEF TypeOK, Start, Goto, files, world

LEMMA SaveThenType ==
  ASSUME TypeOK, NEW p \in Procs, NEW r \in RecType,
         NEW s \in {"idle", "wait", "next"}, SaveThen(p, r, s)
  PROVE  /\ pc' \in [Procs -> Steps] /\ mem' \in [Procs -> RecType]
         /\ after' \in [Procs -> {"idle", "wait", "next"}]
BY DEF TypeOK, SaveThen, Goto, Steps

LEMMA OrderStepType ==
  ASSUME TypeOK, NEW o \in Orders, NEW c \in OrderType, OrderStep(o, c)
  PROVE  TypeOK'
BY DEF TypeOK, OrderStep, files

LEMMA TypeInit == Init => TypeOK
<1> SUFFICES ASSUME Init PROVE TypeOK
  OBVIOUS
<1>1. disk \in [Names -> RecType] /\ state \in StoreType
  BY FirstTypes DEF Init, StoreType
<1>2. orders \in [Orders -> OrderType]
  BY FirstTypes DEF Init
<1>3. aborts \in 0 .. MaxAborts
  BY ValuesAssumption DEF Init
<1> QED BY <1>1, <1>2, <1>3, ConstantTypes DEF Init, TypeOK, Steps

LEMMA BeginType ==
  ASSUME TypeOK, NEW p \in Procs, Begin(p) \/ RenewRun(p)
  PROVE  TypeOK'
<1>1. ASSUME NEW k \in ApiKeys, Configure(p, k) PROVE TypeOK'
  <2>1. [state EXCEPT !.api = k] \in StoreType
    BY DEF TypeOK, StoreType
  <2>2. store' \in [Procs -> StoreType] /\ todo' \in [Procs -> SUBSET Names]
    BY <1>1, <2>1 DEF Configure, TypeOK
  <2> QED BY <1>1, <2>2, StartType, ConstantTypes DEF Configure, Steps
<1>2. ASSUME NEW n \in Names, NEW d \in Days, Update(p, n, d) \/ Issue(p, n, d)
      PROVE  TypeOK'
  <2>1. [NoRec EXCEPT !.days = d] \in RecType
    BY ConstantTypes DEF NoRec, RecType
  <2>2. store' \in [Procs -> StoreType] /\ todo' \in [Procs -> SUBSET Names]
    BY <1>2 DEF Update, Issue, TypeOK
  <2> QED BY <1>2, <2>1, <2>2, StartType DEF Update, Issue, Steps
<1>3. ASSUME NEW n \in Names, NEW o \in Orders, Import(p, n, o) PROVE TypeOK'
  <2>1. [id |-> o, pending |-> FALSE, days |-> orders[o].days] \in RecType
    BY DEF TypeOK, RecType, OrderType
  <2>2. store' \in [Procs -> StoreType] /\ todo' \in [Procs -> SUBSET Names]
    BY <1>3 DEF Import, TypeOK
  <2> QED BY <1>3, <2>1, <2>2, StartType DEF Import, Steps
<1>4. ASSUME NEW sel \in Selections, Renew(p, sel) PROVE TypeOK'
  <2>1. store' \in [Procs -> StoreType] /\ todo' \in [Procs -> SUBSET Names]
    BY <1>4, ValuesAssumption DEF Renew, TypeOK
  <2> QED BY <1>4, <2>1, StartType, ConstantTypes DEF Renew, Steps
<1> QED BY <1>1, <1>2, <1>3, <1>4 DEF Begin, RenewRun

LEMMA ContinueType ==
  ASSUME TypeOK, NEW p \in Procs, Continue(p)
  PROVE  TypeOK'
<1>1. CASE RenewLock(p)
  BY <1>1 DEF RenewLock, Goto, TypeOK, Steps, files
<1>2. CASE RenewLocked(p)
  BY <1>2, ExitType DEF RenewLocked, TypeOK, files
<1>3. CASE RenewDiscover(p)
  <2>1. CASE Exit(p)
    BY <1>3, <2>1, ExitType DEF RenewDiscover, TypeOK, files
  <2>2. CASE ~Exit(p)
    <3>1. PICK sel \in SUBSET Names :
            /\ store' = [store EXCEPT ![p].list = Discovered]
            /\ todo' = [todo EXCEPT ![p] = sel] /\ Goto(p, "next")
            /\ UNCHANGED <<lock, after, cmd, arg, mem>>
            /\ UNCHANGED <<orders, aborts>> /\ UNCHANGED files
      BY <1>3, <2>2 DEF RenewDiscover, Managing, TypeOK
    <3>2. Discovered \in [Names -> RecType]
      BY ConstantTypes DEF Discovered, TypeOK
    <3>3. store' \in [Procs -> StoreType]
      BY <3>1, <3>2 DEF TypeOK, StoreType
    <3> QED BY <3>1, <3>3 DEF TypeOK, Goto, Steps, files
  <2> QED BY <2>1, <2>2
<1>4. CASE UpdateDiscover(p)
  <2>1. CASE Exit(p)
    BY <1>4, <2>1, ExitType DEF UpdateDiscover, TypeOK, files
  <2>2. CASE ~Exit(p)
    <3>1. arg[p] \in Names
      BY <1>4, <2>2 DEF UpdateDiscover, Managing
    <3>2. [disk[arg[p]] EXCEPT !.days = mem[p].days] \in RecType
      BY <3>1 DEF TypeOK, RecType
    <3>3. /\ SaveThen(p, [disk[arg[p]] EXCEPT !.days = mem[p].days], "idle")
          /\ UNCHANGED <<lock, cmd, arg, store, todo>>
          /\ UNCHANGED <<orders, aborts>> /\ UNCHANGED files
      BY <1>4, <2>2 DEF UpdateDiscover
    <3>4. /\ pc' \in [Procs -> Steps] /\ mem' \in [Procs -> RecType]
          /\ after' \in [Procs -> {"idle", "wait", "next"}]
      BY <3>2, <3>3, SaveThenType
    <3> QED BY <3>3, <3>4 DEF TypeOK, files
  <2> QED BY <2>1, <2>2
<1>5. CASE RenewNext(p)
  <2>1. PICK n \in Names :
          LET r == store[p].list[n] IN
          /\ arg' = [arg EXCEPT ![p] = n] /\ mem' = [mem EXCEPT ![p] = r]
          /\ todo' = [todo EXCEPT ![p] = @ \ {n}]
          /\ after' = [after EXCEPT ![p] = "next"]
          /\ Goto(p, Plan(r))
    BY <1>5 DEF RenewNext
  <2>2. store[p].list[n] \in RecType
    BY DEF TypeOK, StoreType
  <2>3. \A r \in RecType : Plan(r) \in Steps
    BY DEF Plan, Unfinished, Renewable, Steps, RecType
  <2> QED BY <1>5, <2>1, <2>2, <2>3 DEF RenewNext, TypeOK, Goto, files, world
<1>6. CASE RenewDone(p)
  BY <1>6, ExitType DEF RenewDone, TypeOK, files
<1>7. CASE PostOrder(p)
  <2>1. PICK o \in Orders :
          /\ orders' = [orders EXCEPT ![o] =
               [of |-> arg[p], from |-> mem[p].id, days |-> mem[p].days,
                status |-> "open", due |-> FALSE]]
          /\ SaveThen(p, [mem[p] EXCEPT !.id = o, !.pending = TRUE], "wait")
    BY <1>7 DEF PostOrder
  <2> mem[p] \in RecType
    BY DEF TypeOK
  <2>2. [mem[p] EXCEPT !.id = o, !.pending = TRUE] \in RecType
    BY DEF RecType
  <2>3. [of |-> arg[p], from |-> mem[p].id, days |-> mem[p].days,
         status |-> "open", due |-> FALSE] \in OrderType
    BY DEF TypeOK, RecType, OrderType
  <2> QED BY <1>7, <2>1, <2>2, <2>3, SaveThenType DEF PostOrder, TypeOK, files
<1>8. CASE Finish(p)
  <2> mem[p] \in RecType
    BY DEF TypeOK
  <2>1. [mem[p] EXCEPT !.pending = FALSE] \in RecType
    BY DEF RecType
  <2>2. AfterOrder(p) \in {"idle", "wait", "next"}
    BY DEF AfterOrder
  <2> QED BY <1>8, <2>1, <2>2, SaveThenType DEF Finish, TypeOK, files, world
<1>9. CASE Pause(p)
  <2>1. mem[p] \in RecType /\ AfterOrder(p) \in {"idle", "wait", "next"}
    BY DEF TypeOK, AfterOrder
  <2> QED BY <1>9, <2>1, SaveThenType DEF Pause, TypeOK, files, world
<1>10. CASE TimeOut(p) \/ Refused(p)
  BY <1>10, ExitType DEF TimeOut, Refused, TypeOK, files
<1>11. CASE SaveRecord(p)
  <2>1. disk' \in [Names -> RecType]
    BY <1>11 DEF SaveRecord, TypeOK
  <2>2. [store[p] EXCEPT !.list[arg[p]] = mem[p]] \in StoreType
    BY DEF TypeOK, StoreType
  <2>3. store' \in [Procs -> StoreType]
    BY <1>11, <2>2 DEF SaveRecord, TypeOK
  <2> QED BY <1>11, <2>1, <2>3 DEF SaveRecord, TypeOK, Goto, Steps, world
<1>12. CASE SaveState(p)
  <2>1. CASE Exit(p)
    BY <1>12, <2>1, ExitType DEF SaveState, TypeOK
  <2>2. CASE ~Exit(p)
    BY <1>12, <2>2 DEF SaveState, TypeOK, Goto, Steps
  <2> QED BY <2>1, <2>2
<1>13. CASE PostReissue(p)
  <2> mem[p] \in RecType
    BY DEF TypeOK
  <2>1. [mem[p] EXCEPT !.pending = TRUE] \in RecType
    BY DEF RecType
  <2>2. orders' \in [Orders -> OrderType]
    <3>1. \A c \in OrderType : [c EXCEPT !.status = "open"] \in OrderType
      BY DEF OrderType
    <3> QED BY <1>13, <3>1 DEF PostReissue, TypeOK
  <2> QED BY <1>13, <2>1, <2>2, SaveThenType DEF PostReissue, TypeOK, files
<1> QED BY <1>1, <1>2, <1>3, <1>4, <1>5, <1>6, <1>7, <1>8, <1>9, <1>10, <1>11, <1>12,
           <1>13 DEF Continue

LEMMA TypeStep == TypeOK /\ [Next]_vars => TypeOK'
<1> SUFFICES ASSUME TypeOK, [Next]_vars PROVE TypeOK'
  OBVIOUS
<1>1. ASSUME NEW p \in Procs, Begin(p) \/ RenewRun(p) PROVE TypeOK'
  BY <1>1, BeginType
<1>2. ASSUME NEW p \in Procs, Continue(p) PROVE TypeOK'
  BY <1>2, ContinueType
<1>3. ASSUME NEW p \in Procs, Abort(p) PROVE TypeOK'
  <2>1. aborts' \in 0 .. MaxAborts
    BY <1>3, ValuesAssumption DEF Abort, TypeOK
  <2> QED BY <1>3, <2>1, ExitType DEF Abort, TypeOK, files
<1>4. CASE Environment
  <2>1. ASSUME NEW o \in Orders PROVE
          /\ [orders[o] EXCEPT !.status = "issued", !.due = FALSE] \in OrderType
          /\ [orders[o] EXCEPT !.status = "gone"] \in OrderType
          /\ [orders[o] EXCEPT !.status = "rejected"] \in OrderType
          /\ [orders[o] EXCEPT !.due = TRUE] \in OrderType
    <3>1. orders[o] \in OrderType
      BY DEF TypeOK
    <3>2. \A c \in OrderType :
            /\ [c EXCEPT !.due = TRUE] \in OrderType
            /\ [c EXCEPT !.status = "issued", !.due = FALSE] \in OrderType
      BY DEF OrderType
    <3>3. \A c \in OrderType, s \in {"rejected", "gone"} :
            [c EXCEPT !.status = s] \in OrderType
      BY DEF OrderType
    <3> QED BY <3>1, <3>2, <3>3
  <2>2. PICK o \in Orders : ApiIssue(o) \/ ApiReject(o) \/ ApiPurge(o) \/ BecomeDue(o)
    BY <1>4 DEF Environment
  <2>3. PICK c \in OrderType : OrderStep(o, c)
    BY <2>1, <2>2 DEF ApiIssue, ApiReject, ApiPurge, BecomeDue
  <2> QED BY <2>3, OrderStepType
<1>5. CASE UNCHANGED vars
  BY <1>5 DEF vars, TypeOK
<1> QED BY <1>1, <1>2, <1>3, <1>4, <1>5 DEF Next

(* Every variable always holds a value of its kind, for any number of       *)
(* processes, names, orders and commands.                                   *)
THEOREM TypeCorrect == Spec => []TypeOK
BY TypeInit, TypeStep, PTL DEF Spec

-----------------------------------------------------------------------------
(* How the lock is kept. *)

(* A process that exits has no command and no lock; the others keep theirs. *)
LEMMA ExitAlone ==
  ASSUME TypeOK, RenewsAlone, NEW p \in Procs, Exit(p)
  PROVE  RenewsAlone'
<1> SUFFICES ASSUME NEW q \in Procs, cmd'[q] = "renew", pc'[q] # "lock"
             PROVE  lock' = q
  BY DEF RenewsAlone
<1>1. q # p
  BY DEF Exit, TypeOK
<1>2. cmd[q] = "renew" /\ pc[q] # "lock"
  BY <1>1 DEF Exit, Goto, TypeOK
<1> QED BY <1>1, <1>2 DEF RenewsAlone, Exit, Released

(* So does one that only moves on from a step other than "lock". *)
LEMMA MoveAlone ==
  ASSUME TypeOK, RenewsAlone, NEW p \in Procs, NEW s, Goto(p, s),
         pc[p] # "lock", UNCHANGED <<lock, cmd>>
  PROVE  RenewsAlone'
BY DEF TypeOK, RenewsAlone, Goto

LEMMA StartAlone ==
  ASSUME TypeOK, RenewsAlone, NEW p \in Procs, NEW c, NEW n, NEW r, NEW s,
         Start(p, c, n, r, s), c = "renew" => s = "lock"
  PROVE  RenewsAlone'
BY DEF TypeOK, RenewsAlone, Start, Goto, world

LEMMA AloneStep == TypeOK /\ RenewsAlone /\ [Next]_vars => RenewsAlone'
<1> SUFFICES ASSUME TypeOK, RenewsAlone, [Next]_vars PROVE RenewsAlone'
  OBVIOUS
<1>1. ASSUME NEW p \in Procs, Begin(p) \/ RenewRun(p) PROVE RenewsAlone'
  BY <1>1, StartAlone DEF Begin, RenewRun, Configure, Update, Issue, Import, Renew
<1>2. ASSUME NEW p \in Procs, Continue(p) PROVE RenewsAlone'
  <2>1. CASE RenewLock(p)
    <3>1. \A q \in Procs : cmd[q] = "renew" => pc[q] = "lock"
      BY <2>1, ProcsAssumption DEF RenewLock, Free, RenewsAlone
    <3>2. \A q \in Procs : q # p => pc'[q] = pc[q] /\ cmd'[q] = cmd[q]
      BY <2>1 DEF RenewLock, Goto, TypeOK
    <3> QED BY <2>1, <3>1, <3>2 DEF RenewLock, RenewsAlone
  <2>2. CASE RenewDiscover(p)
    BY <2>2, ExitAlone, MoveAlone DEF RenewDiscover
  <2>3. CASE UpdateDiscover(p)
    BY <2>3, ExitAlone, MoveAlone DEF UpdateDiscover, SaveThen
  <2>4. CASE RenewNext(p)
    BY <2>4, MoveAlone DEF RenewNext, world
  <2>5. CASE PostOrder(p) \/ PostReissue(p)
    BY <2>5, MoveAlone DEF PostOrder, PostReissue, SaveThen
  <2>6. CASE Finish(p) \/ Pause(p)
    BY <2>6, MoveAlone DEF Finish, Pause, SaveThen, world
  <2>7. CASE SaveRecord(p)
    BY <2>7, MoveAlone DEF SaveRecord, world
  <2>8. CASE SaveState(p)
    BY <2>8, ExitAlone, MoveAlone DEF SaveState
  <2>9. CASE RenewLocked(p) \/ RenewDone(p) \/ TimeOut(p) \/ Refused(p)
    BY <2>9, ExitAlone DEF RenewLocked, RenewDone, TimeOut, Refused
  <2> QED BY <1>2, <2>1, <2>2, <2>3, <2>4, <2>5, <2>6, <2>7, <2>8, <2>9 DEF Continue
<1>3. ASSUME NEW p \in Procs, Abort(p) PROVE RenewsAlone'
  BY <1>3, ExitAlone DEF Abort
<1>4. CASE Environment
  BY <1>4 DEF Environment, ApiIssue, ApiReject, ApiPurge, BecomeDue, OrderStep, RenewsAlone
<1>5. CASE UNCHANGED vars
  BY <1>5 DEF vars, RenewsAlone
<1> QED BY <1>1, <1>2, <1>3, <1>4, <1>5 DEF Next

(* At most one run of renew is ever past the lock, and it holds it, however *)
(* many are started and wherever they die.                                  *)
THEOREM RenewsAlwaysAlone == Spec => []RenewsAlone
<1>1. Init => RenewsAlone
  BY DEF Init, RenewsAlone
<1> QED BY <1>1, TypeCorrect, AloneStep, PTL DEF Spec

-----------------------------------------------------------------------------
(* What is listed is on disk. *)

(* ListedInv, without the types, for one process and for state.json. *)
SavesOrdersOf(p) ==
  /\ pc[p] = "idle" => after[p] = "idle" /\ todo[p] = {}
  /\ HasOrder(p) => mem[p].id # NoOrder
  /\ cmd[p] # "renew" \/ pc[p] \notin {"lock", "discover"} =>
       todo[p] \subseteq Managing(store[p].list)
ListedOf(s) == \A n \in Names : disk[n].id = NoOrder => s.list[n].id = NoOrder

LEMMA ListedParts ==
  /\ SavesOrders <=> \A p \in Procs : SavesOrdersOf(p)
  /\ ListedHasRecord <=> ListedOf(state) /\ \A p \in Procs : ListedOf(store[p])
BY DEF SavesOrders, SavesOrdersOf, HasOrder, ListedHasRecord, ListedOf

(* The other processes are not concerned by a step of p that leaves disk.   *)
LEMMA OthersListed ==
  ASSUME TypeOK, SavesOrders, ListedHasRecord, NEW p \in Procs,
         \A q \in Procs : q # p =>
           /\ pc'[q] = pc[q] /\ after'[q] = after[q] /\ mem'[q] = mem[q]
           /\ cmd'[q] = cmd[q] /\ todo'[q] = todo[q] /\ store'[q] = store[q],
         disk' = disk, ListedOf(state)', ListedOf(store[p])', SavesOrdersOf(p)'
  PROVE  SavesOrders' /\ ListedHasRecord'
<1>1. ASSUME NEW q \in Procs PROVE SavesOrdersOf(q)' /\ ListedOf(store[q])'
  <2>1. CASE q = p
    BY <2>1
  <2>2. CASE q # p
    BY <2>2, ListedParts DEF SavesOrdersOf, HasOrder, ListedOf, Managing
  <2> QED BY <2>1, <2>2
<1> QED BY <1>1 DEF SavesOrders, SavesOrdersOf, HasOrder, ListedHasRecord, ListedOf

LEMMA ExitListed ==
  ASSUME TypeOK, SavesOrders, ListedHasRecord, NEW p \in Procs, Exit(p),
         disk' = disk, state' = state \/ state' = store[p]
  PROVE  SavesOrders' /\ ListedHasRecord'
<1>1. \A q \in Procs : q # p =>
        /\ pc'[q] = pc[q] /\ after'[q] = after[q] /\ mem'[q] = mem[q]
        /\ cmd'[q] = cmd[q] /\ todo'[q] = todo[q] /\ store'[q] = store[q]
  BY DEF Exit, Goto, TypeOK
<1>2. ListedOf(state)'
  BY ListedParts DEF ListedOf
<1>3. ListedOf(store[p])'
  BY DEF Exit, TypeOK, ListedOf, NoStore, NoRec
<1>4. SavesOrdersOf(p)'
  BY DEF Exit, Goto, TypeOK, SavesOrdersOf, HasOrder, NoRec
<1> QED BY <1>1, <1>2, <1>3, <1>4, OthersListed

(* A command that starts has a copy of state.json, perhaps with another     *)
(* API key, and saves first only if it has an order.                        *)
LEMMA StartListed ==
  ASSUME TypeOK, SavesOrders, ListedHasRecord, NEW p \in Procs,
         NEW c, NEW n, NEW r \in RecType, NEW s \in Steps \ {"idle"},
         Start(p, c, n, r, s),
         NEW st \in StoreType, store' = [store EXCEPT ![p] = st], st.list = state.list,
         (c = "renew" /\ s = "lock") \/ UNCHANGED todo, \A q \in Procs : q # p => todo'[q] = todo[q],
         c = "renew" => s = "lock", s \in {"saverec", "wait"} => r.id # NoOrder
  PROVE  SavesOrders' /\ ListedHasRecord'
<1>1. \A q \in Procs : q # p =>
        /\ pc'[q] = pc[q] /\ after'[q] = after[q] /\ mem'[q] = mem[q]
        /\ cmd'[q] = cmd[q] /\ todo'[q] = todo[q] /\ store'[q] = store[q]
  BY DEF Start, Goto, TypeOK
<1>0. pc[p] = "idle" /\ after[p] = "idle" /\ todo[p] = {}
  BY DEF Start, SavesOrders
<1>2. disk' = disk /\ ListedOf(state)'
  BY ListedParts DEF ListedOf, Start, files
<1>3. ListedOf(store[p])'
  BY <1>2 DEF TypeOK, ListedOf, Start, files
<1>4. SavesOrdersOf(p)'
  BY <1>0 DEF Start, Goto, TypeOK, SavesOrdersOf, HasOrder, Steps
<1> QED BY <1>1, <1>2, <1>3, <1>4, OthersListed

LEMMA ListedInit == Init => SavesOrders /\ ListedHasRecord
<1> SUFFICES ASSUME Init PROVE SavesOrders /\ ListedHasRecord
  OBVIOUS
<1>1. SavesOrders
  BY DEF Init, SavesOrders, HasOrder
<1>2. ListedHasRecord
  BY DEF Init, ListedHasRecord, NoStore, NoRec
<1> QED BY <1>1, <1>2

LEMMA BeginListed ==
  ASSUME TypeOK, SavesOrders, ListedHasRecord, NEW p \in Procs, Begin(p) \/ RenewRun(p)
  PROVE  SavesOrders' /\ ListedHasRecord'
<1>1. ASSUME NEW k \in ApiKeys, Configure(p, k) PROVE SavesOrders' /\ ListedHasRecord'
  <2>1. [state EXCEPT !.api = k] \in StoreType /\ [state EXCEPT !.api = k].list = state.list
    BY DEF TypeOK, StoreType
  <2>2. PICK st \in StoreType :
          st.list = state.list /\ store' = [store EXCEPT ![p] = st]
    BY <1>1, <2>1 DEF Configure
  <2>3. Start(p, "configure", NoName, NoRec, "savestate") /\ UNCHANGED todo
    BY <1>1 DEF Configure
  <2>4. NoRec \in RecType /\ "savestate" \in Steps \ {"idle"}
    BY ConstantTypes DEF Steps
  <2>5. "savestate" \notin {"saverec", "wait"} /\ "configure" # "renew"
    OBVIOUS
  <2> QED BY <2>2, <2>3, <2>4, <2>5, StartListed
<1>2. ASSUME NEW n \in Names, NEW d \in Days, Update(p, n, d) \/ Issue(p, n, d)
      PROVE  SavesOrders' /\ ListedHasRecord'
  <2>1. [NoRec EXCEPT !.days = d] \in RecType /\ state \in StoreType
    BY ConstantTypes DEF NoRec, RecType, TypeOK
  <2> QED BY <1>2, <2>1, StartListed DEF Update, Issue, Steps
<1>3. ASSUME NEW n \in Names, NEW o \in Orders, Import(p, n, o)
      PROVE  SavesOrders' /\ ListedHasRecord'
  <2>1. /\ [id |-> o, pending |-> FALSE, days |-> orders[o].days] \in RecType
        /\ [id |-> o, pending |-> FALSE, days |-> orders[o].days].id # NoOrder
        /\ state \in StoreType
    BY ConstantTypes DEF TypeOK, RecType, OrderType
  <2>2. PICK r \in RecType : r.id # NoOrder /\ Start(p, "import", n, r, "saverec")
    BY <1>3, <2>1 DEF Import
  <2>3. store' = [store EXCEPT ![p] = state] /\ UNCHANGED todo
    BY <1>3 DEF Import
  <2>4. "saverec" \in Steps \ {"idle"} /\ "import" # "renew"
    BY DEF Steps
  <2> QED BY <2>1, <2>2, <2>3, <2>4, StartListed
<1>4. ASSUME NEW sel \in Selections, Renew(p, sel) PROVE SavesOrders' /\ ListedHasRecord'
  <2>1. state \in StoreType /\ \A q \in Procs : q # p => todo'[q] = todo[q]
    BY <1>4 DEF TypeOK, Renew
  <2> QED BY <1>4, <2>1, StartListed, ConstantTypes DEF Renew, Steps
<1> QED BY <1>1, <1>2, <1>3, <1>4 DEF Begin, RenewRun

LEMMA ContinueListed ==
  ASSUME TypeOK, SavesOrders, ListedHasRecord, NEW p \in Procs, Continue(p)
  PROVE  SavesOrders' /\ ListedHasRecord'
<1>0. SavesOrdersOf(p) /\ ListedOf(state) /\ ListedOf(store[p])
  BY ListedParts
<1>1. CASE RenewLock(p)
  <2>1. SavesOrdersOf(p)'
    BY <1>0, <1>1 DEF RenewLock, Goto, TypeOK, SavesOrdersOf, HasOrder
  <2> QED BY <1>0, <1>1, <2>1, OthersListed DEF RenewLock, Goto, TypeOK, ListedOf, files
<1>2. CASE RenewLocked(p) \/ RenewDone(p) \/ TimeOut(p) \/ Refused(p)
  BY <1>2, ExitListed DEF RenewLocked, RenewDone, TimeOut, Refused, files
<1>3. CASE RenewDiscover(p)
  <2>1. CASE Exit(p)
    BY <1>3, <2>1, ExitListed DEF RenewDiscover, files
  <2>2. CASE ~Exit(p)
    <3>1. PICK sel \in SUBSET Managing(Discovered) :
            /\ store' = [store EXCEPT ![p].list = Discovered]
            /\ todo' = [todo EXCEPT ![p] = sel] /\ Goto(p, "next")
            /\ UNCHANGED <<lock, after, cmd, arg, mem>>
            /\ UNCHANGED <<orders, aborts>> /\ UNCHANGED files
      BY <1>3, <2>2 DEF RenewDiscover, Managing, TypeOK
    <3>2. store'[p].list = Discovered
      BY <3>1 DEF TypeOK, StoreType
    <3>3. ListedOf(store[p])'
      BY <3>1, <3>2 DEF ListedOf, Discovered, files, NoRec
    <3>4. SavesOrdersOf(p)'
      BY <1>0, <3>1, <3>2 DEF SavesOrdersOf, HasOrder, Goto, TypeOK, Managing
    <3> QED BY <1>0, <3>1, <3>3, <3>4, OthersListed DEF Goto, TypeOK, ListedOf, files
  <2> QED BY <2>1, <2>2
<1>4. CASE UpdateDiscover(p)
  <2>1. CASE Exit(p)
    BY <1>4, <2>1, ExitListed DEF UpdateDiscover, files
  <2>2. CASE ~Exit(p)
    <3>1. /\ arg[p] \in Managing(Discovered) /\ pc[p] = "discover"
          /\ SaveThen(p, [disk[arg[p]] EXCEPT !.days = mem[p].days], "idle")
          /\ UNCHANGED <<lock, cmd, arg, store, todo>>
          /\ UNCHANGED <<orders, aborts>> /\ UNCHANGED files
      BY <1>4, <2>2 DEF UpdateDiscover
    <3>2. disk[arg[p]] \in RecType /\ disk[arg[p]].id # NoOrder
      BY <3>1 DEF Managing, Discovered, NoRec, TypeOK
    <3>3. mem'[p].id # NoOrder
      BY <3>1, <3>2 DEF SaveThen, TypeOK, RecType
    <3>4. cmd[p] = "update"
      BY <1>4 DEF UpdateDiscover
    <3>5. SavesOrdersOf(p)'
      BY <1>0, <3>1, <3>3, <3>4 DEF SavesOrdersOf, HasOrder, SaveThen, Goto, TypeOK
    <3> QED BY <1>0, <3>1, <3>5, OthersListed DEF SaveThen, Goto, TypeOK, ListedOf, files
  <2> QED BY <2>1, <2>2
<1>5. CASE RenewNext(p)
  <2>1. PICK n \in Names :
          /\ Target(p, n) /\ pc[p] = "next"
          /\ arg' = [arg EXCEPT ![p] = n]
          /\ mem' = [mem EXCEPT ![p] = store[p].list[n]]
          /\ todo' = [todo EXCEPT ![p] = @ \ {n}]
          /\ after' = [after EXCEPT ![p] = "next"]
          /\ Goto(p, Plan(store[p].list[n]))
          /\ UNCHANGED <<cmd, store>> /\ UNCHANGED files /\ UNCHANGED world
    BY <1>5 DEF RenewNext
  <2>2. mem'[p].id # NoOrder /\ todo'[p] \subseteq Managing(store[p].list)
    BY <1>0, <2>1 DEF SavesOrdersOf, HasOrder, Target, Managing, TypeOK
  <2>3. pc'[p] \in Steps \ {"idle"}
    <3>1. \A r : Plan(r) \in {"wait", "post", "saverec"} \/ r.pending \notin BOOLEAN
      BY DEF Plan, Unfinished, Renewable
    <3>2. store[p].list[n].pending \in BOOLEAN
      BY DEF TypeOK, StoreType, RecType
    <3> QED BY <2>1, <3>1, <3>2 DEF Goto, TypeOK, Steps
  <2>4. SavesOrdersOf(p)'
    BY <2>1, <2>2, <2>3 DEF SavesOrdersOf, HasOrder
  <2> QED BY <1>0, <2>1, <2>4, OthersListed DEF Goto, TypeOK, ListedOf, files
<1>6. CASE PostOrder(p) \/ PostReissue(p)
  <2>1. PICK r \in RecType : SaveThen(p, r, "wait") /\ r.id # NoOrder
    <3> mem[p] \in RecType
      BY DEF TypeOK
    <3>1. ASSUME NEW o \in Orders
          PROVE  LET r == [mem[p] EXCEPT !.id = o, !.pending = TRUE]
                 IN  r \in RecType /\ r.id # NoOrder
      BY ConstantTypes DEF RecType
    <3>2. CASE PostOrder(p)
      BY <3>1, <3>2 DEF PostOrder
    <3>3. CASE PostReissue(p)
      <4>1. mem[p].id # NoOrder
        BY <1>0, <3>3 DEF PostReissue, SavesOrdersOf, HasOrder
      <4>2. LET r == [mem[p] EXCEPT !.pending = TRUE]
            IN  r \in RecType /\ r.id # NoOrder
        BY <4>1 DEF RecType
      <4> QED BY <3>3, <4>2 DEF PostReissue
    <3> QED BY <1>6, <3>2, <3>3
  <2>2. mem'[p].id # NoOrder
    BY <2>1 DEF SaveThen, TypeOK
  <2>3. pc[p] = "post" /\ UNCHANGED <<cmd, store, todo>> /\ UNCHANGED files
    BY <1>6 DEF PostOrder, PostReissue
  <2>4. SavesOrdersOf(p)'
    BY <1>0, <2>1, <2>2, <2>3 DEF SavesOrdersOf, HasOrder, SaveThen, Goto, TypeOK
  <2> QED BY <1>0, <2>1, <2>3, <2>4, OthersListed DEF SaveThen, Goto, TypeOK, ListedOf, files
<1>7. CASE Finish(p) \/ Pause(p)
  <2>1. PICK r \in {[mem[p] EXCEPT !.pending = FALSE], mem[p]} :
          SaveThen(p, r, AfterOrder(p))
    BY <1>7 DEF Finish, Pause
  <2>2. pc[p] = "wait" /\ UNCHANGED <<cmd, store, todo>> /\ UNCHANGED files
    BY <1>7 DEF Finish, Pause
  <2>3. mem'[p].id # NoOrder
    BY <1>0, <2>1, <2>2 DEF SavesOrdersOf, HasOrder, SaveThen, TypeOK, RecType
  <2>4. SavesOrdersOf(p)'
    BY <1>0, <2>1, <2>2, <2>3 DEF SavesOrdersOf, HasOrder, SaveThen, Goto, TypeOK
  <2> QED BY <1>0, <2>1, <2>2, <2>4, OthersListed DEF SaveThen, Goto, TypeOK, ListedOf, files
<1>8. CASE SaveRecord(p)
  <2>1. /\ pc[p] = "saverec" /\ Goto(p, "savestate")
        /\ disk' = [disk EXCEPT ![arg[p]] = mem[p]]
        /\ store' = [store EXCEPT ![p].list[arg[p]] = mem[p]]
        /\ UNCHANGED <<state, after, cmd, arg, mem, todo>>
    BY <1>8 DEF SaveRecord
  <2>2. mem[p].id # NoOrder
    BY <1>0, <2>1 DEF SavesOrdersOf, HasOrder
  <2>3. \A n \in Names :
          /\ disk'[n].id = NoOrder => disk[n].id = NoOrder /\ n # arg[p]
          /\ n # arg[p] => store'[p].list[n] = store[p].list[n]
          /\ n = arg[p] => store'[p].list[n] = mem[p]
    BY <2>1, <2>2 DEF TypeOK, StoreType
  <2>4. ListedOf(state)' /\ ListedOf(store[p])'
    BY <1>0, <2>1, <2>3 DEF ListedOf
  <2>5. \A q \in Procs : q # p => pc'[q] = pc[q] /\ store'[q] = store[q]
    BY <2>1 DEF Goto, TypeOK
  <2>6. ASSUME NEW q \in Procs PROVE ListedOf(store[q])'
    <3>1. CASE q = p
      BY <2>4, <3>1
    <3>2. CASE q # p
      BY <2>3, <2>5, <3>2, ListedParts DEF ListedOf
    <3> QED BY <3>1, <3>2
  <2>7. Managing(store[p].list) \subseteq Managing(store'[p].list)
    BY <2>2, <2>3 DEF Managing
  <2>8. SavesOrdersOf(p)'
    BY <1>0, <2>1, <2>7 DEF SavesOrdersOf, HasOrder, Goto, TypeOK
  <2>9. ASSUME NEW q \in Procs, q # p PROVE SavesOrdersOf(q)'
    BY <2>1, <2>5, <2>9, ListedParts DEF SavesOrdersOf, HasOrder
  <2> QED BY <2>4, <2>6, <2>8, <2>9
          DEF SavesOrders, SavesOrdersOf, HasOrder, ListedHasRecord, ListedOf
<1>9. CASE SaveState(p)
  <2>1. CASE Exit(p)
    BY <1>9, <2>1, ExitListed DEF SaveState
  <2>2. CASE ~Exit(p)
    <3>1. /\ pc[p] = "savestate" /\ state' = store[p] /\ disk' = disk
          /\ after[p] # "idle" /\ Goto(p, after[p])
          /\ UNCHANGED <<after, cmd, mem, store, todo>>
      BY <1>9, <2>2 DEF SaveState
    <3>2. SavesOrdersOf(p)'
      BY <1>0, <3>1 DEF SavesOrdersOf, HasOrder, Goto, TypeOK
    <3>3. ListedOf(state)' /\ ListedOf(store[p])'
      BY <1>0, <3>1 DEF ListedOf
    <3> QED BY <3>1, <3>2, <3>3, OthersListed DEF Goto, TypeOK
  <2> QED BY <2>1, <2>2
<1> QED BY <1>1, <1>2, <1>3, <1>4, <1>5, <1>6, <1>7, <1>8, <1>9 DEF Continue

LEMMA ListedStep ==
  TypeOK /\ SavesOrders /\ ListedHasRecord /\ [Next]_vars
    => SavesOrders' /\ ListedHasRecord'
<1> SUFFICES ASSUME TypeOK, SavesOrders, ListedHasRecord, [Next]_vars
             PROVE  SavesOrders' /\ ListedHasRecord'
  OBVIOUS
<1>1. ASSUME NEW p \in Procs, Begin(p) \/ RenewRun(p) PROVE SavesOrders' /\ ListedHasRecord'
  BY <1>1, BeginListed
<1>2. ASSUME NEW p \in Procs, Continue(p) PROVE SavesOrders' /\ ListedHasRecord'
  BY <1>2, ContinueListed
<1>3. ASSUME NEW p \in Procs, Abort(p) PROVE SavesOrders' /\ ListedHasRecord'
  BY <1>3, ExitListed DEF Abort, files
<1>4. CASE Environment
  BY <1>4 DEF Environment, ApiIssue, ApiReject, ApiPurge, BecomeDue, OrderStep, files,
     SavesOrders, HasOrder, ListedHasRecord, Managing
<1>5. CASE UNCHANGED vars
  BY <1>5 DEF vars, SavesOrders, HasOrder, ListedHasRecord, Managing
<1> QED BY <1>1, <1>2, <1>3, <1>4, <1>5 DEF Next

(* Whatever commands run, overlap and die: what state.json lists, now or    *)
(* after any save still to come, has its certbro.json.                      *)
THEOREM ListedInvHolds == Spec => []ListedInv
BY ListedInit, ListedStep, TypeCorrect, PTL DEF Spec, ListedInv

(* state.json never lists a certificate without certbro.json, and no copy   *)
(* of it that is still to be written does, wherever a command was killed.   *)
THEOREM ListedAlwaysHasRecord == Spec => []ListedHasRecord
BY ListedInvHolds, PTL DEF ListedInv

-----------------------------------------------------------------------------
(* OnceInv, without types and lock; and its part about one process. *)
OnceRest ==
  /\ RunsRenew /\ OrdersPlaced /\ TargetsCurrent /\ WorksOnRecord
  /\ ReplacedIsSaved /\ RenewedOnce

OnceOf(p) ==
  /\ pc[p] \in {"next", "post", "wait", "saverec"} \/ after[p] # "idle" => cmd[p] = "renew"
  /\ cmd[p] = "renew" /\ pc[p] # "lock" /\ pc[p] # "discover" =>
       /\ pc[p] # "next" => arg[p] \notin todo[p]
       /\ \A n \in todo[p] : disk[n].id # NoOrder /\ store[p].list[n].id = disk[n].id
  /\ cmd[p] = "renew" =>
       /\ pc[p] \in {"post", "wait", "savestate"} =>
            arg[p] \in Names /\ mem[p].id # NoOrder /\ mem[p].id = disk[arg[p]].id
       /\ pc[p] = "saverec" =>
            /\ arg[p] \in Names /\ mem[p].id # NoOrder /\ ~Replaced(mem[p].id)
            /\ orders[mem[p].id].of = arg[p] /\ orders[mem[p].id].status # "none"

LEMMA OnceParts ==
  OnceRest <=> /\ \A p \in Procs : OnceOf(p)
               /\ OrdersPlaced /\ ReplacedIsSaved /\ RenewedOnce
BY DEF OnceRest, OnceOf, RunsRenew, TargetsCurrent, WorksOnRecord

LEMMA OncePartsNext ==
  ASSUME \A p \in Procs : OnceOf(p)', OrdersPlaced', ReplacedIsSaved', RenewedOnce'
  PROVE  OnceRest'
BY DEF OnceRest, OnceOf, RunsRenew, TargetsCurrent, WorksOnRecord

(* What process q has, and that a step leaves it alone. *)
Own(q) == <<pc[q], after[q], cmd[q], arg[q], mem[q], store[q], todo[q]>>

LEMMA OwnKept ==
  ASSUME NEW q \in Procs, UNCHANGED <<disk, orders>>, UNCHANGED Own(q), OnceOf(q)
  PROVE  OnceOf(q)'
BY DEF OnceOf, Own, Replaced

(* A step that writes no record and places no order keeps everything if it  *)
(* keeps what is said of its process, and does not give up a record to save.*)
LEMMA QuietStep ==
  ASSUME OnceRest, NEW p \in Procs, UNCHANGED <<disk, orders>>,
         \A q \in Procs : q # p => UNCHANGED Own(q),
         pc[p] # "saverec", OnceOf(p)'
  PROVE  OnceRest'
<1>1. \A q \in Procs : OnceOf(q)'
  BY OnceParts, OwnKept
<1>2. OrdersPlaced' /\ RenewedOnce'
  BY DEF OnceRest, OrdersPlaced, RenewedOnce
<1>3. ReplacedIsSaved'
  <2> SUFFICES ASSUME NEW n \in Names, (disk[n].id # NoOrder)', Replaced(disk[n].id)'
               PROVE  (\E q \in Procs : pc[q] = "saverec" /\ arg[q] = n)'
    BY DEF ReplacedIsSaved
  <2>1. PICK q \in Procs : pc[q] = "saverec" /\ arg[q] = n
    BY DEF OnceRest, ReplacedIsSaved, Replaced
  <2> QED BY <2>1 DEF Own
<1> QED BY <1>1, <1>2, <1>3, OncePartsNext

LEMMA ExitOnce ==
  ASSUME TypeOK, OnceRest, NEW p \in Procs, Exit(p), UNCHANGED <<disk, orders>>,
         pc[p] # "saverec"
  PROVE  OnceRest'
<1>1. \A q \in Procs : q # p => UNCHANGED Own(q)
  BY DEF Exit, Goto, TypeOK, Own
<1>2. OnceOf(p)'
  BY DEF Exit, Goto, TypeOK, OnceOf
<1> QED BY <1>1, <1>2, QuietStep

(* While p works and is not about to save, no recorded order is replaced.   *)
LEMMA NotReplaced ==
  ASSUME RenewsAlone, OnceRest, NEW p \in Procs,
         cmd[p] = "renew", pc[p] # "lock", pc[p] # "saverec",
         NEW n \in Names, disk[n].id # NoOrder
  PROVE  ~Replaced(disk[n].id)
<1> SUFFICES ASSUME Replaced(disk[n].id) PROVE FALSE
  OBVIOUS
<1>1. PICK q \in Procs : pc[q] = "saverec" /\ arg[q] = n
  BY DEF OnceRest, ReplacedIsSaved
<1>2. cmd[q] = "renew"
  BY <1>1 DEF OnceRest, RunsRenew
<1> QED BY <1>1, <1>2 DEF RenewsAlone

(* While p works, the other runs of renew wait for the lock. *)
LEMMA OthersWait ==
  ASSUME RenewsAlone, OnceRest, NEW p \in Procs, cmd[p] = "renew", pc[p] # "lock",
         NEW q \in Procs, q # p
  PROVE  /\ cmd[q] = "renew" => pc[q] = "lock"
         /\ pc[q] \notin {"next", "post", "wait", "saverec"}
BY DEF RenewsAlone, OnceRest, RunsRenew

LEMMA OnceInit == Init => OnceRest
<1> SUFFICES ASSUME Init PROVE OnceRest
  OBVIOUS
<1>1. ASSUME NEW p \in Procs PROVE OnceOf(p)
  BY <1>1 DEF Init, OnceOf
<1>2. \A o \in Orders : orders[o].from = NoOrder
  BY DEF Init, FirstOrder, Unused
<1>3. ASSUME NEW n \in Names, disk[n].id # NoOrder
      PROVE  orders[disk[n].id].of = n /\ orders[disk[n].id].status # "none"
  <2>1. n \in Managed /\ disk[n].id = Rank[n] /\ Rank[n] \in Orders
    BY <1>3, NamesAssumption DEF Init, FirstRec, NoRec
  <2>2. (CHOOSE m \in Managed : Rank[m] = Rank[n]) = n
    BY <2>1, NamesAssumption
  <2>3. orders[Rank[n]] = [Unused EXCEPT !.of = n, !.status = "issued"]
    BY <2>1, <2>2 DEF Init, FirstOrder
  <2> QED BY <2>1, <2>3 DEF Unused
<1>4. OrdersPlaced
  BY <1>2, <1>3 DEF OrdersPlaced
<1>5. ReplacedIsSaved /\ RenewedOnce
  BY <1>2 DEF ReplacedIsSaved, RenewedOnce, Replaced
<1> QED BY <1>1, <1>4, <1>5, OnceParts

LEMMA BeginOnce ==
  ASSUME RenewOnly, TypeOK, SavesOrders, OnceRest, NEW p \in Procs,
         Begin(p) \/ RenewRun(p)
  PROVE  OnceRest'
<1>1. CASE \E k \in ApiKeys : Configure(p, k)
  <2>1. PICK k \in ApiKeys : Configure(p, k)
    BY <1>1
  <2>2. \A q \in Procs : q # p => UNCHANGED Own(q)
    BY <2>1 DEF Configure, Start, Goto, TypeOK, Own
  <2>3. after'[p] = "idle" /\ pc'[p] = "savestate" /\ cmd'[p] = "configure"
    BY <2>1 DEF Configure, Start, Goto, TypeOK, SavesOrders
  <2>4. OnceOf(p)'
    BY <2>3 DEF OnceOf
  <2>5. UNCHANGED <<disk, orders>> /\ pc[p] # "saverec"
    BY <2>1 DEF Configure, Start, files, world
  <2> QED BY <2>2, <2>4, <2>5, QuietStep
<1>2. CASE \E sel \in Selections : Renew(p, sel)
  <2>1. PICK sel \in Selections : Renew(p, sel)
    BY <1>2
  <2>2. \A q \in Procs : q # p => UNCHANGED Own(q)
    BY <2>1 DEF Renew, Start, Goto, TypeOK, Own
  <2>3. after'[p] = "idle" /\ pc'[p] = "lock"
    BY <2>1 DEF Renew, Start, Goto, TypeOK, SavesOrders
  <2>4. OnceOf(p)'
    BY <2>3 DEF OnceOf
  <2>5. UNCHANGED <<disk, orders>> /\ pc[p] # "saverec"
    BY <2>1 DEF Renew, Start, files, world
  <2> QED BY <2>2, <2>4, <2>5, QuietStep
<1> QED BY <1>1, <1>2 DEF Begin, RenewRun, Update, Issue, Import, Start, RenewOnly

LEMMA ContinueOnce ==
  ASSUME RenewOnly, TypeOK, TypeOK', SavesOrders, RenewsAlone, OnceRest,
         NEW p \in Procs, Continue(p)
  PROVE  OnceRest'
<1>0. OnceOf(p)
  BY OnceParts
<1>1. CASE RenewLock(p)
  <2>1. UNCHANGED <<disk, orders>> /\ pc[p] # "saverec"
        /\ \A q \in Procs : q # p => UNCHANGED Own(q)
    BY <1>1 DEF RenewLock, Goto, TypeOK, Own, files
  <2>2. OnceOf(p)'
    BY <1>0, <1>1 DEF RenewLock, Goto, TypeOK, OnceOf
  <2> QED BY <2>1, <2>2, QuietStep
<1>2. CASE RenewLocked(p) \/ RenewDone(p) \/ TimeOut(p) \/ Refused(p)
  BY <1>2, ExitOnce DEF RenewLocked, RenewDone, TimeOut, Refused, files
<1>3. CASE RenewDiscover(p)
  <2>1. CASE Exit(p)
    BY <1>3, <2>1, ExitOnce DEF RenewDiscover, files
  <2>2. CASE ~Exit(p)
    <3>1. PICK sel \in SUBSET Managing(Discovered) :
            /\ store' = [store EXCEPT ![p].list = Discovered]
            /\ todo' = [todo EXCEPT ![p] = sel] /\ Goto(p, "next")
            /\ UNCHANGED <<lock, after, cmd, arg, mem>>
            /\ UNCHANGED <<orders, aborts>> /\ UNCHANGED files
            /\ pc[p] = "discover" /\ cmd[p] = "renew"
      BY <1>3, <2>2 DEF RenewDiscover, Managing, TypeOK
    <3>2. UNCHANGED <<disk, orders>> /\ \A q \in Procs : q # p => UNCHANGED Own(q)
      BY <3>1 DEF Goto, TypeOK, Own, files
    <3>3. store'[p].list = Discovered /\ todo'[p] = sel /\ pc'[p] = "next"
      BY <3>1 DEF Goto, TypeOK, StoreType
    <3>4. ASSUME NEW n \in sel
          PROVE  disk[n].id # NoOrder /\ Discovered[n].id = disk[n].id
      BY <3>4 DEF Managing, Discovered, NoRec
    <3>5. OnceOf(p)'
      BY <3>1, <3>2, <3>3, <3>4 DEF OnceOf
    <3> QED BY <3>1, <3>2, <3>5, QuietStep
  <2> QED BY <2>1, <2>2
<1>4. CASE UpdateDiscover(p)
  BY <1>4 DEF UpdateDiscover, TypeOK, RenewOnly
<1>5. CASE RenewNext(p)
  <2>1. PICK n \in Names :
          /\ Target(p, n) /\ pc[p] = "next"
          /\ arg' = [arg EXCEPT ![p] = n]
          /\ mem' = [mem EXCEPT ![p] = store[p].list[n]]
          /\ todo' = [todo EXCEPT ![p] = @ \ {n}]
          /\ after' = [after EXCEPT ![p] = "next"]
          /\ Goto(p, Plan(store[p].list[n]))
          /\ UNCHANGED <<cmd, store>> /\ UNCHANGED files /\ UNCHANGED world
    BY <1>5 DEF RenewNext
  <2>2. UNCHANGED <<disk, orders>> /\ \A q \in Procs : q # p => UNCHANGED Own(q)
    BY <2>1 DEF Goto, TypeOK, Own, files, world
  <2>3. /\ cmd[p] = "renew" /\ cmd'[p] = "renew" /\ n \in todo[p]
        /\ disk[n].id # NoOrder /\ store[p].list[n].id = disk[n].id
    BY <1>0, <2>1 DEF OnceOf, Target
  <2>4. /\ arg'[p] = n /\ todo'[p] = todo[p] \ {n} /\ mem'[p].id = disk[n].id
        /\ store'[p] = store[p]
    BY <2>1, <2>3 DEF TypeOK
  <2>5. ~Replaced(disk[n].id) /\ ~Replaced(disk[n].id)'
    BY <2>1, <2>2, <2>3, NotReplaced DEF Replaced
  <2>6. orders[disk[n].id].of = n /\ orders[disk[n].id].status # "none"
    BY <2>3 DEF OnceRest, OrdersPlaced
  <2>7. OnceOf(p)'
    BY <1>0, <2>1, <2>2, <2>3, <2>4, <2>5, <2>6 DEF OnceOf, Replaced
  <2> QED BY <2>1, <2>2, <2>7, QuietStep
<1>6. CASE PostOrder(p)
  <2>1. PICK o \in Orders :
          /\ orders[o].status = "none"
          /\ orders' = [orders EXCEPT ![o] =
               [of |-> arg[p], from |-> mem[p].id, days |-> mem[p].days,
                status |-> "open", due |-> FALSE]]
          /\ SaveThen(p, [mem[p] EXCEPT !.id = o, !.pending = TRUE], "wait")
    BY <1>6 DEF PostOrder
  <2>2. pc[p] = "post" /\ UNCHANGED <<cmd, arg, store, todo>> /\ UNCHANGED files
    BY <1>6 DEF PostOrder
  <2> DEFINE n == arg[p]
             f == mem[p].id
  <2>3. /\ cmd[p] = "renew" /\ n \in Names /\ f # NoOrder /\ f = disk[n].id
        /\ n \notin todo[p]
    BY <1>0, <2>2 DEF OnceOf
  <2>4. ~Replaced(f) /\ orders[f].of = n /\ orders[f].status # "none" /\ f # o
    BY <2>1, <2>2, <2>3, NotReplaced DEF OnceRest, OrdersPlaced
  <2>5. f \in Orders /\ o # NoOrder
    BY <2>3, ConstantTypes DEF TypeOK, RecType
  <2>6. /\ orders'[o].from = f /\ orders'[o].of = n /\ orders'[o].status = "open"
        /\ \A q \in Orders : q # o => orders'[q] = orders[q]
    BY <2>1 DEF TypeOK
  <2>7. /\ mem'[p].id = o /\ pc'[p] = "saverec" /\ after'[p] = "wait"
        /\ arg' = arg /\ cmd' = cmd /\ todo' = todo /\ store' = store /\ disk' = disk
    BY <2>1, <2>2 DEF SaveThen, Goto, TypeOK, RecType, files
  <2>8. \A q \in Procs : q # p => UNCHANGED Own(q)
    BY <2>1, <2>2 DEF SaveThen, Goto, TypeOK, Own
  <2>9. orders[o].from = NoOrder /\ ~Replaced(o)
    BY <2>1, <2>5 DEF OnceRest, OrdersPlaced, Replaced
  <2>10. \A q \in Orders : q # f => (Replaced(q)' <=> Replaced(q))
    BY <2>6, <2>9, ConstantTypes DEF Replaced
  <2>11. OnceOf(p)'
    <3>1. ~Replaced(mem[p].id)'
      BY <2>4, <2>5, <2>7, <2>9, <2>10 DEF Replaced
    <3> QED BY <1>0, <2>2, <2>3, <2>5, <2>6, <2>7, <3>1 DEF OnceOf
  <2>12. ASSUME NEW q \in Procs, q # p PROVE OnceOf(q)'
    <3>1. /\ cmd[q] = "renew" => pc[q] = "lock"
          /\ pc[q] \notin {"next", "post", "wait", "saverec"}
      BY <2>2, <2>3, <2>12, OthersWait
    <3> QED BY <2>8, <2>12, <3>1, OnceParts DEF OnceOf, Own
  <2>13. OrdersPlaced'
    BY <2>1, <2>4, <2>5, <2>6, <2>7 DEF OnceRest, OrdersPlaced, TypeOK, RecType
  <2>14. RenewedOnce'
    BY <2>4, <2>6, <2>9 DEF OnceRest, RenewedOnce, Replaced
  <2>15. ReplacedIsSaved'
    <3> SUFFICES ASSUME NEW m \in Names, disk[m].id # NoOrder, Replaced(disk[m].id)'
                 PROVE  (\E q \in Procs : pc[q] = "saverec" /\ arg[q] = m)'
      BY <2>7 DEF ReplacedIsSaved, Replaced
    <3>1. CASE m = n
      BY <2>7, <3>1
    <3>2. CASE m # n
      <4>1. disk[m].id # f /\ disk[m].id \in Orders
        BY <2>3, <3>2, ConstantTypes DEF OnceRest, OrdersPlaced, TypeOK, RecType
      <4>2. Replaced(disk[m].id)
        BY <2>7, <2>10, <4>1 DEF Replaced
      <4> QED BY <2>2, <2>3, <4>2, NotReplaced
    <3> QED BY <3>1, <3>2
  <2> QED BY <2>11, <2>12, <2>13, <2>14, <2>15, OncePartsNext
<1>10. CASE PostReissue(p)
  <2>1. /\ pc[p] = "post" /\ cmd[p] = "renew"
        /\ orders[mem[p].id].status \in {"issued", "rejected"}
        /\ orders' = [orders EXCEPT ![mem[p].id].status = "open"]
        /\ SaveThen(p, [mem[p] EXCEPT !.pending = TRUE], "wait")
        /\ UNCHANGED <<cmd, arg, store, todo>> /\ UNCHANGED files
    BY <1>10 DEF PostReissue
  <2>2. /\ arg[p] \in Names /\ mem[p].id # NoOrder
        /\ mem[p].id = disk[arg[p]].id /\ arg[p] \notin todo[p]
    BY <1>0, <2>1 DEF OnceOf
  <2>3. mem[p].id \in Orders
    BY <2>2 DEF TypeOK, RecType
  <2>4. \A q \in Orders :
          /\ orders'[q].from = orders[q].from /\ orders'[q].of = orders[q].of
          /\ orders'[q].status = "none" <=> orders[q].status = "none"
    BY <2>1, <2>3 DEF TypeOK, OrderType
  <2>5. \A i : Replaced(i)' <=> Replaced(i)
    BY <2>4 DEF Replaced
  <2>6. ~Replaced(mem[p].id) /\ orders[mem[p].id].of = arg[p]
    BY <2>1, <2>2, NotReplaced DEF OnceRest, OrdersPlaced
  <2>7. /\ mem'[p].id = mem[p].id /\ pc'[p] = "saverec" /\ after'[p] = "wait"
        /\ arg' = arg /\ cmd' = cmd /\ todo' = todo /\ store' = store /\ disk' = disk
    BY <2>1 DEF SaveThen, Goto, TypeOK, RecType, files
  <2>8. OnceOf(p)'
    BY <1>0, <2>1, <2>2, <2>3, <2>4, <2>5, <2>6, <2>7 DEF OnceOf
  <2>9. ASSUME NEW q \in Procs, q # p PROVE OnceOf(q)'
    <3>1. UNCHANGED Own(q)
      BY <2>1, <2>9 DEF SaveThen, Goto, TypeOK, Own
    <3>2. /\ cmd[q] = "renew" => pc[q] = "lock"
          /\ pc[q] \notin {"next", "post", "wait", "saverec"}
      BY <2>1, <2>9, OthersWait
    <3> QED BY <2>9, <3>1, <3>2, OnceParts DEF OnceOf, Own
  <2>10. OrdersPlaced'
    <3>1. \A m \in Names : disk[m].id \in Orders \cup {NoOrder}
      BY DEF TypeOK, RecType
    <3>2. \A q \in Orders : orders[q].from \in Orders \cup {NoOrder}
      BY DEF TypeOK, OrderType
    <3> QED BY <2>4, <2>7, <3>1, <3>2 DEF OnceRest, OrdersPlaced
  <2>11. RenewedOnce'
    BY <2>4 DEF OnceRest, RenewedOnce
  <2>12. ReplacedIsSaved'
    <3> SUFFICES ASSUME NEW m \in Names, disk[m].id # NoOrder, Replaced(disk[m].id)
                 PROVE  FALSE
      BY <2>5, <2>7 DEF ReplacedIsSaved
    <3> QED BY <2>1, NotReplaced
  <2> QED BY <2>8, <2>9, <2>10, <2>11, <2>12, OncePartsNext
<1>7. CASE Finish(p) \/ Pause(p)
  <2>1. PICK r \in {[mem[p] EXCEPT !.pending = FALSE], mem[p]} :
          SaveThen(p, r, AfterOrder(p))
    BY <1>7 DEF Finish, Pause
  <2>2. /\ pc[p] = "wait" /\ UNCHANGED <<cmd, arg, store, todo>>
        /\ UNCHANGED files /\ UNCHANGED world
    BY <1>7 DEF Finish, Pause
  <2>3. UNCHANGED <<disk, orders>> /\ \A q \in Procs : q # p => UNCHANGED Own(q)
    BY <2>1, <2>2 DEF SaveThen, Goto, TypeOK, Own, files, world
  <2>4. /\ cmd[p] = "renew" /\ arg[p] \in Names /\ mem[p].id # NoOrder
        /\ mem[p].id = disk[arg[p]].id /\ arg[p] \notin todo[p]
    BY <1>0, <2>2 DEF OnceOf
  <2>5. mem'[p].id = mem[p].id /\ pc'[p] = "saverec"
    BY <2>1 DEF SaveThen, Goto, TypeOK, RecType
  <2>6. ~Replaced(mem[p].id) /\ ~Replaced(mem[p].id)'
    BY <2>2, <2>3, <2>4, <2>5, NotReplaced DEF Replaced
  <2>7. orders[mem[p].id].of = arg[p] /\ orders[mem[p].id].status # "none"
    BY <2>4 DEF OnceRest, OrdersPlaced
  <2>8. OnceOf(p)'
    BY <1>0, <2>2, <2>3, <2>4, <2>5, <2>6, <2>7 DEF OnceOf, Replaced
  <2> QED BY <2>2, <2>3, <2>8, QuietStep
<1>8. CASE SaveRecord(p)
  <2>1. /\ pc[p] = "saverec" /\ Goto(p, "savestate")
        /\ disk' = [disk EXCEPT ![arg[p]] = mem[p]]
        /\ store' = [store EXCEPT ![p].list[arg[p]] = mem[p]]
        /\ UNCHANGED <<after, cmd, arg, mem, todo, orders>>
    BY <1>8 DEF SaveRecord, world
  <2> DEFINE n == arg[p]
             o == mem[p].id
  <2>2. /\ cmd[p] = "renew" /\ n \in Names /\ o # NoOrder /\ ~Replaced(o)
        /\ orders[o].of = n /\ orders[o].status # "none" /\ n \notin todo[p]
    BY <1>0, <2>1 DEF OnceOf
  <2>3. /\ disk'[n].id = o /\ pc'[p] = "savestate"
        /\ \A m \in Names : m # n => disk'[m] = disk[m]
    BY <2>1, <2>2 DEF Goto, TypeOK
  <2>4. \A m \in Names : m # n => store'[p].list[m] = store[p].list[m]
    BY <2>1 DEF TypeOK, StoreType
  <2>5. \A q \in Procs : q # p => UNCHANGED Own(q)
    BY <2>1 DEF Goto, TypeOK, Own
  <2>6. OnceOf(p)'
    <3>1. todo[p] \subseteq Names
      BY DEF TypeOK
    <3> QED BY <1>0, <2>1, <2>2, <2>3, <2>4, <3>1 DEF OnceOf
  <2>7. ASSUME NEW q \in Procs, q # p PROVE OnceOf(q)'
    <3>1. /\ cmd[q] = "renew" => pc[q] = "lock"
          /\ pc[q] \notin {"next", "post", "wait", "saverec"}
      BY <2>1, <2>2, <2>7, OthersWait
    <3> QED BY <2>5, <2>7, <3>1, OnceParts DEF OnceOf, Own
  <2>8. OrdersPlaced'
    BY <2>1, <2>2, <2>3 DEF OnceRest, OrdersPlaced
  <2>9. RenewedOnce'
    BY <2>1 DEF OnceRest, RenewedOnce
  <2>10. ReplacedIsSaved'
    <3> SUFFICES ASSUME NEW m \in Names, disk'[m].id # NoOrder, Replaced(disk'[m].id)
                 PROVE  (\E q \in Procs : pc[q] = "saverec" /\ arg[q] = m)'
      BY <2>1 DEF ReplacedIsSaved, Replaced
    <3>1. m # n
      BY <2>2, <2>3
    <3>2. PICK q \in Procs : pc[q] = "saverec" /\ arg[q] = m
      BY <2>3, <3>1 DEF OnceRest, ReplacedIsSaved
    <3>3. q # p
      BY <3>1, <3>2
    <3> QED BY <2>1, <2>2, <3>2, <3>3, OthersWait
  <2> QED BY <2>6, <2>7, <2>8, <2>9, <2>10, OncePartsNext
<1>9. CASE SaveState(p)
  <2>1. CASE Exit(p)
    BY <1>9, <2>1, ExitOnce DEF SaveState
  <2>2. CASE ~Exit(p)
    <3>1. /\ pc[p] = "savestate" /\ disk' = disk /\ orders' = orders
          /\ after[p] # "idle" /\ Goto(p, after[p])
          /\ UNCHANGED <<after, cmd, arg, mem, store, todo>>
      BY <1>9, <2>2 DEF SaveState
    <3>2. \A q \in Procs : q # p => UNCHANGED Own(q)
      BY <3>1 DEF Goto, TypeOK, Own
    <3>3. pc'[p] \in {"wait", "next"}
      BY <3>1 DEF Goto, TypeOK
    <3>4. OnceOf(p)'
      BY <1>0, <3>1, <3>3 DEF OnceOf
    <3> QED BY <3>1, <3>2, <3>4, QuietStep
  <2> QED BY <2>1, <2>2
<1> QED BY <1>1, <1>2, <1>3, <1>4, <1>5, <1>6, <1>7, <1>8, <1>9, <1>10 DEF Continue

LEMMA OnceStep ==
  ASSUME RenewOnly, TypeOK, TypeOK', SavesOrders, RenewsAlone, OnceRest, [Next]_vars
  PROVE  OnceRest'
<1>1. ASSUME NEW p \in Procs, Begin(p) \/ RenewRun(p) PROVE OnceRest'
  BY <1>1, BeginOnce
<1>2. ASSUME NEW p \in Procs, Continue(p) PROVE OnceRest'
  BY <1>2, ContinueOnce
<1>3. ASSUME NEW p \in Procs, Abort(p) PROVE OnceRest'
  BY <1>3, ExitOnce DEF Abort, RenewOnly, files
<1>4. ASSUME NEW o \in Orders, ApiIssue(o) \/ ApiReject(o) \/ ApiPurge(o) \/ BecomeDue(o)
      PROVE  OnceRest'
  <2>1. /\ orders'[o].from = orders[o].from /\ orders'[o].of = orders[o].of
        /\ orders[o].status # "none" /\ orders'[o].status # "none"
        /\ \A q \in Orders : q # o => orders'[q] = orders[q]
    <3>1. PICK c \in {[orders[o] EXCEPT !.status = "issued", !.due = FALSE],
                      [orders[o] EXCEPT !.status = "rejected"],
                      [orders[o] EXCEPT !.status = "gone"],
                      [orders[o] EXCEPT !.due = TRUE]} : OrderStep(o, c)
      BY <1>4 DEF ApiIssue, ApiReject, ApiPurge, BecomeDue
    <3>2. orders[o] \in OrderType /\ orders[o].status \in {"open", "issued"}
      BY <1>4 DEF ApiIssue, ApiReject, ApiPurge, BecomeDue, TypeOK
    <3>3. c.from = orders[o].from /\ c.of = orders[o].of /\ c.status # "none"
      BY <3>1, <3>2 DEF OrderType
    <3> QED BY <3>1, <3>2, <3>3 DEF OrderStep, TypeOK
  <2>2. \A q \in Orders :
          /\ orders'[q].from = orders[q].from /\ orders'[q].of = orders[q].of
          /\ orders'[q].status = "none" <=> orders[q].status = "none"
    BY <2>1
  <2>3. /\ UNCHANGED <<pc, after, cmd, arg, mem, store, todo, disk>>
        /\ \A i : Replaced(i)' <=> Replaced(i)
    BY <1>4, <2>2 DEF ApiIssue, ApiReject, ApiPurge, BecomeDue, OrderStep, files, Replaced
  <2>4. \A i \in Orders \cup {NoOrder} : i # NoOrder => i \in Orders
    OBVIOUS
  <2>5. ASSUME NEW q \in Procs PROVE OnceOf(q)'
    <3>1. mem[q].id \in Orders \cup {NoOrder}
      BY DEF TypeOK, RecType
    <3> QED BY <2>2, <2>3, <3>1, OnceParts DEF OnceOf
  <2>6. OrdersPlaced'
    <3>1. \A m \in Names : disk[m].id \in Orders \cup {NoOrder}
      BY DEF TypeOK, RecType
    <3>2. \A q \in Orders : orders[q].from \in Orders \cup {NoOrder}
      BY DEF TypeOK, OrderType
    <3> QED BY <2>2, <2>3, <3>1, <3>2 DEF OnceRest, OrdersPlaced
  <2>7. RenewedOnce' /\ ReplacedIsSaved'
    BY <2>2, <2>3 DEF OnceRest, RenewedOnce, ReplacedIsSaved
  <2> QED BY <2>5, <2>6, <2>7, OncePartsNext
<1>5. CASE UNCHANGED vars
  BY <1>5 DEF vars, OnceRest, RunsRenew, OrdersPlaced, TargetsCurrent, WorksOnRecord,
     ReplacedIsSaved, RenewedOnce, Replaced
<1> QED BY <1>1, <1>2, <1>3, <1>4, <1>5 DEF Next, Environment

(* Runs of renew that overlap, are interrupted or repeated never place two  *)
(* orders for the same one, with any number of processes, certificates and  *)
(* orders, as long as only renew writes records and no answer is lost.      *)
THEOREM OnceInvHolds ==
  ASSUME RenewOnly PROVE Spec => []OnceInv
<1>1. Init => OnceRest
  BY OnceInit
<1>2. TypeOK /\ TypeOK' /\ SavesOrders /\ RenewsAlone /\ OnceRest /\ [Next]_vars => OnceRest'
  BY OnceStep
<1>3. Spec => [](TypeOK /\ SavesOrders /\ RenewsAlone /\ ListedInv)
  BY ListedInvHolds, RenewsAlwaysAlone, PTL DEF ListedInv
<1>4. Spec => []OnceRest
  BY <1>1, <1>2, <1>3, PTL DEF Spec
<1>5. ListedInv /\ RenewsAlone /\ OnceRest => OnceInv
  BY DEF OnceInv, OnceRest
<1> QED BY <1>3, <1>4, <1>5, PTL

(* Runs of renew, one after the other or at the same time, killed at any    *)
(* step but the one that records a placed order, never replace one order    *)
(* by two.                                                                  *)
THEOREM OrdersRenewedOnce ==
  ASSUME RenewOnly PROVE Spec => []RenewedOnce
<1>1. OnceInv => RenewedOnce
  BY DEF OnceInv
<1> QED BY <1>1, OnceInvHolds, PTL
=============================================================================
