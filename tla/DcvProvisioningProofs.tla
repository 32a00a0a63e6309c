------------------------ MODULE DcvProvisioningProofs ------------------------
(***************************************************************************)
(* Proofs about DcvProvisioning, for any number of processes, orders and   *)
(* records: certbro never touches a CNAME of the customer, its own do not  *)
(* pile up, and a run that waits has left the value the CA looks for.      *)
(***************************************************************************)
EXTENDS DcvProvisioning, FiniteSetTheorems, TLAPS

(* TypeOK by the groups of the variables; an answer that says "issued" is   *)
(* about the order at hand.                                                 *)
LocalType ==
  /\ pc \in [Procs -> Steps] /\ at \in [Procs -> Orders \cup {NoOrder}]
  /\ \A p \in Procs : pc[p] = "idle" <=> at[p] = NoOrder
  /\ todo \in [Procs -> SUBSET Orders] /\ \A p \in Procs : at[p] \notin todo[p]
  /\ cache \in [Procs -> SUBSET Values] /\ queue \in [Procs -> SUBSET Values]
  /\ asked \in [Procs -> BOOLEAN] /\ ready \in [Procs -> BOOLEAN]
  /\ stale \in [Procs -> SUBSET Ids]
  /\ \A p \in Procs : ready[p] => at[p] \in issued

CaType == settled \subseteq issued /\ issued \subseteq exposed /\ exposed \subseteq Orders

CountType ==
  /\ failures \in Nat /\ edits \in Nat /\ failures + edits <= MaxMishaps
  /\ begun \subseteq Procs \ Resuming

ZoneType ==
  /\ records \subseteq RecordType /\ \A r, s \in records : r.id = s.id => r = s
  /\ writer \in Procs \cup {"nobody", "customer"}

TypeInv == LocalType /\ CaType /\ CountType /\ ZoneType

LEMMA TypeParts == TypeInv => TypeOK /\ \A p \in Procs : ready[p] => at[p] \in issued
BY DEF TypeInv, TypeOK, LocalType, CaType, CountType, ZoneType

LEMMA UnchangedLocal ==
  ASSUME LocalType, UNCHANGED <<pc, local>>, issued \subseteq issued'
  PROVE  LocalType'
BY DEF LocalType, local

LEMMA UnchangedCa == ASSUME CaType, UNCHANGED ca PROVE CaType'
BY DEF CaType, ca

LEMMA UnchangedCount == ASSUME CountType, UNCHANGED count PROVE CountType'
BY DEF CountType, count

LEMMA UnchangedZone == ASSUME ZoneType, UNCHANGED zone PROVE ZoneType'
BY DEF ZoneType, zone

(* How the processes move on: they exit, visit an order, go on with the     *)
(* values of an answer.                                                     *)
LEMMA ExitType ==
  ASSUME LocalType, CaType, NEW p \in Procs, Exit(p), issued' = issued
  PROVE  LocalType'
<1>1. /\ pc' = [pc EXCEPT ![p] = "idle"] /\ at' = [at EXCEPT ![p] = NoOrder]
      /\ todo' = [todo EXCEPT ![p] = {}] /\ ready' = [ready EXCEPT ![p] = FALSE]
  BY DEF Exit, Goto
<1>2. /\ cache' = [cache EXCEPT ![p] = {}] /\ queue' = [queue EXCEPT ![p] = {}]
      /\ asked' = [asked EXCEPT ![p] = FALSE] /\ stale' = [stale EXCEPT ![p] = {}]
  BY DEF Exit
<1> QED BY <1>1, <1>2, OrdersAssumption DEF LocalType, Steps

(* An order is at hand, and nothing is known of it yet. *)
LEMMA VisitType ==
  ASSUME LocalType, NEW p \in Procs, NEW orders \in SUBSET Orders, Visit(p, orders),
         ready' \in [Procs -> BOOLEAN], asked' \in [Procs -> BOOLEAN],
         ~ready'[p], \A q \in Procs \ {p} : ready'[q] = ready[q],
         UNCHANGED <<cache, queue, stale, issued>>
  PROVE  LocalType'
<1>1. PICK o \in orders :
        at' = [at EXCEPT ![p] = o] /\ todo' = [todo EXCEPT ![p] = orders \ {o}]
  BY DEF Visit
<1>2. pc' = [pc EXCEPT ![p] = "get"]
  BY DEF Visit, Goto
<1> QED BY <1>1, <1>2, OrdersAssumption DEF LocalType, Steps

LEMMA EnsureType ==
  ASSUME LocalType, NEW p \in Procs, pc[p] # "idle",
         NEW vs \in SUBSET Values, NEW published \in SUBSET Values,
         Ensure(p, vs, published), UNCHANGED <<at, todo, stale, issued>>,
         asked' \in [Procs -> BOOLEAN], ready' \in [Procs -> BOOLEAN],
         ready'[p] => at[p] \in issued, \A q \in Procs \ {p} : ready'[q] = ready[q]
  PROVE  LocalType'
<1>1. /\ queue' = [queue EXCEPT ![p] = vs \ published]
      /\ cache' = [cache EXCEPT ![p] = published]
      /\ pc' \in [Procs -> Steps] /\ pc'[p] # "idle"
      /\ \A q \in Procs \ {p} : pc'[q] = pc[q]
  BY DEF Ensure, Goto, LocalType, Steps
<1> QED BY <1>1 DEF LocalType

LEMMA ShownType == ASSUME NEW o \in Orders PROVE Shown(o) \in SUBSET Values
BY OrdersAssumption DEF Shown

LEMMA AtHandType ==
  ASSUME LocalType, NEW p \in Procs, pc[p] # "idle"
  PROVE  at[p] \in Orders /\ AtHand(p) \in Values
BY OrdersAssumption DEF LocalType, AtHand, NextValue

LEMMA PublishedType ==
  ASSUME LocalType, NEW p \in Procs, pc[p] # "idle", Published(p), issued' = issued
  PROVE  LocalType'
<1>1. cache[p] \cup {AtHand(p)} \in SUBSET Values /\ queue[p] \in SUBSET Values
  BY AtHandType DEF LocalType
<1>2. Ensure(p, queue[p], cache[p] \cup {AtHand(p)}) /\ UNCHANGED <<at, todo, asked, ready, stale>>
  BY DEF Published
<1> QED BY <1>1, <1>2, EnsureType DEF LocalType

LEMMA NextOrderType ==
  ASSUME LocalType, CaType, NEW p \in Procs, NextOrder(p), issued' = issued
  PROVE  LocalType'
<1>1. CASE todo[p] = {}
  BY <1>1, ExitType DEF NextOrder
<1>2. CASE todo[p] # {}
  <2>1. /\ Visit(p, todo[p])
        /\ asked' = [asked EXCEPT ![p] = FALSE] /\ ready' = [ready EXCEPT ![p] = FALSE]
        /\ UNCHANGED <<cache, queue, stale>>
    BY <1>2 DEF NextOrder
  <2>2. todo[p] \in SUBSET Orders
    BY DEF LocalType
  <2> QED BY <2>1, <2>2, VisitType DEF LocalType
<1> QED BY <1>1, <1>2

LEMMA GotoType ==
  ASSUME LocalType, NEW p \in Procs, pc[p] # "idle", NEW s \in Steps \ {"idle"}, Goto(p, s),
         UNCHANGED <<at, todo, cache, queue, ready, issued>>,
         asked' \in [Procs -> BOOLEAN], stale' \in [Procs -> SUBSET Ids]
  PROVE  LocalType'
BY DEF LocalType, Goto

(* A record with an unused id is one of its own. *)
LEMMA NewRecordType ==
  ASSUME ZoneType, NEW i \in Ids, NewId(i), NEW v \in Values, NEW own \in BOOLEAN,
         records' = records \cup {[id |-> i, data |-> v, own |-> own]},
         writer' \in Procs \cup {"customer"}
  PROVE  ZoneType'
<1>1. \A r \in records : r.id # i
  BY DEF NewId, Unused
<1> QED BY <1>1 DEF ZoneType, RecordType

LEMMA RemovedType ==
  ASSUME ZoneType, records' \subseteq records, writer' \in Procs \cup {"customer"}
  PROVE  ZoneType'
BY DEF ZoneType

LEMMA TypeInit == Init => TypeInv
BY OrdersAssumption, BoundsAssumption
   DEF Init, TypeInv, LocalType, CaType, CountType, ZoneType, RecordType, Steps

(* Every step of a process keeps the types ... *)
LEMMA TypeProcessStep ==
  ASSUME TypeInv, NEW p \in Procs, ProcessStep(p)
  PROVE  TypeInv'
<1> USE DEF TypeInv
<1>1. ASSUME NEW work \in Worklists[p], Start(p, work) PROVE TypeInv'
  <2>1. Visit(p, work \ settled) /\ UNCHANGED <<asked, ready, cache, queue, stale>>
    BY <1>1 DEF Start
  <2>2. pc[p] = "idle" /\ UNCHANGED zone /\ UNCHANGED ca /\ UNCHANGED <<failures, edits>>
    BY <1>1 DEF Start
  <2>3. ~ready[p] /\ issued' = issued
    BY <2>2, OrdersAssumption DEF LocalType, CaType, ca
  <2>4. work \ settled \in SUBSET Orders
    BY OrdersAssumption
  <2>5. LocalType'
    BY <2>1, <2>3, <2>4, VisitType DEF LocalType
  <2>6. CountType'
    BY <1>1 DEF CountType, Start
  <2> QED BY <2>2, <2>5, <2>6, UnchangedCa, UnchangedZone
<1>2. CASE GetOrder(p)
  <2>1. /\ pc[p] = "get" /\ UNCHANGED <<at, todo, stale>> /\ UNCHANGED zone /\ UNCHANGED ca /\ UNCHANGED count
        /\ asked' = [asked EXCEPT ![p] = at[p] \in exposed]
        /\ ready' = [ready EXCEPT ![p] = at[p] \in issued]
        /\ Ensure(p, IF at[p] \in exposed THEN Shown(at[p]) ELSE {}, cache[p])
    BY <1>2 DEF GetOrder
  <2>2. (IF at[p] \in exposed THEN Shown(at[p]) ELSE {}) \in SUBSET Values
    BY <2>1, AtHandType, ShownType
  <2>3. LocalType'
    <3> DEFINE vs == IF at[p] \in exposed THEN Shown(at[p]) ELSE {}
    <3>1. /\ cache[p] \in SUBSET Values /\ issued' = issued /\ pc[p] # "idle"
          /\ asked' \in [Procs -> BOOLEAN] /\ ready' \in [Procs -> BOOLEAN]
          /\ ready'[p] => at[p] \in issued
          /\ \A q \in Procs \ {p} : ready'[q] = ready[q]
      BY <2>1 DEF LocalType, ca
    <3>2. vs \in SUBSET Values /\ Ensure(p, vs, cache[p]) /\ UNCHANGED <<at, todo, stale>>
      BY <2>1, <2>2
    <3> HIDE DEF vs
    <3> QED BY <3>1, <3>2, EnsureType
  <2> QED BY <2>1, <2>3, UnchangedCa, UnchangedZone, UnchangedCount
<1>3. CASE LookupFails(p)
  <2>1. LocalType'
    BY <1>3, GotoType DEF LookupFails, local, ca, Steps, LocalType
  <2>2. CountType'
    BY <1>3, BoundsAssumption DEF LookupFails, CountType, Mishap
  <2> QED BY <1>3, <2>1, <2>2, UnchangedCa, UnchangedZone DEF LookupFails
<1>4. CASE Lookup(p)
  <2>1. pc[p] = "lookup" /\ UNCHANGED zone /\ UNCHANGED ca /\ UNCHANGED count /\ issued' = issued
    BY <1>4 DEF Lookup, ca
  <2>2. CASE Published(p)
    BY <2>1, <2>2, PublishedType, UnchangedCa, UnchangedZone, UnchangedCount
  <2>3. CASE Exit(p)
    BY <2>1, <2>3, ExitType, UnchangedCa, UnchangedZone, UnchangedCount
  <2>4. ASSUME stale' = [stale EXCEPT ![p] = {r.id : r \in {r \in Found : Own(r)}}],
               NEW s \in {"create", "delete"}, Goto(p, s),
               UNCHANGED <<at, todo, cache, asked, ready, queue>>
        PROVE  TypeInv'
    <3>1. {r.id : r \in {r \in Found : Own(r)}} \in SUBSET Ids
      BY DEF ZoneType, RecordType, Found
    <3>2. LocalType'
      BY <2>1, <2>4, <3>1, GotoType DEF LocalType, Steps
    <3> QED BY <2>1, <3>2, UnchangedCa, UnchangedZone, UnchangedCount
  <2> QED BY <1>4, <2>2, <2>3, <2>4 DEF Lookup
<1>5. CASE DeleteStale(p)
  <2>1. PICK r \in records :
          /\ records' = records \ {r} /\ writer' = p
          /\ stale' = [stale EXCEPT ![p] = @ \ {r.id}]
          /\ Goto(p, IF stale[p] = {r.id} THEN "create" ELSE "delete")
    BY <1>5 DEF DeleteStale
  <2>2. /\ pc[p] = "delete" /\ UNCHANGED <<at, todo, cache, asked, ready, queue>> /\ UNCHANGED ca /\ UNCHANGED count
        /\ issued' = issued
    BY <1>5 DEF DeleteStale, ca
  <2>3. LocalType'
    BY <2>1, <2>2, GotoType DEF LocalType, Steps
  <2> QED BY <2>1, <2>2, <2>3, RemovedType, UnchangedCa, UnchangedCount
<1>6. CASE DeleteMissing(p) \/ CreateRefused(p) \/ TimeOut(p)
  <2>1. Exit(p) /\ UNCHANGED zone /\ UNCHANGED ca /\ UNCHANGED count /\ issued' = issued
    BY <1>6 DEF DeleteMissing, CreateRefused, TimeOut, ca
  <2> QED BY <2>1, ExitType, UnchangedCa, UnchangedZone, UnchangedCount
<1>7. CASE Create(p)
  <2>1. /\ pc[p] = "create" /\ Published(p) /\ UNCHANGED ca /\ UNCHANGED count /\ issued' = issued
        /\ writer' = p
    BY <1>7 DEF Create, ca
  <2>2. LocalType' /\ AtHand(p) \in Values
    BY <2>1, PublishedType, AtHandType
  <2>3. PICK i \in Ids :
          NewId(i) /\ records' = records \cup {[id |-> i, data |-> AtHand(p), own |-> TRUE]}
    BY <1>7 DEF Create
  <2>4. ZoneType'
    BY <2>1, <2>2, <2>3, NewRecordType
  <2> QED BY <2>1, <2>2, <2>4, UnchangedCa, UnchangedCount
<1>8. CASE Deliver(p)
  <2>1. /\ ready[p] /\ settled' = settled \cup {at[p]} /\ UNCHANGED <<exposed, issued>> /\ UNCHANGED zone /\ UNCHANGED count
        /\ NextOrder(p)
    BY <1>8 DEF Deliver
  <2>2. CaType'
    BY <2>1 DEF CaType, LocalType
  <2> QED BY <2>1, <2>2, NextOrderType, UnchangedZone, UnchangedCount
<1>9. CASE Pause(p)
  <2>1. NextOrder(p) /\ UNCHANGED zone /\ UNCHANGED ca /\ UNCHANGED count /\ issued' = issued
    BY <1>9 DEF Pause, ca
  <2> QED BY <2>1, NextOrderType, UnchangedCa, UnchangedZone, UnchangedCount
<1>10. CASE PollAgain(p)
  <2>1. /\ pc[p] = "check" /\ Goto(p, "get") /\ asked' = [asked EXCEPT ![p] = FALSE]
        /\ UNCHANGED <<at, todo, cache, ready, queue, stale>> /\ UNCHANGED zone /\ UNCHANGED ca /\ UNCHANGED count
        /\ issued' = issued
    BY <1>10 DEF PollAgain, ca
  <2>2. LocalType'
    BY <2>1, GotoType DEF LocalType, Steps
  <2> QED BY <2>1, <2>2, UnchangedCa, UnchangedZone, UnchangedCount
<1>11. CASE Abort(p)
  <2>1. Exit(p) /\ UNCHANGED zone /\ UNCHANGED ca /\ issued' = issued
    BY <1>11 DEF Abort, ca
  <2>2. CountType'
    BY <1>11, BoundsAssumption DEF Abort, CountType, Mishap
  <2> QED BY <2>1, <2>2, ExitType, UnchangedCa, UnchangedZone
<1> QED
  BY <1>1, <1>2, <1>3, <1>4, <1>5, <1>6, <1>7, <1>8, <1>9, <1>10, <1>11
  DEF ProcessStep, Run, Continue

(* ... and so does every step of the provider, the CA and the customer. *)
LEMMA TypeEnvironment ==
  ASSUME TypeInv, Environment
  PROVE  TypeInv'
<1> USE DEF TypeInv
<1>1. ASSUME NEW o \in Orders, ApiExpose(o) \/ CaValidate(o) PROVE TypeInv'
  <2>1. UNCHANGED zone /\ UNCHANGED count /\ UNCHANGED <<pc, local>> /\ issued \subseteq issued'
    BY <1>1 DEF ApiExpose, CaValidate
  <2>2. CaType'
    BY <1>1 DEF ApiExpose, CaValidate, CaType
  <2> QED BY <2>1, <2>2, UnchangedLocal, UnchangedZone, UnchangedCount
<1>2. ASSUME NEW o \in Orders, CustomerAdds(o) PROVE TypeInv'
  <2>1. UNCHANGED ca /\ UNCHANGED <<pc, local>> /\ issued' = issued /\ writer' = "customer"
    BY <1>2 DEF CustomerAdds, ca
  <2>2. PICK i \in Ids :
          NewId(i) /\ records' = records \cup {[id |-> i, data |-> Wanted[o], own |-> FALSE]}
    BY <1>2 DEF CustomerAdds
  <2>3. ZoneType'
    BY <2>1, <2>2, NewRecordType, OrdersAssumption
  <2>4. CountType'
    BY <1>2, BoundsAssumption DEF CustomerAdds, CountType, Mishap
  <2> QED BY <2>1, <2>3, <2>4, UnchangedLocal, UnchangedCa
<1>3. CASE CustomerRemovesOwn \/ CustomerClears
  <2>1. /\ UNCHANGED ca /\ UNCHANGED <<pc, local>> /\ issued' = issued
        /\ records' \subseteq records /\ writer' = "customer"
    BY <1>3 DEF CustomerRemovesOwn, CustomerClears, ca
  <2>2. CountType'
    BY <1>3, BoundsAssumption DEF CustomerRemovesOwn, CustomerClears, CountType, Mishap, count
  <2> QED BY <2>1, <2>2, UnchangedLocal, UnchangedCa, RemovedType
<1> QED BY <1>1, <1>2, <1>3 DEF Environment, Customer

LEMMA TypeNext == TypeInv /\ [Next]_vars => TypeInv'
<1>1. ASSUME TypeInv, UNCHANGED vars PROVE TypeInv'
  BY <1>1, UnchangedLocal, UnchangedCa, UnchangedZone, UnchangedCount
  DEF TypeInv, vars, local, ca, zone, count
<1> QED BY <1>1, TypeProcessStep, TypeEnvironment DEF Next

(* Every variable keeps its type, an order is at hand while a process runs, *)
(* and only issued orders are delivered: deploying in waitAndDownload.      *)
THEOREM ProvisioningTypeCorrect == Spec => []TypeOK
<1>1. Spec => []TypeInv
  BY TypeInit, TypeNext, PTL DEF Spec
<1>2. TypeInv => TypeOK
  BY TypeParts
<1> QED BY <1>1, <1>2, PTL

-----------------------------------------------------------------------------
(* How a process changes its own variables, step by step. *)
Mine(p) == <<pc[p], at[p], todo[p], cache[p], asked[p], queue[p], stale[p]>>

LEMMA ExitLeaves ==
  ASSUME LocalType, NEW p \in Procs, Exit(p)
  PROVE  /\ pc'[p] = "idle" /\ todo'[p] = {} /\ cache'[p] = {} /\ stale'[p] = {}
         /\ \A q \in Procs \ {p} : UNCHANGED Mine(q)
BY DEF LocalType, Exit, Goto, Mine

LEMMA VisitLeaves ==
  ASSUME LocalType, NEW p \in Procs, NEW orders, Visit(p, orders)
  PROVE  /\ pc'[p] = "get" /\ at'[p] \in orders /\ todo'[p] = orders \ {at'[p]}
         /\ \A q \in Procs \ {p} : UNCHANGED <<pc[q], at[q], todo[q]>>
BY DEF LocalType, Visit, Goto

LEMMA NextOrderLeaves ==
  ASSUME LocalType, NEW p \in Procs, NextOrder(p)
  PROVE  /\ pc'[p] \in {"idle", "get"} /\ stale'[p] \subseteq stale[p]
         /\ pc'[p] = "idle" => todo'[p] = {} /\ cache'[p] = {}
         /\ pc'[p] = "get" => /\ at'[p] \in todo[p] /\ todo'[p] \subseteq todo[p]
                              /\ cache'[p] = cache[p]
         /\ \A q \in Procs \ {p} : UNCHANGED Mine(q)
<1>1. CASE todo[p] = {}
  BY <1>1, ExitLeaves DEF NextOrder
<1>2. CASE todo[p] # {}
  <2>1. /\ Visit(p, todo[p]) /\ asked' = [asked EXCEPT ![p] = FALSE]
        /\ UNCHANGED <<cache, queue, stale>>
    BY <1>2 DEF NextOrder
  <2> QED BY <2>1, VisitLeaves DEF Mine, LocalType
<1> QED BY <1>1, <1>2

LEMMA EnsureLeaves ==
  ASSUME LocalType, NEW p \in Procs, NEW vs, NEW published, Ensure(p, vs, published),
         UNCHANGED <<at, todo, stale>>, \A q \in Procs \ {p} : asked'[q] = asked[q]
  PROVE  /\ queue'[p] = vs \ published /\ cache'[p] = published
         /\ pc'[p] = IF vs \subseteq published THEN "check" ELSE "lookup"
         /\ \A q \in Procs \ {p} : UNCHANGED Mine(q)
BY DEF LocalType, Ensure, Goto, Mine

LEMMA PublishedLeaves ==
  ASSUME LocalType, NEW p \in Procs, Published(p)
  PROVE  /\ queue'[p] = queue[p] \ (cache[p] \cup {AtHand(p)})
         /\ cache'[p] = cache[p] \cup {AtHand(p)}
         /\ pc'[p] = IF queue[p] \subseteq cache'[p] THEN "check" ELSE "lookup"
         /\ UNCHANGED <<at, todo, asked, stale>>
         /\ \A q \in Procs \ {p} : UNCHANGED Mine(q)
<1>1. /\ Ensure(p, queue[p], cache[p] \cup {AtHand(p)})
      /\ UNCHANGED <<at, todo, asked, ready, stale>>
  BY DEF Published
<1> QED BY <1>1, EnsureLeaves

LEMMA GotoLeaves ==
  ASSUME LocalType, NEW p \in Procs, NEW s, Goto(p, s)
  PROVE  pc'[p] = s /\ \A q \in Procs \ {p} : pc'[q] = pc[q]
BY DEF LocalType, Goto

-----------------------------------------------------------------------------
(* The records in the zone.                                                 *)
LEMMA CreatingMoves ==
  ASSUME pc \in [Procs -> Steps], pc' \in [Procs -> Steps], NEW p \in Procs,
         \A q \in Procs \ {p} : pc'[q] = pc[q]
  PROVE  /\ Cardinality(Creating) \in Nat /\ Cardinality(Creating') \in Nat
         /\ (pc[p] = "create" <=> pc'[p] = "create") =>
              Cardinality(Creating') = Cardinality(Creating)
         /\ pc[p] = "create" /\ pc'[p] # "create" =>
              Cardinality(Creating') = Cardinality(Creating) - 1
         /\ pc[p] # "create" /\ pc'[p] = "create" =>
              Cardinality(Creating') = Cardinality(Creating) + 1
<1>1. /\ IsFiniteSet(Creating) /\ Cardinality(Creating) \in Nat
      /\ IsFiniteSet(Creating') /\ Cardinality(Creating') \in Nat
  BY BoundsAssumption, FS_Subset, FS_CardinalityType DEF Creating
<1>2. (pc[p] = "create" <=> pc'[p] = "create") => Creating' = Creating
  BY DEF Creating
<1>3. pc[p] = "create" /\ pc'[p] # "create" => Creating' = Creating \ {p} /\ p \in Creating
  BY DEF Creating
<1>4. pc[p] # "create" /\ pc'[p] = "create" => Creating' = Creating \cup {p} /\ p \notin Creating
  BY DEF Creating
<1> QED BY <1>1, <1>2, <1>3, <1>4, FS_AddElement, FS_RemoveElement

LEMMA CreatingBound ==
  /\ Cardinality(Creating) \in Nat /\ Cardinality(Procs) \in Nat
  /\ Cardinality(Creating') \in Nat /\ Cardinality(Creating') <= Cardinality(Procs)
BY BoundsAssumption, FS_Subset, FS_CardinalityType DEF Creating

LEMMA OwnFinite ==
  ASSUME IsFiniteSet(records)
  PROVE  IsFiniteSet(OwnRecords) /\ Cardinality(OwnRecords) \in Nat
<1>1. OwnRecords \in SUBSET records
  BY DEF OwnRecords
<1> QED BY <1>1, FS_Subset, FS_CardinalityType

LEMMA ZoneInit == Init => ZoneInv
<1> SUFFICES ASSUME Init PROVE ZoneInv
  OBVIOUS
<1>1. records = {} /\ OwnRecords = {} /\ failures = 0
  BY DEF Init, OwnRecords, Foreign
<1>2. Creating = {}
  BY DEF Init, Creating
<1> QED BY <1>1, <1>2, FS_EmptySet, FS_CardinalityType, BoundsAssumption DEF ZoneInv

(* A step of a process that leaves the zone alone and does not begin to     *)
(* create: the account of the records stays balanced.                       *)
LEMMA ZoneLeftAlone ==
  ASSUME TypeInv, TypeInv', ZoneInv, NEW p \in Procs, UNCHANGED records,
         failures' >= failures, pc'[p] # "create",
         \A q \in Procs \ {p} : pc'[q] = pc[q] /\ stale'[q] = stale[q],
         \A r \in records : r.id \in stale'[p] => r.own
  PROVE  ZoneInv'
<1>1. pc \in [Procs -> Steps] /\ pc' \in [Procs -> Steps] /\ failures \in Nat /\ failures' \in Nat
  BY DEF TypeInv, LocalType, CountType
<1>2. Cardinality(Creating') <= Cardinality(Creating) /\ Cardinality(Creating) \in Nat
      /\ Cardinality(Creating') \in Nat
  BY <1>1, CreatingMoves
<1>3. OwnRecords' = OwnRecords
  BY DEF OwnRecords, Foreign
<1>4. Cardinality(OwnRecords) \in Nat /\ Cardinality(Procs) \in Nat
  BY OwnFinite, CreatingBound DEF ZoneInv
<1>5. Cardinality(OwnRecords') + Cardinality(Creating') <= Cardinality(Procs) + failures'
  BY <1>1, <1>2, <1>3, <1>4 DEF ZoneInv
<1> QED BY <1>5 DEF ZoneInv

LEMMA ZoneProcessStep ==
  ASSUME TypeInv, TypeInv', ZoneInv, NEW p \in Procs, ProcessStep(p)
  PROVE  ZoneInv'
<1>0. /\ LocalType /\ pc \in [Procs -> Steps] /\ pc' \in [Procs -> Steps]
      /\ stale \in [Procs -> SUBSET Ids] /\ failures \in Nat
      /\ Cardinality(Creating) \in Nat /\ Cardinality(Creating') \in Nat
      /\ Cardinality(Procs) \in Nat /\ Cardinality(OwnRecords) \in Nat
      /\ IsFiniteSet(records) /\ IsFiniteSet(OwnRecords)
      /\ \A q \in Procs, r \in records : r.id \in stale[q] => r.own
  BY CreatingBound, OwnFinite DEF TypeInv, LocalType, CountType, ZoneInv
<1>1. ASSUME NEW work \in Worklists[p], Start(p, work) PROVE ZoneInv'
  <2>1. Visit(p, work \ settled) /\ UNCHANGED <<stale, records, failures>>
    BY <1>1 DEF Start, zone
  <2> QED BY <1>0, <2>1, VisitLeaves, ZoneLeftAlone
<1>2. CASE GetOrder(p)
  <2>1. /\ Ensure(p, IF at[p] \in exposed THEN Shown(at[p]) ELSE {}, cache[p])
        /\ UNCHANGED <<at, todo, stale, records, failures>>
        /\ asked' = [asked EXCEPT ![p] = at[p] \in exposed]
    BY <1>2 DEF GetOrder, zone, count
  <2>2. \A q \in Procs \ {p} : asked'[q] = asked[q]
    BY <1>0, <2>1 DEF LocalType
  <2>3. pc'[p] # "create" /\ \A q \in Procs \ {p} : pc'[q] = pc[q]
    BY <1>0, <2>1 DEF Ensure, Goto
  <2> QED BY <1>0, <2>1, <2>3, ZoneLeftAlone
<1>3. CASE LookupFails(p)
  <2>1. pc[p] = "lookup" /\ Goto(p, "create") /\ failures' = failures + 1
        /\ UNCHANGED <<stale, records>>
    BY <1>3 DEF LookupFails, local, zone
  <2>2. Cardinality(Creating') = Cardinality(Creating) + 1
    BY <1>0, <2>1, GotoLeaves, CreatingMoves
  <2>3. OwnRecords' = OwnRecords
    BY <2>1 DEF OwnRecords, Foreign
  <2> QED BY <1>0, <2>1, <2>2, <2>3 DEF ZoneInv
<1>4. CASE Lookup(p)
  <2>1. pc[p] = "lookup" /\ UNCHANGED <<records, failures>>
    BY <1>4 DEF Lookup, zone, count
  <2>2. CASE Published(p)
    BY <1>0, <2>1, <2>2, PublishedLeaves, ZoneLeftAlone DEF Mine
  <2>3. CASE Exit(p)
    BY <1>0, <2>1, <2>3, ExitLeaves, ZoneLeftAlone DEF Mine
  <2>4. CASE /\ {r \in records : r.own} = records
             /\ stale' = [stale EXCEPT ![p] = {r.id : r \in {r \in records : r.own}}]
             /\ Goto(p, IF {r \in records : r.own} = {} THEN "create" ELSE "delete")
    <3>1. CASE records # {}
      <4>1. Goto(p, "delete")
        BY <2>4, <3>1
      <4>2. \A q \in Procs \ {p} : stale'[q] = stale[q]
        BY <1>0, <2>4
      <4>3. \A r \in records : r.own
        BY <2>4
      <4> QED BY <1>0, <2>1, <4>1, <4>2, <4>3, GotoLeaves, ZoneLeftAlone
    <3>2. CASE records = {}
      <4>1. /\ IsFiniteSet(records') /\ OwnRecords' = {}
            /\ Cardinality(OwnRecords') = 0
        BY <2>1, <3>2, FS_EmptySet DEF OwnRecords, Foreign
      <4>2. Cardinality(Creating') <= Cardinality(Procs) /\ failures' \in Nat
        BY <1>0, <2>1, CreatingBound
      <4>3. Cardinality(OwnRecords') + Cardinality(Creating') <= Cardinality(Procs) + failures'
        BY <1>0, <4>1, <4>2
      <4> QED BY <2>1, <3>2, <4>1, <4>3 DEF ZoneInv
    <3> QED BY <3>1, <3>2
  <2> QED BY <1>4, <2>2, <2>3, <2>4 DEF Lookup, Found, Own
<1>5. CASE DeleteStale(p)
  <2>1. PICK r \in records :
          /\ r.id \in stale[p] /\ records' = records \ {r}
          /\ stale' = [stale EXCEPT ![p] = @ \ {r.id}]
          /\ Goto(p, IF stale[p] = {r.id} THEN "create" ELSE "delete")
    BY <1>5 DEF DeleteStale
  <2>2. failures' = failures /\ pc[p] = "delete"
    BY <1>5 DEF DeleteStale, count
  <2>3. /\ OwnRecords' = OwnRecords \ {r} /\ r \in OwnRecords
        /\ IsFiniteSet(records')
    BY <1>0, <2>1, FS_RemoveElement DEF OwnRecords, Foreign
  <2>4. Cardinality(OwnRecords') = Cardinality(OwnRecords) - 1
    BY <1>0, <2>3, FS_RemoveElement
  <2>5. pc'[p] \in {"create", "delete"} /\ \A q \in Procs \ {p} : pc'[q] = pc[q]
    BY <1>0, <2>1, GotoLeaves
  <2>6. Cardinality(Creating') <= Cardinality(Creating) + 1
    BY <1>0, <2>2, <2>5, CreatingMoves
  <2>7. Cardinality(OwnRecords') + Cardinality(Creating') <= Cardinality(Procs) + failures'
    BY <1>0, <2>2, <2>4, <2>6 DEF ZoneInv
  <2>8. \A q \in Procs, s \in records' : s.id \in stale'[q] => s.own
    BY <1>0, <2>1
  <2> QED BY <2>3, <2>7, <2>8 DEF ZoneInv
<1>6. CASE DeleteMissing(p) \/ CreateRefused(p) \/ TimeOut(p) \/ Abort(p)
  <2>1. Exit(p) /\ records' = records /\ failures' >= failures
    BY <1>0, <1>6 DEF DeleteMissing, CreateRefused, TimeOut, Abort, zone, count
  <2> QED BY <1>0, <2>1, ExitLeaves, ZoneLeftAlone DEF Mine
<1>7. CASE Create(p)
  <2>1. pc[p] = "create" /\ Published(p) /\ failures' = failures
    BY <1>7 DEF Create, count
  <2>2. PICK i \in Ids :
          NewId(i) /\ records' = records \cup {[id |-> i, data |-> AtHand(p), own |-> TRUE]}
    BY <1>7 DEF Create
  <2> DEFINE r == [id |-> i, data |-> AtHand(p), own |-> TRUE]
  <2>3. records' = records \cup {r} /\ OwnRecords' = OwnRecords \cup {r} /\ r.own
    BY <2>2 DEF OwnRecords, Foreign
  <2> HIDE DEF r
  <2>4. Cardinality(OwnRecords') <= Cardinality(OwnRecords) + 1
        /\ Cardinality(OwnRecords') \in Nat
    <3>1. Cardinality(OwnRecords \cup {r}) =
            IF r \in OwnRecords THEN Cardinality(OwnRecords) ELSE Cardinality(OwnRecords) + 1
      BY <1>0, FS_AddElement
    <3> QED BY <1>0, <2>3, <3>1
  <2>5. /\ pc'[p] # "create" /\ \A q \in Procs \ {p} : pc'[q] = pc[q]
        /\ stale' = stale
    BY <1>0, <2>1, PublishedLeaves DEF Mine
  <2>6. Cardinality(Creating') = Cardinality(Creating) - 1
    BY <1>0, <2>1, <2>5, CreatingMoves
  <2>7. Cardinality(OwnRecords') + Cardinality(Creating') <= Cardinality(Procs) + failures'
    BY <1>0, <2>1, <2>4, <2>6 DEF ZoneInv
  <2>8. IsFiniteSet(records')
    BY <1>0, <2>3, FS_AddElement
  <2>9. \A q \in Procs, s \in records' : s.id \in stale'[q] => s.own
    BY <1>0, <2>3, <2>5
  <2> QED BY <2>8, <2>7, <2>9 DEF ZoneInv
<1>8. CASE Deliver(p) \/ Pause(p)
  <2>1. NextOrder(p) /\ records' = records /\ failures' = failures
    BY <1>8 DEF Deliver, Pause, zone, count
  <2>2. /\ pc'[p] # "create" /\ stale'[p] \subseteq stale[p]
        /\ \A q \in Procs \ {p} : pc'[q] = pc[q] /\ stale'[q] = stale[q]
    BY <1>0, <2>1, NextOrderLeaves DEF Mine
  <2> QED BY <1>0, <2>1, <2>2, ZoneLeftAlone
<1>9. CASE PollAgain(p)
  <2>1. Goto(p, "get") /\ UNCHANGED <<stale, records, failures>>
    BY <1>9 DEF PollAgain, zone, count
  <2> QED BY <1>0, <2>1, GotoLeaves, ZoneLeftAlone
<1> QED
  BY <1>1, <1>2, <1>3, <1>4, <1>5, <1>6, <1>7, <1>8, <1>9 DEF ProcessStep, Run, Continue

LEMMA ZoneEnvironment ==
  ASSUME TypeInv, TypeInv', ZoneInv, Environment
  PROVE  ZoneInv'
<1>0. /\ Cardinality(Creating) \in Nat /\ Cardinality(Procs) \in Nat /\ failures \in Nat
      /\ failures' \in Nat /\ Cardinality(OwnRecords) \in Nat
      /\ IsFiniteSet(records) /\ IsFiniteSet(OwnRecords)
      /\ \A q \in Procs, r \in records : r.id \in stale[q] => r.own
  BY CreatingBound, OwnFinite DEF TypeInv, CountType, ZoneInv
<1>1. /\ Creating' = Creating /\ stale' = stale /\ failures' = failures
  BY DEF Environment, Customer, CustomerAdds, CustomerRemovesOwn, CustomerClears, ApiExpose,
         CaValidate, Creating, local, count
<1>2. CASE UNCHANGED records
  <2>1. OwnRecords' = OwnRecords
    BY <1>2 DEF OwnRecords, Foreign
  <2> QED BY <1>0, <1>1, <1>2, <2>1 DEF ZoneInv
<1>3. ASSUME NEW o \in Orders, CustomerAdds(o) PROVE ZoneInv'
  <2>1. PICK i \in Ids :
          NewId(i) /\ records' = records \cup {[id |-> i, data |-> Wanted[o], own |-> FALSE]}
    BY <1>3 DEF CustomerAdds
  <2> DEFINE r == [id |-> i, data |-> Wanted[o], own |-> FALSE]
  <2>2. \A q \in Procs : i \notin stale[q]
    BY <2>1 DEF NewId, Unused
  <2>3. /\ records' = records \cup {r} /\ OwnRecords' = OwnRecords
        /\ \A q \in Procs : r.id \notin stale[q]
    BY <2>1, <2>2 DEF OwnRecords, Foreign
  <2> HIDE DEF r
  <2>4. IsFiniteSet(records')
    BY <1>0, <2>3, FS_AddElement
  <2>5. \A q \in Procs, s \in records' : s.id \in stale'[q] => s.own
    BY <1>0, <1>1, <2>3
  <2> QED BY <1>0, <1>1, <2>3, <2>4, <2>5 DEF ZoneInv
<1>4. CASE CustomerRemovesOwn \/ CustomerClears
  <2>1. records' \in SUBSET records /\ OwnRecords' \in SUBSET OwnRecords
    BY <1>4 DEF CustomerRemovesOwn, CustomerClears, OwnRecords, Foreign
  <2>2. /\ IsFiniteSet(records') /\ Cardinality(OwnRecords') \in Nat
        /\ Cardinality(OwnRecords') <= Cardinality(OwnRecords)
    BY <1>0, <2>1, FS_Subset, FS_CardinalityType
  <2>3. \A q \in Procs, s \in records' : s.id \in stale'[q] => s.own
    BY <1>0, <1>1, <2>1
  <2> QED BY <1>0, <1>1, <2>2, <2>3 DEF ZoneInv
<1> QED
  BY <1>2, <1>3, <1>4 DEF Environment, Customer, ApiExpose, CaValidate, zone

LEMMA ZoneNext == TypeInv /\ TypeInv' /\ ZoneInv /\ [Next]_vars => ZoneInv'
<1>1. ASSUME TypeInv, TypeInv', ZoneInv, UNCHANGED vars PROVE ZoneInv'
  <2>1. /\ OwnRecords' = OwnRecords /\ Creating' = Creating
        /\ UNCHANGED <<records, stale, failures>>
    BY <1>1 DEF vars, OwnRecords, Foreign, Creating
  <2> QED BY <1>1, <2>1 DEF ZoneInv
<1> QED BY <1>1, ZoneProcessStep, ZoneEnvironment DEF Next

(* Only records annotated by certbro wait for their removal, and as many    *)
(* processes are about to create a record as the others leave room for.     *)
THEOREM ZoneInvHolds == Spec => [](TypeInv /\ ZoneInv)
BY TypeInit, TypeNext, ZoneInit, ZoneNext, PTL DEF Spec

(* CNAMEs of certbro do not pile up, for any number of runs that look up,   *)
(* delete and create side by side in provisionValidationRecord.             *)
THEOREM NeverPilesUp == Spec => []NoPileUp
<1>1. ASSUME TypeInv, ZoneInv PROVE NoPileUp
  <2>1. /\ Cardinality(Creating) \in Nat /\ Cardinality(Procs) \in Nat
        /\ Cardinality(OwnRecords) \in Nat /\ failures \in Nat
    BY <1>1, CreatingBound, OwnFinite DEF TypeInv, CountType, ZoneInv
  <2> QED BY <1>1, <2>1 DEF ZoneInv, NoPileUp
<1> QED BY <1>1, ZoneInvHolds, PTL

(* provisionValidationRecord never changes or removes a CNAME that is not   *)
(* annotated as its own, whatever happens between lookup and removal.       *)
THEOREM ForeignAlwaysKept == Spec => ForeignKept
<1>1. ASSUME TypeInv, ZoneInv, [Next]_vars PROVE [Foreign \subseteq records' \/ CustomerClears]_vars
  <2>1. CASE UNCHANGED vars
    BY <2>1
  <2>2. ASSUME NEW p \in Procs, ProcessStep(p) PROVE Foreign \subseteq records'
    <3>1. CASE DeleteStale(p)
      <4>1. PICK r \in records : r.id \in stale[p] /\ records' = records \ {r}
        BY <3>1 DEF DeleteStale
      <4>2. r.own
        BY <1>1, <4>1 DEF ZoneInv
      <4> QED BY <4>1, <4>2 DEF Foreign
    <3>2. CASE records \subseteq records'
      BY <3>2 DEF Foreign
    <3> QED
      BY <2>2, <3>1, <3>2
      DEF ProcessStep, Run, Continue, Start, GetOrder, LookupFails, Lookup, DeleteMissing,
          Create, CreateRefused, Deliver, Pause, PollAgain, TimeOut, Abort, zone
  <2>3. CASE Environment
    BY <2>3 DEF Environment, Customer, CustomerAdds, CustomerRemovesOwn, ApiExpose, CaValidate,
       OwnRecords, Foreign, zone
  <2> QED BY <1>1, <2>1, <2>2, <2>3 DEF Next
<1>2. [Next]_vars /\ TypeInv /\ ZoneInv => [Foreign \subseteq records' \/ CustomerClears]_vars
  BY <1>1
<1> QED BY <1>2, ZoneInvHolds, PTL DEF Spec, ForeignKept

-----------------------------------------------------------------------------
(* What the cache of a run tells about the zone. *)

(* The token in the CNAME comes from the CSR: no two requests share one.    *)
(* Were they to, ensureValidationRecords would not publish it again.        *)
DistinctValues ==
  /\ \A o, x \in Orders : Wanted[o] = Wanted[x] => o = x
  /\ \A o, x \in Orders : Former[o] # Wanted[x]

(* A process that does nothing, while the zone stays or others change it.   *)
LEMMA CacheKept ==
  ASSUME NEW q \in Procs, CacheInv(q), UNCHANGED Mine(q),
         writer' # q \/ UNCHANGED <<records, writer>>
  PROVE  CacheInv(q)'
BY DEF CacheInv, Mine, DataOf, Publishing

(* A run that has published the value of its order has no more to publish.  *)
LEMMA NotYetPublished ==
  ASSUME NEW p \in Procs, CacheInv(p), pc[p] \in Publishing
  PROVE  Wanted[at[p]] \notin cache[p]
BY DEF CacheInv, Publishing

LEMMA ExitCache ==
  ASSUME LocalType, NEW p \in Procs, Exit(p)
  PROVE  CacheInv(p)'
<1>1. pc'[p] = "idle" /\ todo'[p] = {} /\ cache'[p] = {}
  BY ExitLeaves
<1> QED BY <1>1 DEF CacheInv, Publishing

LEMMA NextOrderCache ==
  ASSUME LocalType, NEW p \in Procs, CacheInv(p), NextOrder(p)
  PROVE  CacheInv(p)'
<1>1. /\ pc'[p] \in {"idle", "get"}
      /\ pc'[p] = "idle" => todo'[p] = {} /\ cache'[p] = {}
      /\ pc'[p] = "get" => /\ at'[p] \in todo[p] /\ todo'[p] \subseteq todo[p]
                           /\ cache'[p] = cache[p]
  BY NextOrderLeaves
<1> QED BY <1>1 DEF CacheInv, Publishing

(* The value at hand is in the zone now: the order's, which the CA looks    *)
(* for, only after the one from before its reissue.                         *)
LEMMA PublishedCache ==
  ASSUME LocalType, DistinctValues, NEW p \in Procs, CacheInv(p), pc[p] \in Publishing,
         Published(p), AtHand(p) \in DataOf(records')
  PROVE  CacheInv(p)'
<1> DEFINE v == AtHand(p)
           o == at[p]
<1>1. /\ queue'[p] = queue[p] \ (cache[p] \cup {v}) /\ cache'[p] = cache[p] \cup {v}
      /\ pc'[p] = IF queue[p] \subseteq cache'[p] THEN "check" ELSE "lookup"
      /\ at'[p] = o /\ todo'[p] = todo[p]
  BY PublishedLeaves
<1>2. /\ o \in Orders /\ Wanted[o] \in Values /\ Wanted[o] # NoValue
      /\ o \notin todo[p] /\ todo[p] \subseteq Orders
  BY OrdersAssumption DEF LocalType, Publishing
<1>3. queue[p] = Shown(o) \ cache[p] /\ queue[p] # {} /\ Wanted[o] \notin cache[p]
  BY NotYetPublished DEF CacheInv
<1>4. v = IF Former[o] \in queue[p] THEN Former[o] ELSE Wanted[o]
  BY DEF AtHand, NextValue
<1>5. Shown(o) = {Former[o], Wanted[o]} \ {NoValue}
  BY DEF Shown
<1> HIDE DEF v, o
<1>6. \A x \in todo'[p] : Wanted[x] \notin cache'[p]
  BY <1>1, <1>2, <1>4 DEF CacheInv, DistinctValues
<1>7. Wanted[o] \in cache'[p] => v = Wanted[o] /\ Shown(o) \subseteq cache'[p]
  BY <1>1, <1>2, <1>3, <1>4, <1>5 DEF DistinctValues
<1>8. pc'[p] = "lookup" => queue'[p] = Shown(o) \ cache'[p] /\ queue'[p] # {}
  BY <1>1, <1>3
<1>9. pc'[p] = "check" => Wanted[o] \in cache'[p]
  BY <1>1, <1>2, <1>3, <1>5
<1>10. pc'[p] \in {"check", "lookup"}
  BY <1>1
<1>11. Wanted[at'[p]] \in cache'[p] => Wanted[at'[p]] \in DataOf(records')
  BY <1>1, <1>7 DEF v
<1> QED BY <1>1, <1>6, <1>7, <1>8, <1>9, <1>10, <1>11 DEF CacheInv, DataOf, Publishing, Shown

LEMMA CacheProcessStep ==
  ASSUME TypeInv, DistinctValues, NEW p \in Procs, CacheInv(p), ProcessStep(p)
  PROVE  CacheInv(p)'
<1>0. /\ LocalType /\ pc \in [Procs -> Steps] /\ cache \in [Procs -> SUBSET Values]
      /\ queue \in [Procs -> SUBSET Values] /\ asked \in [Procs -> BOOLEAN]
      /\ at \in [Procs -> Orders \cup {NoOrder}]
  BY DEF TypeInv, LocalType
<1>1. ASSUME NEW work \in Worklists[p], Start(p, work) PROVE CacheInv(p)'
  <2>1. Visit(p, work \ settled) /\ cache' = cache /\ pc[p] = "idle"
    BY <1>1 DEF Start
  <2>2. pc'[p] = "get" /\ cache'[p] = {}
    BY <1>0, <2>1, VisitLeaves DEF CacheInv
  <2> QED BY <2>2 DEF CacheInv, Publishing
<1>2. CASE GetOrder(p)
  <2> DEFINE vs == IF at[p] \in exposed THEN Shown(at[p]) ELSE {}
  <2>1. /\ Ensure(p, vs, cache[p]) /\ UNCHANGED <<at, todo, records, writer, stale>>
        /\ asked' = [asked EXCEPT ![p] = at[p] \in exposed] /\ pc[p] = "get"
    BY <1>2 DEF GetOrder, zone
  <2>2. /\ queue'[p] = vs \ cache[p] /\ cache'[p] = cache[p]
        /\ pc'[p] = IF vs \subseteq cache[p] THEN "check" ELSE "lookup"
        /\ asked'[p] = (at[p] \in exposed)
    BY <1>0, <2>1 DEF Ensure, Goto
  <2>3. Wanted[at[p]] \in Shown(at[p])
    BY <1>0, <2>1, OrdersAssumption DEF Shown, LocalType
  <2>4. pc'[p] = "check" /\ asked'[p] => Wanted[at[p]] \in cache[p]
    BY <2>2, <2>3
  <2>5. pc'[p] = "lookup" => queue'[p] = Shown(at[p]) \ cache[p] /\ queue'[p] # {}
    BY <2>2
  <2>6. pc'[p] \in {"check", "lookup"}
    BY <2>2
  <2> HIDE DEF vs
  <2> QED BY <2>1, <2>2, <2>4, <2>5, <2>6 DEF CacheInv, Publishing, DataOf, Shown
<1>3. CASE LookupFails(p)
  <2>1. /\ pc[p] = "lookup" /\ Goto(p, "create")
        /\ UNCHANGED <<at, todo, cache, asked, queue, records, writer>>
    BY <1>3 DEF LookupFails, local, zone
  <2>2. pc'[p] = "create"
    BY <1>0, <2>1, GotoLeaves
  <2> QED BY <2>1, <2>2 DEF CacheInv, Publishing, DataOf, Shown
<1>4. CASE Lookup(p)
  <2>1. pc[p] = "lookup" /\ UNCHANGED <<records, writer>>
    BY <1>4 DEF Lookup, zone
  <2>2. CASE Serves(records, AtHand(p)) /\ Published(p)
    <3>1. AtHand(p) \in DataOf(records')
      BY <2>1, <2>2 DEF Serves
    <3> QED BY <1>0, <2>1, <2>2, <3>1, PublishedCache DEF Publishing
  <2>3. CASE Exit(p)
    BY <1>0, <2>3, ExitCache
  <2>4. ASSUME NEW s \in {"create", "delete"}, Goto(p, s),
               UNCHANGED <<at, todo, cache, asked, ready, queue>>
        PROVE  CacheInv(p)'
    <3>1. pc'[p] = s
      BY <1>0, <2>4, GotoLeaves
    <3> QED BY <2>1, <2>4, <3>1 DEF CacheInv, Publishing, DataOf, Shown
  <2> QED BY <1>4, <2>2, <2>3, <2>4 DEF Lookup, Found
<1>5. CASE DeleteStale(p)
  <2>1. PICK r \in records :
          /\ records' = records \ {r}
          /\ Goto(p, IF stale[p] = {r.id} THEN "create" ELSE "delete")
    BY <1>5 DEF DeleteStale
  <2>2. pc[p] = "delete" /\ UNCHANGED <<at, todo, cache, asked, queue>>
    BY <1>5 DEF DeleteStale
  <2>3. pc'[p] \in {"create", "delete"}
    BY <1>0, <2>1, GotoLeaves
  <2>4. Wanted[at[p]] \notin cache[p]
    BY <2>2, NotYetPublished DEF Publishing
  <2> QED BY <2>2, <2>3, <2>4 DEF CacheInv, Publishing, Shown
<1>6. CASE DeleteMissing(p) \/ CreateRefused(p) \/ TimeOut(p) \/ Abort(p)
  <2>1. Exit(p)
    BY <1>6 DEF DeleteMissing, CreateRefused, TimeOut, Abort
  <2> QED BY <1>0, <2>1, ExitCache
<1>7. CASE Create(p)
  <2>1. pc[p] = "create" /\ Published(p)
    BY <1>7 DEF Create
  <2>2. PICK i \in Ids : records' = records \cup {[id |-> i, data |-> AtHand(p), own |-> TRUE]}
    BY <1>7 DEF Create
  <2> DEFINE r == [id |-> i, data |-> AtHand(p), own |-> TRUE]
  <2>3. r \in records' /\ r.data = AtHand(p)
    BY <2>2
  <2> HIDE DEF r
  <2>4. AtHand(p) \in DataOf(records')
    BY <2>3 DEF DataOf
  <2> QED BY <1>0, <2>1, <2>4, PublishedCache DEF Publishing
<1>8. CASE Deliver(p) \/ Pause(p)
  <2>1. NextOrder(p)
    BY <1>8 DEF Deliver, Pause
  <2> QED BY <1>0, <2>1, NextOrderCache
<1>9. CASE PollAgain(p)
  <2>1. /\ pc[p] = "check" /\ Goto(p, "get")
        /\ UNCHANGED <<at, todo, cache, queue, records, writer>>
    BY <1>9 DEF PollAgain, zone
  <2>2. pc'[p] = "get"
    BY <1>0, <2>1, GotoLeaves
  <2> QED BY <2>1, <2>2 DEF CacheInv, Publishing, DataOf, Shown
<1> QED
  BY <1>1, <1>2, <1>3, <1>4, <1>5, <1>6, <1>7, <1>8, <1>9 DEF ProcessStep, Run, Continue

(* A process changes its own variables only, and signs what it writes. *)
LEMMA OthersKept ==
  ASSUME TypeInv, NEW p \in Procs, ProcessStep(p), NEW q \in Procs \ {p}
  PROVE  UNCHANGED Mine(q) /\ (writer' = p \/ UNCHANGED <<records, writer>>)
<1>0. LocalType
  BY DEF TypeInv
<1>1. ASSUME NEW work \in Worklists[p], Start(p, work) PROVE UNCHANGED Mine(q)
  <2>1. Visit(p, work \ settled) /\ UNCHANGED <<cache, asked, queue, stale>>
    BY <1>1 DEF Start
  <2> QED BY <1>0, <2>1, VisitLeaves DEF Mine
<1>2. ASSUME GetOrder(p) PROVE UNCHANGED Mine(q)
  <2>1. /\ Ensure(p, IF at[p] \in exposed THEN Shown(at[p]) ELSE {}, cache[p])
        /\ UNCHANGED <<at, todo, stale>>
        /\ asked' = [asked EXCEPT ![p] = at[p] \in exposed]
    BY <1>2 DEF GetOrder
  <2>2. \A x \in Procs \ {p} : asked'[x] = asked[x]
    BY <1>0, <2>1 DEF LocalType
  <2> QED BY <1>0, <2>1, <2>2, EnsureLeaves
<1>3. ASSUME Exit(p) \/ NextOrder(p) \/ Published(p) PROVE UNCHANGED Mine(q)
  BY <1>0, <1>3, ExitLeaves, NextOrderLeaves, PublishedLeaves
<1>4. ASSUME NEW s, Goto(p, s), UNCHANGED <<at, todo, cache, queue>>,
             asked' = asked \/ asked' = [asked EXCEPT ![p] = FALSE],
             \A x \in Procs \ {p} : stale'[x] = stale[x]
      PROVE  UNCHANGED Mine(q)
  BY <1>0, <1>4, GotoLeaves DEF Mine, LocalType
<1>5. ASSUME Lookup(p) PROVE UNCHANGED Mine(q)
  <2>1. CASE Published(p) \/ Exit(p)
    BY <2>1, <1>3
  <2>2. ASSUME NEW s, Goto(p, s), UNCHANGED <<at, todo, cache, asked, queue>>,
               NEW ids, stale' = [stale EXCEPT ![p] = ids]
        PROVE  UNCHANGED Mine(q)
    BY <1>0, <2>2, <1>4 DEF LocalType
  <2> QED BY <1>5, <2>1, <2>2 DEF Lookup
<1>6. ASSUME DeleteStale(p) PROVE UNCHANGED Mine(q)
  <2>1. PICK r \in records :
          /\ stale' = [stale EXCEPT ![p] = @ \ {r.id}]
          /\ Goto(p, IF stale[p] = {r.id} THEN "create" ELSE "delete")
    BY <1>6 DEF DeleteStale
  <2>2. UNCHANGED <<at, todo, cache, asked, queue>>
    BY <1>6 DEF DeleteStale
  <2> QED BY <1>0, <2>1, <2>2, <1>4 DEF LocalType
<1>7. ASSUME LookupFails(p) \/ PollAgain(p) PROVE UNCHANGED Mine(q)
  BY <1>7, <1>4 DEF LookupFails, PollAgain, local
<1>8. writer' = p \/ UNCHANGED <<records, writer>>
  BY DEF ProcessStep, Run, Continue, Start, GetOrder, LookupFails, Lookup, DeleteStale,
     DeleteMissing, Create, CreateRefused, Deliver, Pause, PollAgain, TimeOut, Abort, zone
<1>9. UNCHANGED Mine(q)
  BY <1>1, <1>2, <1>3, <1>5, <1>6, <1>7
  DEF ProcessStep, Run, Continue, DeleteMissing, Create, CreateRefused, Deliver, Pause,
      TimeOut, Abort
<1> QED BY <1>8, <1>9

LEMMA CacheNext ==
  ASSUME DistinctValues, TypeInv, \A p \in Procs : CacheInv(p), [Next]_vars
  PROVE  \A p \in Procs : CacheInv(p)'
<1> SUFFICES ASSUME NEW q \in Procs PROVE CacheInv(q)'
  OBVIOUS
<1>1. CASE UNCHANGED vars
  <2>1. UNCHANGED Mine(q) /\ UNCHANGED <<records, writer>>
    BY <1>1 DEF vars, Mine
  <2> QED BY <2>1, CacheKept
<1>2. ASSUME NEW p \in Procs, ProcessStep(p) PROVE CacheInv(q)'
  <2>1. CASE p = q
    BY <1>2, <2>1, CacheProcessStep
  <2>2. CASE p # q
    <3>1. UNCHANGED Mine(q) /\ (writer' = p \/ UNCHANGED <<records, writer>>)
      BY <1>2, <2>2, OthersKept
    <3> QED BY <2>2, <3>1, CacheKept
  <2> QED BY <2>1, <2>2
<1>3. CASE Environment
  <2>1. UNCHANGED <<pc, at, todo, cache, asked, queue, stale>>
    BY <1>3 DEF Environment, Customer, CustomerAdds, CustomerRemovesOwn, CustomerClears,
       ApiExpose, CaValidate, local
  <2>2. writer' # q \/ UNCHANGED <<records, writer>>
    BY <1>3, OrdersAssumption DEF Environment, Customer, CustomerAdds, CustomerRemovesOwn,
       CustomerClears, ApiExpose, CaValidate, zone
  <2>3. UNCHANGED Mine(q)
    BY <2>1 DEF Mine
  <2> QED BY <2>2, <2>3, CacheKept
<1> QED BY <1>1, <1>2, <1>3 DEF Next

LEMMA CacheInit == Init => \A p \in Procs : CacheInv(p)
BY DEF Init, CacheInv, Publishing

(* The account that runs, zone and cache keep of each other.                *)
THEOREM ProvisionInvHolds == DistinctValues /\ Spec => []ProvisionInv
<1> SUFFICES ASSUME DistinctValues PROVE Spec => []ProvisionInv
  OBVIOUS
<1> DEFINE Caches == \A p \in Procs : CacheInv(p)
<1>1. Init => Caches
  BY CacheInit
<1>2. TypeInv /\ Caches /\ [Next]_vars => Caches'
  BY CacheNext
<1>3. TypeInv /\ ZoneInv /\ Caches => ProvisionInv
  BY TypeParts DEF ProvisionInv
<1> HIDE DEF Caches
<1> QED BY <1>1, <1>2, <1>3, ZoneInvHolds, PTL DEF Spec

(* A run that polls an order has left its value in the zone, as long as     *)
(* nobody else has touched it: what ensureValidationRecords skips because   *)
(* of the cache is there, and the reissue's record came last.               *)
THEOREM WaitsAlwaysPublished == DistinctValues /\ Spec => []WaitsPublished
<1>1. ProvisionInv => WaitsPublished
  BY DEF ProvisionInv, CacheInv, WaitsPublished
<1> QED BY <1>1, ProvisionInvHolds, PTL
=============================================================================
