--------------------------- MODULE DcvProvisioning ---------------------------
(***************************************************************************)
(* The validation CNAME of one DNS name, and the runs of certbro that      *)
(* publish it (ensureValidationRecords and provisionValidationRecord in    *)
(* src/internal/app/manager.go).  Several orders may ask for a CNAME of    *)
(* the same name with different values: the RSA and the ECDSA certificate  *)
(* of a host, or an order and the reissue of it.  Each call of the DNS API *)
(* is a step of its own; other processes, the customer and the CA act in   *)
(* between.                                                                *)
(***************************************************************************)
EXTENDS Integers, FiniteSets

CONSTANTS
  Procs,         \* processes
  Resuming,      \* those that run `renew` on pending requests; the others run `issue`
  Worklists,     \* the sets of orders a process may work off, one after the other
  Orders,        \* orders that ask for the CNAME
  Organization,  \* those of an organization-validated product
  Values,        \* values of the CNAME
  Wanted,        \* the value an order has to be validated with
  Former,        \* a value the order still shows from before its reissue
  NoValue,       \* none
  NoOrder,       \* none
  Ids,           \* bound: record ids
  MaxMishaps     \* bound: failing calls, killed processes and changes by the customer

ASSUME OrdersAssumption ==
  /\ Resuming \subseteq Procs /\ Organization \subseteq Orders
  /\ {"nobody", "customer"} \cap Procs = {}
  /\ Worklists \in [Procs -> SUBSET SUBSET Orders]
  /\ NoValue \notin Values /\ NoOrder \notin Orders
  /\ Wanted \in [Orders -> Values] /\ Former \in [Orders -> Values \cup {NoValue}]
  /\ \A o \in Orders : Former[o] # Wanted[o]
ASSUME BoundsAssumption ==
  /\ IsFiniteSet(Procs) /\ Ids \subseteq Nat
  /\ MaxMishaps \in Nat

Steps == {"idle", "get", "lookup", "delete", "create", "check"}
RecordType == [id: Ids, data: Values, own: BOOLEAN]

VARIABLES
  records,   \* the CNAMEs of the name; own: annotated "managed by certbro"
  exposed,   \* orders whose answers show the validation record
  issued,    \* orders the CA has validated and issued
  settled,   \* orders whose certificate certbro has delivered
  failures,  \* failures so far
  edits,     \* changes by the customer so far
  begun,     \* processes that have run `issue`, which runs once
  pc,        \* where a process is
  at,        \* the order it has at hand
  todo,      \* the orders it has not come to yet
  cache,     \* provisionedValidationRecord: values it has published
  asked,     \* the answer it looks at shows a validation record ...
  ready,     \* ... or an issued certificate
  queue,     \* the values of the answer it has not come to yet
  stale,     \* the records it is going to delete
  writer     \* history: the process that changed the zone last

zone  == <<records, writer>>
ca    == <<exposed, issued, settled>>
count == <<failures, edits, begun>>
local == <<at, todo, cache, asked, ready, queue, stale>>
vars  == <<records, exposed, issued, settled, failures, edits, begun, pc, at, todo, cache,
           asked, ready, queue, stale, writer>>

Init ==
  /\ records = {} /\ writer = "nobody"
  /\ exposed = {} /\ issued = {} /\ settled = {}
  /\ failures = 0 /\ edits = 0 /\ begun = {}
  /\ pc = [p \in Procs |-> "idle"] /\ at = [p \in Procs |-> NoOrder]
  /\ todo = [p \in Procs |-> {}] /\ cache = todo /\ queue = todo /\ stale = todo
  /\ asked = [p \in Procs |-> FALSE] /\ ready = asked

-----------------------------------------------------------------------------
(* The zone. *)
(* Mutant of Own: every record found is taken for one of certbro. *)
OwnAll(r) == TRUE
(* isCertbroManagedDNSRecord: the annotation says so. *)
Own(r) == r.own

(* lookupValidationCNAMERecords, when the zone is found: the CNAMEs of the    *)
(* name that it holds.                                                       *)
Found == records

Foreign == {r \in records : ~r.own}
OwnRecords == records \ Foreign
DataOf(rs) == {r.data : r \in rs}
(* One record, and it has the value v already. *)
Serves(rs, v) == Cardinality(rs) = 1 /\ DataOf(rs) = {v}

Mishap == failures + edits < MaxMishaps

Goto(p, s) == pc' = [pc EXCEPT ![p] = s]

Exit(p) ==
  /\ Goto(p, "idle")
  /\ at' = [at EXCEPT ![p] = NoOrder] /\ todo' = [todo EXCEPT ![p] = {}]
  /\ cache' = [cache EXCEPT ![p] = {}]
  /\ asked' = [asked EXCEPT ![p] = FALSE] /\ ready' = [ready EXCEPT ![p] = FALSE]
  /\ queue' = [queue EXCEPT ![p] = {}] /\ stale' = [stale EXCEPT ![p] = {}]

(* The walk over the orders is in the order of their directories or of the  *)
(* names on the command line: here, in any order.                           *)
Visit(p, orders) ==
  /\ Goto(p, "get")
  /\ \E o \in orders :
       /\ at' = [at EXCEPT ![p] = o]
       /\ todo' = [todo EXCEPT ![p] = orders \ {o}]

(* Mutant of Start: the cache outlives the run. *)
StartRemembering(p, work) ==
  /\ pc[p] = "idle" /\ p \notin begun
  /\ begun' = begun \cup ({p} \ Resuming)
  /\ Visit(p, work \ settled)
  /\ cache' = [cache EXCEPT ![p] = {Wanted[o] : o \in exposed}]
  /\ UNCHANGED <<failures, edits, asked, ready, queue, stale>>
  /\ UNCHANGED zone /\ UNCHANGED ca

(* A run works off the requests that are still pending, with a new Manager. *)
Start(p, work) ==
  /\ pc[p] = "idle" /\ p \notin begun
  /\ begun' = begun \cup ({p} \ Resuming)
  /\ Visit(p, work \ settled)
  /\ UNCHANGED <<failures, edits, cache, asked, ready, queue, stale>>
  /\ UNCHANGED zone /\ UNCHANGED ca

(* The records of the answer: those of the order and those of the reissue. *)
Shown(o) == {Former[o], Wanted[o]} \ {NoValue}

(* Mutant of NextValue: the reissue's record is published before the order's. *)
NextValueReversed(o, vs) == IF Wanted[o] \in vs THEN Wanted[o] ELSE Former[o]

(* Those of the order come first. *)
NextValue(o, vs) == IF Former[o] \in vs THEN Former[o] ELSE Wanted[o]

(* The value a process is publishing. *)
AtHand(p) == NextValue(at[p], queue[p])

(* ensureValidationRecords goes on with the values vs: each once in a run. *)
Ensure(p, vs, published) ==
  /\ queue' = [queue EXCEPT ![p] = vs \ published]
  /\ cache' = [cache EXCEPT ![p] = published]
  /\ Goto(p, IF vs \subseteq published THEN "check" ELSE "lookup")

(* A turn of waitAndDownload: the order as it is now. *)
GetOrder(p) ==
  /\ pc[p] = "get"
  /\ asked' = [asked EXCEPT ![p] = at[p] \in exposed]
  /\ ready' = [ready EXCEPT ![p] = at[p] \in issued]
  /\ Ensure(p, IF at[p] \in exposed THEN Shown(at[p]) ELSE {}, cache[p])
  /\ UNCHANGED <<at, todo, stale>>
  /\ UNCHANGED zone /\ UNCHANGED ca /\ UNCHANGED count

(* provisionValidationRecord has done its work for the value at hand. *)
Published(p) ==
  /\ Ensure(p, queue[p], cache[p] \cup {AtHand(p)})
  /\ UNCHANGED <<at, todo, asked, ready, stale>>

(* lookupValidationCNAMERecords finds no zone of the account among the      *)
(* suffixes of the name, or an error: the CNAME is created unseen.          *)
LookupFails(p) ==
  /\ pc[p] = "lookup" /\ Mishap
  /\ failures' = failures + 1 /\ Goto(p, "create")
  /\ UNCHANGED <<edits, begun>> /\ UNCHANGED local /\ UNCHANGED zone /\ UNCHANGED ca

(* The name's records are known: nothing to do, records of the customer in  *)
(* the way, or own records to replace.                                      *)
Lookup(p) ==
  LET v == AtHand(p)
      own == {r \in Found : Own(r)} IN
  /\ pc[p] = "lookup"
  /\ \/ Serves(Found, v) /\ Published(p)
     \/ ~Serves(Found, v) /\ own # Found /\ Exit(p)
     \/ /\ ~Serves(Found, v) /\ own = Found
        /\ stale' = [stale EXCEPT ![p] = {r.id : r \in own}]
        /\ Goto(p, IF own = {} THEN "create" ELSE "delete")
        /\ UNCHANGED <<at, todo, cache, asked, ready, queue>>
  /\ UNCHANGED zone /\ UNCHANGED ca /\ UNCHANGED count

(* Mutant of DeleteStale: the new record is created beside the stale ones. *)
DeleteNone(p) ==
  /\ pc[p] = "delete" /\ Goto(p, "create")
  /\ stale' = [stale EXCEPT ![p] = {}]
  /\ UNCHANGED <<at, todo, cache, asked, ready, queue>>
  /\ UNCHANGED zone /\ UNCHANGED ca /\ UNCHANGED count

DeleteStale(p) ==
  /\ pc[p] = "delete"
  /\ \E r \in records :
       /\ r.id \in stale[p] /\ records' = records \ {r} /\ writer' = p
       /\ stale' = [stale EXCEPT ![p] = @ \ {r.id}]
       /\ Goto(p, IF stale[p] = {r.id} THEN "create" ELSE "delete")
  /\ UNCHANGED <<at, todo, cache, asked, ready, queue>>
  /\ UNCHANGED ca /\ UNCHANGED count

(* Another process, or the customer, was faster: 404 ends the run. *)
DeleteMissing(p) ==
  /\ pc[p] = "delete" /\ \E i \in stale[p] : \A r \in records : r.id # i
  /\ Exit(p)
  /\ UNCHANGED zone /\ UNCHANGED ca /\ UNCHANGED count

(* Ids are never given twice; here, not while anybody may know them. *)
Unused == Ids \ ({r.id : r \in records} \cup UNION {stale[p] : p \in Procs})
NewId(i) == i \in Unused /\ \A j \in Unused : i <= j

Create(p) ==
  /\ pc[p] = "create"
  /\ \E i \in Ids :
       /\ NewId(i)
       /\ records' = records \cup {[id |-> i, data |-> AtHand(p), own |-> TRUE]}
  /\ writer' = p
  /\ Published(p)
  /\ UNCHANGED ca /\ UNCHANGED count

(* The API may refuse a second CNAME of a name. *)
CreateRefused(p) ==
  /\ pc[p] = "create" /\ records # {}
  /\ Exit(p)
  /\ UNCHANGED zone /\ UNCHANGED ca /\ UNCHANGED count

(* A request that is done, or that a resumed run need not wait for, makes   *)
(* way for the next one.                                                    *)
NextOrder(p) ==
  IF todo[p] = {} THEN Exit(p)
  ELSE /\ Visit(p, todo[p])
       /\ asked' = [asked EXCEPT ![p] = FALSE] /\ ready' = [ready EXCEPT ![p] = FALSE]
       /\ UNCHANGED <<cache, queue, stale>>

MayPause(p) == p \in Resuming /\ at[p] \in Organization /\ asked[p]

(* Mutant of Deliver: the order need not be issued. *)
DeliverAny(p) ==
  /\ pc[p] = "check"
  /\ settled' = settled \cup {at[p]}
  /\ NextOrder(p)
  /\ UNCHANGED <<exposed, issued>> /\ UNCHANGED zone /\ UNCHANGED count

Deliver(p) ==
  /\ pc[p] = "check" /\ ready[p]
  /\ settled' = settled \cup {at[p]}
  /\ NextOrder(p)
  /\ UNCHANGED <<exposed, issued>> /\ UNCHANGED zone /\ UNCHANGED count

Pause(p) ==
  /\ pc[p] = "check" /\ ~ready[p] /\ MayPause(p)
  /\ NextOrder(p)
  /\ UNCHANGED ca /\ UNCHANGED zone /\ UNCHANGED count

PollAgain(p) ==
  /\ pc[p] = "check" /\ ~ready[p] /\ ~MayPause(p)
  /\ Goto(p, "get")
  /\ asked' = [asked EXCEPT ![p] = FALSE]
  /\ UNCHANGED <<at, todo, cache, ready, queue, stale>> /\ UNCHANGED zone /\ UNCHANGED ca /\ UNCHANGED count

(* The deadline: an error, which ends the run. *)
TimeOut(p) ==
  /\ pc[p] = "check" /\ ~ready[p] /\ ~MayPause(p)
  /\ Exit(p)
  /\ UNCHANGED zone /\ UNCHANGED ca /\ UNCHANGED count

(* A killed process, or a failing call that ends the run. *)
Abort(p) ==
  /\ pc[p] \in {"get", "delete", "create"} /\ Mishap
  /\ failures' = failures + 1
  /\ Exit(p)
  /\ UNCHANGED <<edits, begun>> /\ UNCHANGED zone /\ UNCHANGED ca

-----------------------------------------------------------------------------
(* The provider, the CA and the customer (outside of src/). *)

ApiExpose(o) ==
  /\ o \notin exposed /\ exposed' = exposed \cup {o}
  /\ UNCHANGED <<issued, settled, pc>>
  /\ UNCHANGED zone /\ UNCHANGED count /\ UNCHANGED local

(* The CA resolves the name: several CNAMEs of it are no answer. *)
CaValidate(o) ==
  /\ o \in exposed \ issued /\ DataOf(records) = {Wanted[o]}
  /\ issued' = issued \cup {o}
  /\ UNCHANGED <<exposed, settled, pc>>
  /\ UNCHANGED zone /\ UNCHANGED count /\ UNCHANGED local

(* By hand: the CNAME that some order asks for. *)
CustomerAdds(o) ==
  /\ Mishap
  /\ \E i \in Ids :
       NewId(i) /\ records' = records \cup {[id |-> i, data |-> Wanted[o], own |-> FALSE]}
  /\ edits' = edits + 1 /\ writer' = "customer"
  /\ UNCHANGED <<failures, begun, pc>> /\ UNCHANGED ca /\ UNCHANGED local

CustomerRemovesOwn ==
  /\ Mishap
  /\ \E r \in OwnRecords : records' = records \ {r}
  /\ edits' = edits + 1 /\ writer' = "customer"
  /\ UNCHANGED <<failures, begun, pc>> /\ UNCHANGED ca /\ UNCHANGED local

(* "remove the conflicting record(s) manually first" *)
CustomerClears ==
  /\ \E r \in Foreign : records' = records \ {r}
  /\ writer' = "customer"
  /\ UNCHANGED pc /\ UNCHANGED count /\ UNCHANGED ca /\ UNCHANGED local

-----------------------------------------------------------------------------
Run(p) == \E work \in Worklists[p] : Start(p, work)

Continue(p) ==
  \/ GetOrder(p) \/ Lookup(p)
  \/ DeleteStale(p) \/ DeleteMissing(p) \/ Create(p) \/ CreateRefused(p)
  \/ Deliver(p) \/ Pause(p) \/ PollAgain(p) \/ TimeOut(p)

ProcessStep(p) == Run(p) \/ Continue(p) \/ LookupFails(p) \/ Abort(p)

Customer == (\E o \in Orders : CustomerAdds(o)) \/ CustomerRemovesOwn \/ CustomerClears

Environment == Customer \/ \E o \in Orders : ApiExpose(o) \/ CaValidate(o)

Next == (\E p \in Procs : ProcessStep(p)) \/ Environment

Spec == Init /\ [][Next]_vars

Quiet == \A p \in Procs : pc[p] = "idle"

(* The timer starts renew again and again and a run that is not killed goes *)
(* on, until its deadline at the latest.  The provider shows the record of  *)
(* an order, the CA looks at the zone now and then between the runs, and    *)
(* the customer removes what is in the way.                                 *)
Fairness ==
  /\ \A p \in Resuming : SF_vars(Run(p))
  /\ \A p \in Procs : WF_vars(Continue(p)) /\ SF_vars(TimeOut(p))
  /\ \A o \in Orders : WF_vars(ApiExpose(o)) /\ SF_vars(CaValidate(o) /\ Quiet)
  /\ WF_vars(CustomerClears)

FairSpec == Spec /\ Fairness

-----------------------------------------------------------------------------
(* Properties. *)

(* Every variable holds a value of its kind, and no two records share an id. *)
TypeOK ==
  /\ records \subseteq RecordType /\ \A r, s \in records : r.id = s.id => r = s
  /\ settled \subseteq issued /\ issued \subseteq exposed /\ exposed \subseteq Orders
  /\ failures \in Nat /\ edits \in Nat /\ failures + edits <= MaxMishaps
  /\ pc \in [Procs -> Steps] /\ at \in [Procs -> Orders \cup {NoOrder}]
  /\ \A p \in Procs : pc[p] = "idle" <=> at[p] = NoOrder
  /\ todo \in [Procs -> SUBSET Orders] /\ \A p \in Procs : at[p] \notin todo[p]
  /\ cache \in [Procs -> SUBSET Values] /\ queue \in [Procs -> SUBSET Values]
  /\ asked \in [Procs -> BOOLEAN] /\ ready \in [Procs -> BOOLEAN]
  /\ stale \in [Procs -> SUBSET Ids]
  /\ begun \subseteq Procs \ Resuming
  /\ writer \in Procs \cup {"nobody", "customer"}

(* certbro never changes or removes a CNAME it has not annotated, however   *)
(* the zone changes between its lookup and its deletions.                   *)
ForeignKept == [][Foreign \subseteq records' \/ CustomerClears]_vars

(* A run that waits for an order has left the value the CA looks for in the *)
(* zone, whichever values the answer shows and it published before, as long *)
(* as nobody else has touched the zone since.                               *)
WaitsPublished ==
  \A p \in Procs :
    pc[p] = "check" /\ asked[p] /\ writer = p => Wanted[at[p]] \in DataOf(records)

(* However runs overlap and fail, CNAMEs of certbro do not pile up: at most *)
(* one for each process, and one for each lookup that failed.               *)
NoPileUp == Cardinality(OwnRecords) <= Cardinality(Procs) + failures

(* Every order whose validation record the provider shows is validated and  *)
(* delivered in the end, though the orders replace each other's record.     *)
OrdersDelivered == \A o \in Orders : o \in exposed ~> o \in settled

-----------------------------------------------------------------------------
(* The invariants behind them. *)

(* Only records of certbro wait for their removal, and a record is created  *)
(* when all are gone or after a failed lookup.                              *)
Creating == {p \in Procs : pc[p] = "create"}
ZoneInv ==
  /\ IsFiniteSet(records)
  /\ \A p \in Procs, r \in records : r.id \in stale[p] => r.own
  /\ Cardinality(OwnRecords) + Cardinality(Creating) <= Cardinality(Procs) + failures

(* What the cache of a run tells: the value of an order that is still to    *)
(* come is not in it, and that of the order at hand is the last one it has  *)
(* published, if it has.                                                    *)
Publishing == {"lookup", "delete", "create"}
CacheInv(p) ==
  /\ pc[p] = "idle" => cache[p] = {}
  /\ \A o \in todo[p] : Wanted[o] \notin cache[p]
  /\ pc[p] # "idle" /\ Wanted[at[p]] \in cache[p] =>
       /\ Shown(at[p]) \subseteq cache[p]
       /\ writer = p => Wanted[at[p]] \in DataOf(records)
  /\ pc[p] \in Publishing => queue[p] = Shown(at[p]) \ cache[p] /\ queue[p] # {}
  /\ pc[p] = "check" /\ asked[p] => Wanted[at[p]] \in cache[p]

(* The walk over the values of an answer and over the orders of a run keeps *)
(* account of the zone: it implies NoPileUp and WaitsPublished.             *)
ProvisionInv ==
  /\ TypeOK /\ \A p \in Procs : ready[p] => at[p] \in issued
  /\ ZoneInv /\ \A p \in Procs : CacheInv(p)
=============================================================================
