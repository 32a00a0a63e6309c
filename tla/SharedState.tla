----------------------------- MODULE SharedState -----------------------------
(***************************************************************************)
(* What the commands of certbro share: state.json, the certbro.json of     *)
(* every managed certificate and the lock file of `renew`.  A command      *)
(* reads state.json when it starts and replaces it with its own copy at    *)
(* the end of each save (src/internal/config/store.go, persistManaged in   *)
(* src/internal/app/manager.go); `renew` and `update` take their records   *)
(* from the certificate directories (storeForRenew in                      *)
(* src/internal/app/app.go), and only `renew` takes the lock.              *)
(*                                                                         *)
(* Reading or replacing one file, and one call of the API, is one step.    *)
(* How a single order is placed, resumed and deployed is CertOrder; here   *)
(* an order is open, then issued or rejected, later due for renewal, then  *)
(* open again while it is reissued, and perhaps forgotten by the provider. *)
(***************************************************************************)
EXTENDS Integers, FiniteSets

CONSTANTS
  Procs,         \* processes that run a command
  NoProc,        \* nobody holds the lock
  Commands,      \* the commands they run
  Names,         \* names of certificates, each with a directory of its own
  NoName,        \* no certificate
  Rank,          \* the order in which WalkDir meets the directories
  Managed,       \* names managed, and issued, from the start
  Outside,       \* names whose --output-dir is not under the root
  Selections,    \* what renew is run for: all names, or those of --name
  ApiKeys,       \* API keys to configure
  NoApiKey,      \* none configured yet
  Days,          \* values of validity_days
  DefaultDays,   \* the one managed certificates have
  MaxOrders,     \* bound: orders of the provider
  Console,       \* names whose orders wait for the customer or for OV checks
  Reissues,      \* contracts outlive their certificates, which are reissued
  Rejects,       \* orders, and reissues, may be rejected
  Purges,        \* the provider may forget an order once it is due
  AbortPoints,   \* the steps at which a process may die or fail
  MaxAborts      \* bound: how many times one does

Orders == 1 .. MaxOrders
NoOrder == 0

ASSUME ProcsAssumption == NoProc \notin Procs
ASSUME NamesAssumption ==
  /\ NoName \notin Names
  /\ Managed \subseteq Names /\ Outside \subseteq Names /\ Console \subseteq Names
  /\ Rank \in [Names -> Orders]
  /\ \A m, n \in Names : Rank[m] = Rank[n] => m = n
ASSUME ValuesAssumption ==
  /\ NoApiKey \notin ApiKeys /\ DefaultDays \in Days
  /\ Selections \subseteq SUBSET Names
  /\ MaxOrders \in Nat /\ MaxAborts \in Nat
  /\ Rejects \in BOOLEAN

Steps == {"idle", "lock", "discover", "next", "post", "wait", "saverec", "savestate"}

ASSUME AbortsAssumption == AbortPoints \subseteq Steps \ {"idle"}

VARIABLES
  state,    \* state.json: the API key and the managed certificates
  disk,     \* the certbro.json in each certificate directory
  lock,     \* the process that has locked the lock file
  orders,   \* the provider's orders
  aborts,   \* how many commands have failed so far
  pc,       \* where a process is
  after,    \* where it goes when the state is saved
  cmd,      \* the command it runs
  arg,      \* the name it works on
  mem,      \* the record of that name, in memory
  store,    \* its copy of state.json
  todo      \* the targets renew has not come to yet

files == <<state, disk>>
world == <<lock, orders, aborts>>
vars  == <<state, disk, lock, orders, aborts, pc, after, cmd, arg, mem, store, todo>>

RecType   == [id: Orders \cup {NoOrder}, pending: BOOLEAN, days: Days]
NoRec     == [id |-> NoOrder, pending |-> FALSE, days |-> DefaultDays]
StoreType == [api: ApiKeys \cup {NoApiKey}, list: [Names -> RecType]]
OrderType == [of: Names \cup {NoName}, from: Orders \cup {NoOrder}, days: Days,
              status: {"none", "open", "issued", "rejected", "gone"}, due: BOOLEAN]

NoStore == [api |-> NoApiKey, list |-> [n \in Names |-> NoRec]]
Unused  == [of |-> NoName, from |-> NoOrder, days |-> DefaultDays,
            status |-> "none", due |-> FALSE]

FirstRec(n) == IF n \in Managed THEN [NoRec EXCEPT !.id = Rank[n]] ELSE NoRec
FirstOrder(o) ==
  IF \E n \in Managed : Rank[n] = o
  THEN [Unused EXCEPT !.of = CHOOSE n \in Managed : Rank[n] = o, !.status = "issued"]
  ELSE Unused

Init ==
  /\ disk = [n \in Names |-> FirstRec(n)]
  /\ state = [api |-> NoApiKey, list |-> disk]
  /\ lock = NoProc /\ aborts = 0
  /\ orders = [o \in Orders |-> FirstOrder(o)]
  /\ pc = [p \in Procs |-> "idle"] /\ after = pc
  /\ cmd = [p \in Procs |-> "none"] /\ arg = [p \in Procs |-> NoName]
  /\ mem = [p \in Procs |-> NoRec] /\ store = [p \in Procs |-> NoStore]
  /\ todo = [p \in Procs |-> {}]

-----------------------------------------------------------------------------
(* Certificates renew and update can find: those under the root. *)
Managing(list) == {n \in Names : list[n].id # NoOrder}
Discovered == [n \in Names |-> IF n \in Outside THEN NoRec ELSE disk[n]]

(* The next of the targets, which are in the order of their directories. *)
Target(p, n) == n \in todo[p] /\ \A m \in todo[p] : Rank[n] <= Rank[m]

(* Mutant of Free: the lock file is never locked. *)
FreeAnyway == TRUE

Free == lock = NoProc

(* Mutant of Released: a lock file a dead process leaves behind. *)
ReleasedIfDone(p) == IF lock = p /\ todo[p] = {} THEN NoProc ELSE lock

(* The kernel releases the lock of a process that ends, however it ends. *)
Released(p) == IF lock = p THEN NoProc ELSE lock

(* A process goes on at step s. *)
Goto(p, s) == pc' = [pc EXCEPT ![p] = s]

Exit(p) ==
  /\ Goto(p, "idle") /\ after' = [after EXCEPT ![p] = "idle"]
  /\ cmd' = [cmd EXCEPT ![p] = "none"] /\ arg' = [arg EXCEPT ![p] = NoName]
  /\ mem' = [mem EXCEPT ![p] = NoRec] /\ store' = [store EXCEPT ![p] = NoStore]
  /\ todo' = [todo EXCEPT ![p] = {}]
  /\ lock' = Released(p)

(* Save record r of the name at hand, then go on at step s. *)
SaveThen(p, r, s) ==
  /\ Goto(p, "saverec")
  /\ mem' = [mem EXCEPT ![p] = r] /\ after' = [after EXCEPT ![p] = s]

(* Every command begins by reading state.json. *)
Start(p, c, n, r, s) ==
  /\ pc[p] = "idle" /\ c \in Commands
  /\ cmd' = [cmd EXCEPT ![p] = c] /\ arg' = [arg EXCEPT ![p] = n]
  /\ mem' = [mem EXCEPT ![p] = r] /\ Goto(p, s)
  /\ UNCHANGED after /\ UNCHANGED files /\ UNCHANGED world

(* certbro configure: the key is validated before it is saved. *)
Configure(p, k) ==
  /\ Start(p, "configure", NoName, NoRec, "savestate")
  /\ store' = [store EXCEPT ![p] = [state EXCEPT !.api = k]]
  /\ UNCHANGED todo

(* certbro update --validity-days d *)
Update(p, n, d) ==
  /\ Start(p, "update", n, [NoRec EXCEPT !.days = d], "discover")
  /\ store' = [store EXCEPT ![p] = state]
  /\ UNCHANGED todo

(* certbro issue: a name in state.json is refused. *)
Issue(p, n, d) ==
  /\ state.list[n].id = NoOrder
  /\ Start(p, "issue", n, [NoRec EXCEPT !.days = d], "post")
  /\ store' = [store EXCEPT ![p] = state]
  /\ UNCHANGED todo

(* certbro import of an issued order; again if it is the one managed. *)
Import(p, n, o) ==
  /\ orders[o].of = n /\ orders[o].status = "issued"
  /\ state.list[n].id \in {NoOrder, o}
  /\ Start(p, "import", n, [id |-> o, pending |-> FALSE, days |-> orders[o].days],
           "saverec")
  /\ store' = [store EXCEPT ![p] = state]
  /\ UNCHANGED todo

(* certbro renew, for all names or for those given. *)
Renew(p, sel) ==
  /\ Start(p, "renew", NoName, NoRec, "lock")
  /\ store' = [store EXCEPT ![p] = state]
  /\ todo' = [todo EXCEPT ![p] = sel]

RenewLock(p) ==
  /\ pc[p] = "lock" /\ Free
  /\ lock' = p /\ Goto(p, "discover")
  /\ UNCHANGED <<orders, aborts, after, cmd, arg, mem, store, todo>> /\ UNCHANGED files

(* "another certbro renew process is already running; skipping" *)
RenewLocked(p) ==
  /\ pc[p] = "lock" /\ ~Free
  /\ Exit(p)
  /\ UNCHANGED <<orders, aborts>> /\ UNCHANGED files

(* storeForRenew: what is found replaces the list of state.json; a name     *)
(* given with --name that is not found ends the run.                        *)
RenewDiscover(p) ==
  /\ pc[p] = "discover" /\ cmd[p] = "renew"
  /\ LET sel == IF todo[p] = Names THEN Managing(Discovered) ELSE todo[p] IN
     \/ /\ sel # {} /\ sel \subseteq Managing(Discovered)
        /\ store' = [store EXCEPT ![p].list = Discovered]
        /\ todo' = [todo EXCEPT ![p] = sel] /\ Goto(p, "next")
        /\ UNCHANGED <<lock, after, cmd, arg, mem>>
     \/ /\ sel = {} \/ ~(sel \subseteq Managing(Discovered))
        /\ Exit(p)
  /\ UNCHANGED <<orders, aborts>> /\ UNCHANGED files

(* update changes the record it finds, and its own copy of state.json. *)
UpdateDiscover(p) ==
  /\ pc[p] = "discover" /\ cmd[p] = "update"
  /\ \/ /\ arg[p] \in Managing(Discovered)
        /\ SaveThen(p, [disk[arg[p]] EXCEPT !.days = mem[p].days], "idle")
        /\ UNCHANGED <<lock, cmd, arg, store, todo>>
     \/ arg[p] \notin Managing(Discovered) /\ Exit(p)
  /\ UNCHANGED <<orders, aborts>> /\ UNCHANGED files

(* The loop of Renew: the next target, as its record was when discovered.   *)
(* renewOne resumes a request that is pending here or with the provider,    *)
(* renews what is due or forgotten, and saves the record of a certificate   *)
(* that needs neither.                                                      *)
Unfinished(r) == r.pending \/ orders[r.id].status = "open"
Renewable(r) == orders[r.id].due \/ orders[r.id].status = "gone"

Plan(r) ==
  CASE Unfinished(r) -> "wait"
    [] ~Unfinished(r) /\ Renewable(r) -> "post"
    [] OTHER -> "saverec"

RenewNext(p) ==
  /\ pc[p] = "next"
  /\ \E n \in Names :
       LET r == store[p].list[n] IN
       /\ Target(p, n)
       /\ arg' = [arg EXCEPT ![p] = n] /\ mem' = [mem EXCEPT ![p] = r]
       /\ todo' = [todo EXCEPT ![p] = @ \ {n}]
       /\ after' = [after EXCEPT ![p] = "next"]
       /\ Goto(p, Plan(r))
  /\ UNCHANGED <<cmd, store>> /\ UNCHANGED files /\ UNCHANGED world

RenewDone(p) ==
  /\ pc[p] = "next" /\ todo[p] = {}
  /\ Exit(p)
  /\ UNCHANGED <<orders, aborts>> /\ UNCHANGED files

(* startOrder places the order and saves its id before it waits. *)
PostOrder(p) ==
  /\ pc[p] = "post"
  /\ \E o \in Orders :
       /\ orders[o].status = "none" /\ \A q \in Orders : q < o => orders[q].status # "none"
       /\ orders' = [orders EXCEPT ![o] =
            [of |-> arg[p], from |-> mem[p].id, days |-> mem[p].days,
             status |-> "open", due |-> FALSE]]
       /\ SaveThen(p, [mem[p] EXCEPT !.id = o, !.pending = TRUE], "wait")
  /\ UNCHANGED <<lock, aborts, cmd, arg, store, todo>> /\ UNCHANGED files

(* performReissue: the order at hand is reissued, and recorded as pending.  *)
(* A reissue that has failed before may be tried again.                     *)
PostReissue(p) ==
  /\ pc[p] = "post" /\ cmd[p] = "renew" /\ Reissues
  /\ orders[mem[p].id].status \in {"issued", "rejected"}
  /\ orders' = [orders EXCEPT ![mem[p].id].status = "open"]
  /\ SaveThen(p, [mem[p] EXCEPT !.pending = TRUE], "wait")
  /\ UNCHANGED <<lock, aborts, cmd, arg, store, todo>> /\ UNCHANGED files

AfterOrder(p) == IF cmd[p] = "renew" THEN "next" ELSE "idle"

(* waitAndDownload and finishDeployment: the certificate is deployed. *)
Finish(p) ==
  /\ pc[p] = "wait" /\ orders[mem[p].id].status = "issued"
  /\ SaveThen(p, [mem[p] EXCEPT !.pending = FALSE], AfterOrder(p))
  /\ UNCHANGED <<cmd, arg, store, todo>> /\ UNCHANGED files /\ UNCHANGED world

(* The order waits for a step in the console, or for the validation of the  *)
(* organization: the record stays pending, the run goes on.                 *)
Pause(p) ==
  /\ pc[p] = "wait" /\ orders[mem[p].id].status = "open" /\ arg[p] \in Console
  /\ SaveThen(p, mem[p], AfterOrder(p))
  /\ UNCHANGED <<cmd, arg, store, todo>> /\ UNCHANGED files /\ UNCHANGED world

(* The deadline passes first: an error, and an error ends the whole run. *)
TimeOut(p) ==
  /\ pc[p] = "wait" /\ orders[mem[p].id].status = "open"
  /\ Exit(p)
  /\ UNCHANGED <<orders, aborts>> /\ UNCHANGED files

(* So is an order, or a reissue, that was rejected, and a pending request   *)
(* whose order the provider has forgotten.                                  *)
Refused(p) ==
  /\ pc[p] = "wait" /\ orders[mem[p].id].status \in {"rejected", "gone"}
  /\ Exit(p)
  /\ UNCHANGED <<orders, aborts>> /\ UNCHANGED files

(* Mutant of SaveRecord: state.json is replaced first. *)
SaveStateFirst(p) ==
  /\ pc[p] = "saverec" /\ Goto(p, "savestate")
  /\ store' = [store EXCEPT ![p].list[arg[p]] = mem[p]]
  /\ state' = [store[p] EXCEPT !.list[arg[p]] = mem[p]]
  /\ UNCHANGED <<disk, after, cmd, arg, mem, todo>> /\ UNCHANGED world

(* persistManaged: certbro.json, then the copy of state.json and the file. *)
SaveRecord(p) ==
  /\ pc[p] = "saverec" /\ Goto(p, "savestate")
  /\ disk' = [disk EXCEPT ![arg[p]] = mem[p]]
  /\ store' = [store EXCEPT ![p].list[arg[p]] = mem[p]]
  /\ UNCHANGED <<state, after, cmd, arg, mem, todo>> /\ UNCHANGED world

SaveState(p) ==
  /\ pc[p] = "savestate" /\ state' = store[p]
  /\ \/ after[p] = "idle" /\ Exit(p)
     \/ /\ after[p] # "idle" /\ Goto(p, after[p])
        /\ UNCHANGED <<lock, after, cmd, arg, mem, store, todo>>
  /\ UNCHANGED <<disk, orders, aborts>>

(* The process is killed, or an error ends the command. *)
Abort(p) ==
  /\ pc[p] \in AbortPoints /\ aborts < MaxAborts
  /\ aborts' = aborts + 1
  /\ Exit(p)
  /\ UNCHANGED orders /\ UNCHANGED files

-----------------------------------------------------------------------------
(* The provider and the clock (outside of src/). *)

OrderStep(o, c) ==
  /\ orders' = [orders EXCEPT ![o] = c]
  /\ UNCHANGED <<lock, aborts, pc, after, cmd, arg, mem, store, todo>> /\ UNCHANGED files

ApiIssue(o) ==
  /\ orders[o].status = "open"
  /\ OrderStep(o, [orders[o] EXCEPT !.status = "issued", !.due = FALSE])

ApiReject(o) ==
  /\ Rejects /\ orders[o].status = "open"
  /\ OrderStep(o, [orders[o] EXCEPT !.status = "rejected"])

ApiPurge(o) ==
  /\ Purges /\ orders[o].status = "issued" /\ orders[o].due
  /\ OrderStep(o, [orders[o] EXCEPT !.status = "gone"])

(* Bound: certificates become due while orders are left to replace them. *)
Replaced(o) == \E q \in Orders : orders[q].from = o
BecomeDue(o) ==
  /\ orders[o].status = "issued" /\ ~orders[o].due
  /\ Cardinality({q \in Orders : orders[q].due /\ ~Replaced(q)})
       < Cardinality({q \in Orders : orders[q].status = "none"})
  /\ OrderStep(o, [orders[o] EXCEPT !.due = TRUE])

-----------------------------------------------------------------------------
Begin(p) ==
  \/ \E k \in ApiKeys : Configure(p, k)
  \/ \E n \in Names, d \in Days : Update(p, n, d) \/ Issue(p, n, d)
  \/ \E n \in Names, o \in Orders : Import(p, n, o)

RenewRun(p) == \E sel \in Selections : Renew(p, sel)

Continue(p) ==
  \/ RenewLock(p) \/ RenewLocked(p) \/ RenewDiscover(p) \/ UpdateDiscover(p)
  \/ RenewNext(p) \/ RenewDone(p) \/ PostOrder(p) \/ PostReissue(p)
  \/ Finish(p) \/ Pause(p) \/ TimeOut(p) \/ Refused(p) \/ SaveRecord(p) \/ SaveState(p)

Environment ==
  \E o \in Orders : ApiIssue(o) \/ ApiReject(o) \/ ApiPurge(o) \/ BecomeDue(o)

Next ==
  \/ \E p \in Procs : Begin(p) \/ RenewRun(p) \/ Continue(p) \/ Abort(p)
  \/ Environment

Spec == Init /\ [][Next]_vars

(* The timer runs renew again and again, whatever else is run; a command    *)
(* that is not killed goes on, and the provider decides on an order.        *)
Fairness ==
  /\ \A p \in Procs : SF_vars(RenewRun(p)) /\ WF_vars(Continue(p))
  /\ \A o \in Orders : WF_vars(ApiIssue(o))

FairSpec == Spec /\ Fairness

-----------------------------------------------------------------------------
(* Properties. *)

(* Every variable holds a value of its kind. *)
TypeOK ==
  /\ state \in StoreType /\ disk \in [Names -> RecType]
  /\ lock \in Procs \cup {NoProc} /\ aborts \in 0 .. MaxAborts
  /\ orders \in [Orders -> OrderType]
  /\ pc \in [Procs -> Steps] /\ after \in [Procs -> {"idle", "wait", "next"}]
  /\ cmd \in [Procs -> Commands \cup {"none"}] /\ arg \in [Procs -> Names \cup {NoName}]
  /\ mem \in [Procs -> RecType] /\ store \in [Procs -> StoreType]
  /\ todo \in [Procs -> SUBSET Names]

(* A run of renew holds the lock from before it reads the records until it  *)
(* has saved the last of them.                                              *)
RenewsAlone ==
  \A p \in Procs : cmd[p] = "renew" /\ pc[p] # "lock" => lock = p

(* Every certificate in state.json, and in the copy of it any command may   *)
(* still write back, has its record on disk, wherever a save was cut short: *)
(* persistManaged writes certbro.json first and Save renames a whole file.  *)
ListedHasRecord ==
  \A n \in Names :
    disk[n].id = NoOrder =>
      /\ state.list[n].id = NoOrder
      /\ \A p \in Procs : store[p].list[n].id = NoOrder

(* What makes ListedHasRecord inductive: a command starts with nothing left *)
(* of another, never saves, waits for or renews a record without an order,  *)
(* and comes only to what it found.                                         *)
HasOrder(p) ==
  pc[p] \in {"saverec", "wait"} \/ after[p] # "idle" \/ (cmd[p] = "renew" /\ pc[p] = "post")
SavesOrders ==
  \A p \in Procs :
    /\ pc[p] = "idle" => after[p] = "idle" /\ todo[p] = {}
    /\ HasOrder(p) => mem[p].id # NoOrder
    /\ cmd[p] # "renew" \/ pc[p] \notin {"lock", "discover"} =>
         todo[p] \subseteq Managing(store[p].list)
ListedInv == TypeOK /\ SavesOrders /\ ListedHasRecord

(* No order is renewed twice, by overlapping, interrupted or repeated runs: *)
(* renew resumes "the existing pending request instead of starting a        *)
(* duplicate order".                                                        *)
RenewedOnce ==
  \A o, q \in Orders :
    orders[o].from = orders[q].from /\ orders[o].from # NoOrder => o = q

(* What makes it inductive when nothing but renew writes records: orders    *)
(* are placed and recorded one at a time, by the process with the lock ...  *)
RenewOnly == Commands \subseteq {"renew", "configure"} /\ "saverec" \notin AbortPoints

RunsRenew ==
  \A p \in Procs :
    pc[p] \in {"next", "post", "wait", "saverec"} \/ after[p] # "idle" => cmd[p] = "renew"

(* ... every record has an order of its own, and every order replaced one   *)
(* that was placed ...                                                      *)
OrdersPlaced ==
  /\ \A n \in Names : disk[n].id # NoOrder =>
       orders[disk[n].id].of = n /\ orders[disk[n].id].status # "none"
  /\ \A o \in Orders :
       /\ orders[o].status = "none" => orders[o].from = NoOrder
       /\ orders[o].from # NoOrder => orders[orders[o].from].status # "none"

(* ... what a run has yet to come to is what it found on disk ...           *)
TargetsCurrent ==
  \A p \in Procs : cmd[p] = "renew" /\ pc[p] # "lock" /\ pc[p] # "discover" =>
    /\ pc[p] # "next" => arg[p] \notin todo[p]
    /\ \A n \in todo[p] : disk[n].id # NoOrder /\ store[p].list[n].id = disk[n].id

(* ... it works on the order the record names, until it records its own ... *)
WorksOnRecord ==
  \A p \in Procs : cmd[p] = "renew" =>
    /\ pc[p] \in {"post", "wait", "savestate"} =>
         arg[p] \in Names /\ mem[p].id # NoOrder /\ mem[p].id = disk[arg[p]].id
    /\ pc[p] = "saverec" =>
         /\ arg[p] \in Names /\ mem[p].id # NoOrder /\ ~Replaced(mem[p].id)
         /\ orders[mem[p].id].of = arg[p] /\ orders[mem[p].id].status # "none"

(* ... and a recorded order has been replaced only while the new one is     *)
(* about to be recorded.                                                    *)
ReplacedIsSaved ==
  \A n \in Names : disk[n].id # NoOrder /\ Replaced(disk[n].id) =>
    \E p \in Procs : pc[p] = "saverec" /\ arg[p] = n

OnceInv ==
  /\ ListedInv /\ RenewsAlone /\ RunsRenew /\ OrdersPlaced /\ TargetsCurrent
  /\ WorksOnRecord /\ ReplacedIsSaved /\ RenewedOnce

(* Any certificate that is due is replaced, or reissued, by some later run  *)
(* of renew: a deadline that ends the run before it, a request of another   *)
(* name that is still open, or a killed run only delays it.                 *)
DueIsRenewed ==
  \A n \in Names :
    (disk[n].id # NoOrder /\ orders[disk[n].id].due)
      ~> ~orders[disk[n].id].due
=============================================================================
