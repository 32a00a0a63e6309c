------------------------------ MODULE IssuePair ------------------------------
(***************************************************************************)
(* The RSA and the ECDSA certificate of one host: `issue-pair`, which      *)
(* issues both and then turns the reload on (src/internal/app/app.go), the *)
(* runs of `renew` that treat them one after the other, the files each     *)
(* deployment writes (src/internal/deploy/files.go) and the webserver that *)
(* is validated and reloaded afterwards and uses the files of both         *)
(* (src/internal/deploy/webserver.go).  How a single certificate is        *)
(* ordered and recorded is the subject of CertOrder; here a request and    *)
(* its record are one step.  The generation of a request stands for its    *)
(* private key and for its certificate.                                    *)
(***************************************************************************)
EXTENDS Integers, Sequences

CONSTANTS
  RenewOrder,    \* the order in which renew discovers the two directories
  Console,       \* orders may require a step in the console (OV products)
  MaxGen,        \* bound: requests per certificate
  AbortPoints,   \* the steps at which a run may die or fail
  MaxAborts      \* bound: how many runs do

Certs == {"rsa", "ecdsa"}
Pair == <<"rsa", "ecdsa">>
Commands == {"pair", "issue", "renew"}
Files == {"privkey", "fullchain"}
Waiting == {"wait", "resumed"}
Steps == {"idle", "visit", "wait", "resumed", "privkey", "fullchain", "validate", "reload",
          "clear", "save", "persist"}

(* webserverPlan: every kind of webserver is validated, then reloaded. *)
Plan == <<"validate", "reload">>

Worklists == {RenewOrder, <<"rsa">>, <<"ecdsa">>}

ASSUME PairAssumption ==
  /\ RenewOrder \in {<<"rsa", "ecdsa">>, <<"ecdsa", "rsa">>}
  /\ Console \in BOOLEAN /\ MaxGen \in Nat \ {0}
  /\ AbortPoints \subseteq Steps \ {"idle"} /\ MaxAborts \in Nat

VARIABLES
  orders,      \* the provider's latest request for each certificate
  rec,         \* certbro.json of each: known, pending, and does it reload?
  pend,        \* the certificate's pending/ holds its key
  live,        \* live/ of each: the generation of every file
  loaded,      \* what the webserver has loaded
  configured,  \* the webserver's configuration names both directories
  finished,    \* issue-pair has ended without an error
  aborts,      \* failed runs so far
  cmd,         \* the command that runs
  pc,          \* where it is
  todo,        \* the certificates it has not finished, the one at hand first
  mem          \* the records as it loaded and changed them

provider == <<orders>>
disk     == <<rec, pend, live>>
server   == <<loaded, configured>>
local    == <<cmd, todo, mem>>
vars     == <<orders, rec, pend, live, loaded, configured, finished, aborts,
              cmd, pc, todo, mem>>

NoOrder  == [gen |-> 0, state |-> "none"]
NoRecord == [known |-> FALSE, pending |-> FALSE, reload |-> FALSE]
Empty    == [f \in Files |-> 0]

Init ==
  /\ orders = [c \in Certs |-> NoOrder]
  /\ rec = [c \in Certs |-> NoRecord] /\ mem = rec
  /\ pend = [c \in Certs |-> FALSE]
  /\ live = [c \in Certs |-> Empty] /\ loaded = live
  /\ configured = FALSE /\ finished = FALSE /\ aborts = 0
  /\ cmd = "renew" /\ pc = "idle" /\ todo = <<>>

Whole(dir) == dir["privkey"] = dir["fullchain"] /\ dir["privkey"] # 0
(* The certificate at hand. *)
Cert == Head(todo)

Exit ==
  /\ pc' = "idle" /\ cmd' = "renew" /\ todo' = <<>>
  /\ mem' = [c \in Certs |-> NoRecord]

(* Mutant of NextCert: the last certificate is not seen to be the last. *)
NextCertAlways ==
  pc' = "visit" /\ todo' = Tail(todo) /\ UNCHANGED <<cmd, mem, finished>>

(* The next certificate; behind the second one issue-pair saves the settings. *)
NextCert ==
  IF Len(todo) > 1
  THEN pc' = "visit" /\ todo' = Tail(todo) /\ UNCHANGED <<cmd, mem, finished>>
  ELSE /\ UNCHANGED finished
       /\ \/ cmd # "pair" /\ Exit
          \/ cmd = "pair" /\ pc' = "persist" /\ todo' = Pair /\ UNCHANGED <<cmd, mem>>

-----------------------------------------------------------------------------
(* issue-pair: refused when state.json knows one of the names.  The RSA     *)
(* certificate is issued without webserver and hook.                        *)
StartPair ==
  /\ pc = "idle" /\ \A c \in Certs : ~rec[c].known
  /\ pc' = "visit" /\ cmd' = "pair" /\ todo' = Pair
  /\ mem' = [c \in Certs |-> [NoRecord EXCEPT !.reload = c = "ecdsa"]]
  /\ UNCHANGED <<finished, aborts>> /\ UNCHANGED provider
  /\ UNCHANGED disk /\ UNCHANGED server

(* renew works off records that are known, with copies of them. *)
StartRenew(work) ==
  /\ pc = "idle" /\ \A i \in DOMAIN work : rec[work[i]].known
  /\ pc' = "visit" /\ cmd' = "renew" /\ todo' = work /\ mem' = rec
  /\ UNCHANGED <<finished, aborts>> /\ UNCHANGED provider
  /\ UNCHANGED disk /\ UNCHANGED server

(* By name it is one of them, without names all that are discovered. *)
RenewAll ==
  \E work \in Worklists :
    /\ \A c \in Certs : rec[c].known => \E i \in DOMAIN work : work[i] = c
    /\ StartRenew(work)

(* When issue-pair has failed in between, the missing one is issued alone.  *)
StartIssue(c) ==
  /\ pc = "idle" /\ ~rec[c].known /\ \E d \in Certs : rec[d].known
  /\ pc' = "visit" /\ cmd' = "issue" /\ todo' = <<c>>
  /\ mem' = [rec EXCEPT ![c].reload = TRUE]
  /\ UNCHANGED <<finished, aborts>> /\ UNCHANGED provider
  /\ UNCHANGED disk /\ UNCHANGED server

(* An order of issue-pair or issue, or what renew finds due, with a new key *)
(* in pending/.                                                             *)
Request ==
  LET r == [mem[Cert] EXCEPT !.known = TRUE, !.pending = TRUE] IN
  /\ pc = "visit" /\ pc' = "wait" /\ ~mem[Cert].pending
  /\ orders[Cert].gen < MaxGen
  /\ \E s \in {"open"} \cup (IF Console THEN {"console"} ELSE {}) :
       orders' = [orders EXCEPT ![Cert] = [gen |-> @.gen + 1, state |-> s]]
  /\ mem' = [mem EXCEPT ![Cert] = r] /\ rec' = [rec EXCEPT ![Cert] = r]
  /\ pend' = [pend EXCEPT ![Cert] = TRUE]
  /\ UNCHANGED <<live, finished, aborts, cmd, todo>> /\ UNCHANGED server

(* renew: nothing is due; the record is written back as it was read. *)
Skip ==
  /\ pc = "visit" /\ cmd = "renew" /\ ~mem[Cert].pending
  /\ rec' = [rec EXCEPT ![Cert] = mem[Cert]]
  /\ NextCert
  /\ UNCHANGED <<pend, live, aborts>> /\ UNCHANGED provider /\ UNCHANGED server

(* renew: a pending request is resumed, if its key can be loaded. *)
Resume ==
  /\ pc = "visit" /\ mem[Cert].pending
  /\ \/ pend[Cert] /\ pc' = "resumed" /\ UNCHANGED local
     \/ ~pend[Cert] /\ Exit
  /\ UNCHANGED <<finished, aborts>> /\ UNCHANGED provider
  /\ UNCHANGED disk /\ UNCHANGED server

(* waitAndDownload.  An order that needs the console is not waited for, nor *)
(* is an organization-validated one in a resumed run: that is no error, and *)
(* the command goes on with the next certificate.                           *)
Pause ==
  /\ \/ pc \in Waiting /\ orders[Cert].state = "console"
     \/ pc = "resumed" /\ Console /\ orders[Cert].state = "open"
  /\ NextCert
  /\ UNCHANGED aborts /\ UNCHANGED provider /\ UNCHANGED disk /\ UNCHANGED server

(* The deadline is an error, which ends the command. *)
TimeOut ==
  /\ pc \in Waiting /\ orders[Cert].state = "open"
  /\ Exit
  /\ UNCHANGED <<finished, aborts>> /\ UNCHANGED provider
  /\ UNCHANGED disk /\ UNCHANGED server

Download ==
  /\ pc \in Waiting /\ orders[Cert].state = "issued"
  /\ pc' = "privkey"
  /\ UNCHANGED <<finished, aborts>> /\ UNCHANGED provider
  /\ UNCHANGED disk /\ UNCHANGED server /\ UNCHANGED local

(* WriteArtifacts: every file goes to a new directory of archive/ first and *)
(* is then replaced in live/; the private key comes before the certificate. *)
WriteFile(f, next) ==
  /\ pc = f /\ pc' = next
  /\ live' = [live EXCEPT ![Cert][f] = orders[Cert].gen]
  /\ UNCHANGED <<rec, pend, finished, aborts>> /\ UNCHANGED provider
  /\ UNCHANGED server /\ UNCHANGED local

(* Mutant of WriteArtifacts: only the first issuance reloads. *)
WriteArtifactsQuietly ==
  \/ WriteFile("privkey", "fullchain")
  \/ WriteFile("fullchain", IF mem[Cert].reload /\ cmd # "renew" THEN Head(Plan) ELSE "clear")

WriteArtifacts ==
  \/ WriteFile("privkey", "fullchain")
  \/ WriteFile("fullchain", IF mem[Cert].reload THEN Head(Plan) ELSE "clear")

(* Mutant of Validate: an invalid configuration does not stop the reload. *)
ValidateNothing ==
  /\ pc = "validate" /\ pc' = "reload"
  /\ UNCHANGED <<finished, aborts>> /\ UNCHANGED provider
  /\ UNCHANGED disk /\ UNCHANGED server /\ UNCHANGED local

(* The first command group of the plan, like nginx -t: it fails when a file *)
(* the configuration names is missing or a key does not fit its             *)
(* certificate, whichever of the two certificates that concerns.            *)
Validate ==
  /\ pc = "validate"
  /\ \/ /\ configured => \A c \in Certs : Whole(live[c])
        /\ pc' = Plan[2] /\ UNCHANGED local
     \/ /\ configured /\ \E c \in Certs : ~Whole(live[c])
        /\ Exit
  /\ UNCHANGED <<finished, aborts>> /\ UNCHANGED provider
  /\ UNCHANGED disk /\ UNCHANGED server

(* The second group; a reload that fails is an Abort. *)
Reload ==
  /\ pc = "reload" /\ pc' = "clear"
  /\ loaded' = IF configured THEN live ELSE loaded
  /\ UNCHANGED <<configured, finished, aborts>> /\ UNCHANGED provider
  /\ UNCHANGED disk /\ UNCHANGED local

(* Mutant of ClearPending: the record keeps its pending action. *)
ClearKeepingAction ==
  /\ pc = "clear" /\ pc' = "save"
  /\ pend' = [pend EXCEPT ![Cert] = FALSE]
  /\ UNCHANGED <<rec, live, finished, aborts>>
  /\ UNCHANGED provider /\ UNCHANGED server /\ UNCHANGED local

ClearPending ==
  /\ pc = "clear" /\ pc' = "save"
  /\ pend' = [pend EXCEPT ![Cert] = FALSE]
  /\ mem' = [mem EXCEPT ![Cert].pending = FALSE]
  /\ UNCHANGED <<rec, live, finished, aborts, cmd, todo>>
  /\ UNCHANGED provider /\ UNCHANGED server

SaveDeployed ==
  /\ pc = "save"
  /\ rec' = [rec EXCEPT ![Cert] = mem[Cert]]
  /\ NextCert
  /\ UNCHANGED <<pend, live, aborts>> /\ UNCHANGED provider /\ UNCHANGED server

(* Mutant of PersistSettings: only the second record is saved with them. *)
PersistLast ==
  /\ pc = "persist"
  /\ rec' = [rec EXCEPT !["ecdsa"] = [mem["ecdsa"] EXCEPT !.reload = TRUE]]
  /\ finished' = TRUE /\ Exit
  /\ UNCHANGED <<pend, live, aborts>> /\ UNCHANGED provider /\ UNCHANGED server

(* persistIssuePairSettings: one record after the other, webserver and hook *)
(* in both.                                                                 *)
PersistSettings ==
  /\ pc = "persist"
  /\ rec' = [rec EXCEPT ![Cert] = [mem[Cert] EXCEPT !.reload = TRUE]]
  /\ \/ Len(todo) > 1 /\ todo' = Tail(todo) /\ UNCHANGED <<pc, cmd, mem, finished>>
     \/ Len(todo) = 1 /\ finished' = TRUE /\ Exit
  /\ UNCHANGED <<pend, live, aborts>> /\ UNCHANGED provider /\ UNCHANGED server

(* The command is killed, or a write, a request or the reload fails. *)
Abort ==
  /\ pc \in AbortPoints /\ aborts < MaxAborts
  /\ aborts' = aborts + 1
  /\ Exit
  /\ UNCHANGED finished /\ UNCHANGED provider /\ UNCHANGED disk /\ UNCHANGED server

-----------------------------------------------------------------------------
(* Provider, customer and administrator (outside of src/). *)

OrderStep(c, from, to) ==
  /\ orders[c].state = from /\ orders' = [orders EXCEPT ![c].state = to]
  /\ UNCHANGED <<pc, finished, aborts>>
  /\ UNCHANGED disk /\ UNCHANGED server /\ UNCHANGED local

CaIssues(c) == OrderStep(c, "open", "issued")
CustomerCompletes(c) == OrderStep(c, "console", "open")

(* The webserver is pointed at both directories once they are there. *)
AdminConfigures ==
  /\ ~configured /\ configured' = TRUE
  /\ \A c \in Certs : Whole(live[c])
  /\ loaded' = live
  /\ UNCHANGED <<pc, finished, aborts>>
  /\ UNCHANGED provider /\ UNCHANGED disk /\ UNCHANGED local

-----------------------------------------------------------------------------
Continue ==
  \/ Request \/ Skip \/ Resume \/ Pause \/ TimeOut \/ Download \/ WriteArtifacts
  \/ Validate \/ Reload \/ ClearPending \/ SaveDeployed \/ PersistSettings

Environment ==
  AdminConfigures \/ \E c \in Certs : CaIssues(c) \/ CustomerCompletes(c)

Next ==
  \/ StartPair \/ (\E c \in Certs : StartIssue(c) \/ StartRenew(<<c>>))
  \/ RenewAll
  \/ Continue \/ Abort \/ Environment

Spec == Init /\ [][Next]_vars

(* The timer starts renew of everything again and again, commands go on     *)
(* until they end, and provider, customer and administrator do their part.  *)
Fairness ==
  /\ SF_vars(RenewAll) /\ WF_vars(Continue) /\ WF_vars(AdminConfigures)
  /\ \A c \in Certs : WF_vars(CaIssues(c)) /\ WF_vars(CustomerCompletes(c))

FairSpec == Spec /\ Fairness

-----------------------------------------------------------------------------
(* Properties. *)

(* Every variable holds a value of its kind, and a command that runs has a  *)
(* certificate at hand.                                                     *)
TypeOK ==
  /\ orders \in [Certs -> [gen: 0 .. MaxGen, state: {"none", "console", "open", "issued"}]]
  /\ rec \in [Certs -> [known: BOOLEAN, pending: BOOLEAN, reload: BOOLEAN]]
  /\ mem \in [Certs -> [known: BOOLEAN, pending: BOOLEAN, reload: BOOLEAN]]
  /\ pend \in [Certs -> BOOLEAN]
  /\ live \in [Certs -> [Files -> 0 .. MaxGen]] /\ loaded \in [Certs -> [Files -> 0 .. MaxGen]]
  /\ configured \in BOOLEAN /\ finished \in BOOLEAN /\ aborts \in 0 .. MaxAborts
  /\ cmd \in Commands /\ pc \in Steps /\ todo \in Worklists \cup {Pair, <<>>}
  /\ pc # "idle" <=> todo # <<>>

(* The webserver never runs with a private key of one and a certificate of  *)
(* another generation, even if the deployment of one certificate was        *)
(* interrupted and that of the other one reloads.                           *)
LoadedWhole == configured => \A c \in Certs : Whole(loaded[c])

(* Between commands, the key of every request that a record calls pending   *)
(* is there to resume it with.                                              *)
PairResumable == \A c \in Certs : pc = "idle" /\ rec[c].pending => pend[c]

(* When issue-pair has ended well, the renewals of both certificates reload *)
(* the webserver, and no later run loses the setting.                       *)
BothReload == finished => \A c \in Certs : rec[c].reload

Newest(c, g) == configured /\ rec[c].reload /\ orders[c] = [gen |-> g, state |-> "issued"]
TornBetween(c) == pc = "idle" /\ live[c]["privkey"] # live[c]["fullchain"]

(* Every certificate that is issued for a record with a webserver is what   *)
(* the webserver runs with in the end, whatever becomes of the other one.   *)
IssuedIsLoaded ==
  \A c \in Certs, g \in 1 .. MaxGen : Newest(c, g) ~> loaded[c]["fullchain"] >= g

(* Nothing keeps it from that but a live/, of this certificate or of the    *)
(* other one, that a run which died left half written.                      *)
LoadedUnlessTorn ==
  \A c \in Certs, g \in 1 .. MaxGen :
    Newest(c, g) ~> \/ loaded[c]["fullchain"] >= g
                    \/ \E d \in Certs : TornBetween(d)
=============================================================================
