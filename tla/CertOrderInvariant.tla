------------------------- MODULE CertOrderInvariant -------------------------
(***************************************************************************)
(* The inductive invariant behind ServedMatches and PendingKeyKept: what   *)
(* is true of the record, of pending/, of live/ and of the order at the    *)
(* provider at every step of a command.  It holds when a failed run never  *)
(* stops between certbro.json and state.json and reissues do not fail.     *)
(***************************************************************************)
EXTENDS CertOrder

Holding == Waiting \cup {"download"} \cup Deploying

(* A command that prepares a request has made its key; past that, and for a *)
(* reissue from the start, it knows the order it works on.                  *)
IdKnown ==
  /\ pc \in Placing => key # NoKey
  /\ pc \in Placing /\ act = "reissue" => mem.id # NoKey
  /\ pc \in Holding \cup {"saverec", "savelist"} => mem.id # NoKey

TypeInv == TypeOK /\ IdKnown

Reissuing(o) == api[o].status = "issued" /\ api[o].reissue = "active"

(* The certificate of an order is that of its own key until a reissue of    *)
(* it is finished, and then that of the reissue's key.                      *)
OrderOK(o) ==
  /\ api[o].status \in {"none", "pending", "rejected"} =>
       api[o].cert = NoKey /\ api[o].rcsr = NoKey
  /\ api[o].status = "none" => api[o] = NoOrder
  /\ api[o].rcsr = NoKey => api[o].cert \in {o, NoKey} /\ api[o].reissue = "none"
  /\ api[o].rcsr # NoKey /\ api[o].reissue # "active" => api[o].cert = api[o].rcsr
  /\ api[o].reissue = "active" => api[o].cert # api[o].rcsr

ApiOK == \A o \in Keys : OrderOK(o)

(* The key of the request that record r calls pending. *)
KeyOf(r) == IF r.pending = "reissue" THEN api[r.id].rcsr ELSE r.id
AllPendingIs(k) == \A f \in Files : pend[f] = k
LiveIs(k) == live = served /\ live.key = k /\ live.cert.key = k

(* Record r agrees with the provider and with the directories. *)
RecordOK(r) ==
  /\ r.id = NoKey => r.pending = ""
  /\ r.id # NoKey =>
       /\ api[r.id].status # "none"
       /\ r.pending = "" => api[r.id].status \in {"issued", "gone"}
       /\ r.pending \in OrderActions => api[r.id].rcsr = NoKey
       /\ r.pending = "reissue" => api[r.id].rcsr # NoKey
       /\ Reissuing(r.id) => AllPendingIs(api[r.id].rcsr)
  /\ r.pending # "" =>
       \/ AllPendingIs(KeyOf(r))
       \/ (\A f \in Files : pend[f] \in {KeyOf(r), NoKey}) /\ LiveIs(KeyOf(r))

(* Only an unlisted certificate is issued, and it has no record then. *)
ListedOK == rec.id # NoKey => listed \/ pc = "savelist"

(* A request is prepared while none is pending, with a key nobody knows. *)
PlacingOK ==
  pc \in Placing =>
    /\ api[key].status = "none"
    /\ rec.pending = ""
    /\ rec.id # NoKey => ~Reissuing(rec.id) /\ api[rec.id].cert # key
    /\ act = "reissue" => mem = rec /\ rec.id # NoKey
    /\ pc \in {"csr", "meta", "post"} => pend["privkey"] = key
    /\ pc \in {"meta", "post"} => pend["csr"] = key
    /\ pc = "post" => pend["meta"] = key

(* What is about to be saved is right, and so is what follows. *)
SavingOK ==
  pc \in {"saverec", "savelist"} =>
    /\ mem.id # NoKey /\ RecordOK(mem)
    /\ pc = "savelist" => rec = mem
    /\ after = "ensure" =>
         /\ mem.pending = act /\ key = KeyOf(mem) /\ AllPendingIs(key)

(* A command that waits or deploys has the key of the order it waits for. *)
HoldingOK ==
  pc \in Holding =>
    /\ mem = rec /\ rec.id # NoKey
    /\ act = IF rec.pending = "" THEN "reissue" ELSE rec.pending
    /\ key # NoKey
    /\ key = IF act = "reissue" THEN api[rec.id].rcsr ELSE rec.id
    /\ pc # "clear" => AllPendingIs(key)
    /\ pc \in {"dcv", "check"} /\ Ready(snap, act, prev) => api[rec.id].cert = key
    /\ pc \in {"download"} \cup Deploying => api[rec.id].cert = key
    /\ pc \in {"livekey", "livecert"} => got.key = key
    /\ pc \in {"livecert", "reload", "clear"} => live.key = key
    /\ pc \in {"reload", "clear"} => live.cert.key = key
    /\ pc = "clear" => served = live /\ \A f \in Files : pend[f] \in {key, NoKey}

(* The failures under which all of this is kept: state.json can be written  *)
(* whenever certbro.json could, and the provider does not fail reissues.    *)
FailuresCovered == "savelist" \notin AbortPoints /\ ~ApiReissueFails

(* All of it: every step of certbro, the provider and the clock keeps it,   *)
(* and it implies ServedMatches and PendingKeyKept.                         *)
IInv ==
  /\ TypeInv /\ ApiOK /\ RecordOK(rec) /\ ListedOK
  /\ PlacingOK /\ SavingOK /\ HoldingOK /\ ServedMatches
=============================================================================
