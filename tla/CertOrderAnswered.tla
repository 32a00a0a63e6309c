-------------------------- MODULE CertOrderAnswered --------------------------
(***************************************************************************)
(* The inductive invariants of CertOrder for runs that always record the   *)
(* answer to a request: no run ends between the answer and the save of the *)
(* record ("saverec", "savelist").  The provider may fail reissues then:   *)
(* the recorded action tells the run what it waits for, and the recorded   *)
(* end of validity whether it has come.                                    *)
(***************************************************************************)
EXTENDS CertOrderInvariant

(* The record as the next run will find it. *)
Current == IF pc = "saverec" THEN mem ELSE rec

-----------------------------------------------------------------------------
(* OneOpenOrder: the only order that may be open is the recorded one, and   *)
(* none is while a request is prepared.                                     *)
OpenInv ==
  /\ TypeInv /\ ListedOK
  /\ \A o \in Keys : api[o].status = "pending" => o = Current.id
  /\ pc \in Placing => \A o \in Keys : api[o].status # "pending"
  /\ pc \in Holding \cup {"savelist"} => mem.id = rec.id

-----------------------------------------------------------------------------
(* PendingResumable: pending/ is complete from the last WritePending to     *)
(* ClearPending.                                                            *)
WrittenOK ==
  pc \in Placing =>
    /\ pc # "privkey" => pend["privkey"] # NoKey
    /\ pc \in {"meta", "post"} => pend["csr"] # NoKey
    /\ pc = "post" => pend["meta"] # NoKey

ResumeInv ==
  /\ TypeInv /\ WrittenOK
  /\ pc # "clear" /\ Current.pending # "" => PendingLoadable
  /\ pc \in Holding \ {"clear"} => PendingLoadable
  /\ pc \in {"saverec", "savelist"} /\ after = "ensure" => PendingLoadable

-----------------------------------------------------------------------------
Unfinished(o) == api[o].reissue \in {"active", "failed"}

(* An order: as OrderOK, and a failed reissue leaves certificate and end of *)
(* validity alone.                                                          *)
OrderKept(o) ==
  /\ api[o].status = "none" => api[o] = NoOrder
  /\ api[o].status \in {"none", "pending", "rejected"} =>
       api[o].cert = NoKey /\ api[o].rcsr = NoKey /\ api[o].until = NoTime
  /\ api[o].status \in {"issued", "gone"} =>
       api[o].cert # NoKey /\ api[o].until # NoTime /\ api[o].contract # NoTime
  /\ api[o].rcsr = NoKey => api[o].cert \in {o, NoKey} /\ api[o].reissue = "none"
  /\ api[o].rcsr # NoKey =>
       api[o].cert = api[o].rcsr <=> ~Unfinished(o)
  /\ api[o].status \in {"issued", "gone"} /\ ~Unfinished(o) => ~api[o].action

OrdersKept == \A o \in Keys : OrderKept(o)

(* The certificate in live/ is the one record r tells of. *)
Tracks(r) ==
  /\ live.key = live.cert.key
  /\ live.cert.until = r.until /\ api[r.id].until = r.until

(* A record without a pending request: its certificate is deployed. *)
SettledOK(r) ==
  r.id # NoKey /\ r.pending = "" =>
    /\ api[r.id].status \in {"issued", "gone"} /\ ~Unfinished(r.id)
    /\ Tracks(r)

(* A record of a pending request: the order is there, and as long as a      *)
(* reissue is not done it ends when the record says.                        *)
RequestedOK(r) ==
  /\ r.pending \in OrderActions => api[r.id].rcsr = NoKey /\ api[r.id].status # "none"
  /\ r.pending = "reissue" =>
       /\ api[r.id].rcsr # NoKey /\ api[r.id].status \in {"issued", "gone"}
       /\ r.until # NoTime
       /\ Unfinished(r.id) => api[r.id].until = r.until

(* The request is fulfilled, and readyForDownload will see that it is       *)
(* unless the order is forgotten.                                           *)
Fulfilled(r) ==
  /\ api[r.id].cert = KeyOf(r)
  /\ r.pending = "reissue" => api[r.id].reissue = "issued" \/ api[r.id].until > r.until

(* Its key: in pending/, or partly removed from it after the deployment.    *)
(* Only a deployment of it may have torn live/.                             *)
FilesOK(r) ==
  /\ r.id = NoKey => r.pending = ""
  /\ r.pending # "" =>
       \/ /\ AllPendingIs(KeyOf(r))
          /\ live.key = live.cert.key \/ (live.key = KeyOf(r) /\ Fulfilled(r))
       \/ (\A f \in Files : pend[f] \in {KeyOf(r), NoKey}) /\ LiveIs(KeyOf(r))
  /\ r.pending = "" => live.key = live.cert.key

AgreedOK(r) == SettledOK(r) /\ RequestedOK(r) /\ FilesOK(r)

(* A request is prepared with a new key while nothing is pending. *)
PreparedOK ==
  pc \in Placing =>
    /\ api[key].status = "none" /\ rec.pending = ""
    /\ rec.id # NoKey => api[rec.id].cert # key
    /\ act = "reissue" => mem = rec /\ prev = rec.until
    /\ pc # "privkey" => pend["privkey"] = key
    /\ pc \in {"meta", "post"} => pend["csr"] = key
    /\ pc = "post" => pend["meta"] = key

(* The request a run works on is the one of record r. *)
WorksOn(r) ==
  /\ r.pending = act /\ key = KeyOf(r) /\ key # NoKey
  /\ act = "reissue" => prev = r.until

RecordedOK ==
  /\ pc = "savelist" => mem = rec
  /\ pc \in {"saverec", "savelist"} /\ after = "ensure" => WorksOn(mem) /\ AllPendingIs(key)

(* The order the run has seen certified cannot change any more. *)
Certified == api[rec.id].cert = key /\ snap.until = api[rec.id].until

FollowedOK ==
  pc \in Holding =>
    /\ mem = rec /\ rec.id # NoKey /\ WorksOn(rec)
    /\ pc # "clear" => AllPendingIs(key)
    /\ pc \in {"dcv", "check"} =>
         /\ Ready(snap, act, prev) => Certified /\ Fulfilled(rec)
         /\ live.key # live.cert.key => Ready(snap, act, prev) /\ ~snap.action
         /\ act = "reissue" =>
              /\ snap.until # NoTime
              /\ Unfinished(rec.id) => snap.until = api[rec.id].until
    /\ pc \in {"download"} \cup Deploying =>
         Certified /\ Fulfilled(rec) /\ api[rec.id].status \in {"issued", "gone"}
    /\ pc \in {"livekey", "livecert"} => got = [key |-> key, until |-> api[rec.id].until]
    /\ pc \in {"livecert", "reload", "clear"} => live.key = key
    /\ pc \in {"reload", "clear"} => live.cert = [key |-> key, until |-> api[rec.id].until]
    /\ pc = "clear" => served = live /\ \A f \in Files : pend[f] \in {key, NoKey}

(* All of it: it implies ServedMatches, RecordTracksLive and                *)
(* TornLiveIsRepaired.                                                      *)
AnsweredInv ==
  /\ TypeInv /\ ListedOK /\ OrdersKept /\ AgreedOK(Current)
  /\ PreparedOK /\ RecordedOK /\ FollowedOK
  /\ ServedMatches /\ RecordTracksLive
=============================================================================
