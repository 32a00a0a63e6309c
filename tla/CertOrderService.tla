-------------------------- MODULE CertOrderService --------------------------
(***************************************************************************)
(* CertOrder implements CertService: what the provider's orders, the       *)
(* record and the webserver's files of CertOrder stand for there.          *)
(***************************************************************************)
EXTENDS CertOrderInvariant

Requests == {k \in Keys : api[k].status # "none" \/ \E o \in Keys : api[o].rcsr = k}
Outstanding == IF rec.pending = "" THEN NoKey ELSE OutstandingKey
Serving == [key |-> served.key, cert |-> served.cert.key]

Service == INSTANCE CertService
             WITH requests <- Requests, outstanding <- Outstanding, serving <- Serving

(* A key in preparation is in no request yet. *)
KeyUnused == pc \in Placing => key \notin Requests

(* What a run saves over the record of an outstanding request is the same    *)
(* request, or the end of it after its certificate has been loaded.          *)
SavesSettled ==
  pc = "saverec" /\ rec.pending # "" =>
    /\ mem.id = rec.id
    /\ mem.pending = rec.pending \/ (mem.pending = "" /\ served.key = Outstanding)

ServiceInv == KeyUnused /\ SavesSettled

(* Every run of issue and renew, with all its crashes and retries, does what *)
(* CertService promises: no second request beside a recorded one, no         *)
(* recorded request forgotten before its certificate is served, no key       *)
(* served with another certificate.                                          *)
ImplementsService == Service!Spec
=============================================================================
