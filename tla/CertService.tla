----------------------------- MODULE CertService -----------------------------
(***************************************************************************)
(* What certbro promises for one certificate, whatever fails on the way:   *)
(* one request at a time, a recorded request is not dropped before the     *)
(* webserver runs with its certificate, and a private key is only ever     *)
(* served with its own certificate.                                        *)
(***************************************************************************)
CONSTANTS Keys, NoKey

VARIABLES
  requests,     \* keys the provider holds an order or a reissue for
  outstanding,  \* the key of the request certbro has recorded as pending
  serving       \* private key and certificate the webserver runs with

vars == <<requests, outstanding, serving>>

Init ==
  /\ requests = {} /\ outstanding = NoKey
  /\ serving = [key |-> NoKey, cert |-> NoKey]

(* An order or a reissue with a new key; an older reissue may lapse with it. *)
Ask(k) ==
  /\ outstanding = NoKey /\ k \notin requests
  /\ k \in requests' /\ requests' \subseteq requests \cup {k}
  /\ UNCHANGED <<outstanding, serving>>

Record(k) ==
  /\ outstanding = NoKey /\ k \in requests
  /\ outstanding' = k
  /\ UNCHANGED <<requests, serving>>

(* The certificate of a request is deployed, of the outstanding one if any. *)
Serve(k) ==
  /\ k \in requests /\ outstanding \in {NoKey, k}
  /\ serving' = [key |-> k, cert |-> k]
  /\ UNCHANGED <<requests, outstanding>>

Settle ==
  /\ outstanding # NoKey /\ serving.key = outstanding
  /\ outstanding' = NoKey
  /\ UNCHANGED <<requests, serving>>

Next == (\E k \in Keys : Ask(k) \/ Record(k) \/ Serve(k)) \/ Settle

Spec == Init /\ [][Next]_vars
=============================================================================
