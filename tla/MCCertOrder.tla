---------------------------- MODULE MCCertOrder ----------------------------
(* CertOrder on small instances: the constants TLC runs it with. *)
EXTENDS CertOrderService, CertOrderAnswered, TLC

KeySymmetry == Permutations(Keys)

(* Every step may be the last one of a run ... *)
AnyStep == Steps \ {"idle"}
(* ... but for the one between certbro.json and state.json. *)
NotSaveList == AnyStep \ {"savelist"}

(* Every request is answered and its answer recorded. *)
Answered == AnyStep \ {"saverec", "savelist"}

(* ... and pending/ is not found half removed either. *)
Resumable == Answered \ {"clear"}
=============================================================================
