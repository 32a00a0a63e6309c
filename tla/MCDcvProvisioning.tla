-------------------------- MODULE MCDcvProvisioning --------------------------
(* DcvProvisioning on a small instance: the timer's renew works off the two  *)
(* orders of a host, an issue by hand waits for the second one.              *)
EXTENDS DcvProvisioning, TLC

CONSTANTS timer, manual, rsa, ecdsa, v1, v2, v0

BothOrOne == timer :> {{rsa, ecdsa}} @@ manual :> {{ecdsa}}
WantedValues == rsa :> v1 @@ ecdsa :> v2
(* The RSA order is being reissued and still shows its first value. *)
FormerValues == rsa :> v0 @@ ecdsa :> NoValue
=============================================================================
