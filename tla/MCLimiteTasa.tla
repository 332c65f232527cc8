---------------------------- MODULE MCLimiteTasa ----------------------------
(* Three requests, two IPs, two addresses, one temporary token.               *)
EXTENDS LimiteTasa, TLC

Simetria == Permutations(IPs) \cup Permutations(Correos)
=============================================================================
