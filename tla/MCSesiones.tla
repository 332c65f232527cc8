----------------------------- MODULE MCSesiones -----------------------------
(* Two sessions, two handlers in flight and two logins. *)
EXTENDS Sesiones, TLC
Simetria == Permutations(Procs) \cup Permutations(Sesiones) \cup Permutations(Tokens)
=============================================================================
