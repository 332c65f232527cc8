------------------------------- MODULE Capacidad -------------------------------
(***************************************************************************)
(* What admission control promises: a request is admitted only if all that *)
(* is admitted then fits below the limit.  What failed is dropped, and what *)
(* the code has lost sight of.                                             *)
(***************************************************************************)
EXTENDS Naturals, FiniteSetsExt

CONSTANTS Pedidos, Memoria, Limite

VARIABLE admitidos

Suma(S) == MapThenSumSet(LAMBDA p : Memoria[p], S)

Admitir(p) ==
  /\ Suma(admitidos \cup {p}) <= Limite
  /\ admitidos' = admitidos \cup {p}

Descartar(S) == admitidos' = admitidos \ S

CapacidadSpec ==
  /\ admitidos = {}
  /\ [][(\E p \in Pedidos : Admitir(p)) \/ (\E S \in SUBSET Pedidos : Descartar(S))]_admitidos
================================================================================
