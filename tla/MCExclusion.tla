------------------------------ MODULE MCExclusion ------------------------------
(* Small instances of Exclusion for TLC: ticks of 5 s, two power operations  *)
(* and a change of configuration.                                            *)
EXTENDS Exclusion

ClaseMC == [p \in Pedidos |-> IF p = "k" THEN "config" ELSE "tarea"]

\* ObtenerInstancia and buscarInstancia; for a configuration the instance, its
\* configuration twice, and the three reads of obtenerCapacidad.
LecturasMC == [p \in Pedidos |-> IF p = "k" THEN 6 ELSE 2]
================================================================================
