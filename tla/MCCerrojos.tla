----------------------------- MODULE MCCerrojos -----------------------------
(* A small instance of Cerrojos for TLC, which visits the spaces of its two   *)
(* parts one after the other.  Ticks of 5 s for the instance and of 10 s for   *)
(* the node: its lock lasts three, the snapshot and a call one.               *)
EXTENDS Cerrojos, TLC

CONSTANTS k, a1, v1

\* Two power operations and a change of configuration.
ClaseMC == [p \in Pedidos |-> IF p = k THEN "config" ELSE "tarea"]
\* ObtenerInstancia and buscarInstancia; for a configuration the instance, its
\* configuration twice, and the three reads of obtenerCapacidad.
LecturasMC == [p \in Pedidos |-> IF p = k THEN 6 ELSE 2]

\* Two creations, an extension and a change of vCPU: the node has room for one.
ClavesMC == [p \in Solicitudes |-> CASE p = a1 -> "ampliar" [] p = v1 -> "cores" [] OTHER -> "crear"]
MemoriasMC == [p \in Solicitudes |-> IF p = v1 THEN 0 ELSE 4]
CalientesMC == [p \in Solicitudes |-> TRUE]

Simetria == Permutations(Pedidos \ {k}) \cup Permutations(Solicitudes \ {a1, v1})

\* One of the four requests is not made; and after a lock expired under its holder
\* the properties of the node promise nothing.
Corte == ~vencido /\ \E p \in Solicitudes : etapa[p] = "nuevo"

\* The lock outlives the work under it, and Redis answers after a PUT: what is left
\* to go wrong is the PUT itself.
SoloElPUT ==
    /\ ~vencido
    /\ \A p \in Solicitudes : etapa[p] = "soltar" /\ remoto2[p] # "nada" => ~cache.hay
=============================================================================
