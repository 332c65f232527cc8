--------------------------- MODULE MCPersistencia ---------------------------
(* A small instance of Persistencia for TLC, which visits the spaces of its   *)
(* three parts one after the other.                                           *)
EXTENDS Persistencia, TLC

Simetria == Permutations(Organizaciones)

\* The bounds of the log: nothing is followed after the client ends, and while
\* it downloads what its query saw no write is left half done.
ClienteEnCurso ==
    /\ cliente.fase \notin {"fin", "cortada"}
    /\ cliente.tipo = "exporta" => pendientes = {} /\ alerta = L!SinAlerta
=============================================================================
