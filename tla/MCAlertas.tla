----------------------------- MODULE MCAlertas -----------------------------
(* Two replicas, an alert after two cycles.                                   *)
EXTENDS Alertas
=============================================================================
