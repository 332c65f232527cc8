----------------------------- MODULE MCEventos -----------------------------
(* Connections of any kind, one place for WebSockets and short buffers.  The  *)
(* first event is about the instance, the second is directed to the user and  *)
(* the third is about the host.                                               *)
EXTENDS Eventos
Clase == <<"vm", "dirigido", "host">>
=============================================================================
