------------------------------- MODULE Cerrojos -------------------------------
(* The two critical sections under a lock of the store: one instance, whose   *)
(* operations Exclusion serialises, and the node, whose memory Cuotas hands   *)
(* out.  Here they share nothing: a behaviour moves only one of them.         *)
EXTENDS Exclusion

CONSTANTS Solicitudes, Claves, Memorias, Calientes, MemTotal, MemUsada, Base,
          TtlProvision, TtlCapacidad, LimiteLlamada
VARIABLES parte, etapa, reloj2, lista, foto, cerrojo, edadCerrojo, reservas, cache, remoto2,
          perdidas, vencido

varsNodo == <<etapa, reloj2, lista, foto, cerrojo, edadCerrojo, reservas, cache, remoto2, perdidas, vencido>>
C == INSTANCE Cuotas WITH
    Pedidos <- Solicitudes, Clase <- Claves, Memoria <- Memorias, EnCaliente <- Calientes,
    TtlLock <- TtlProvision,
    fase <- etapa, reloj <- reloj2, lock <- cerrojo, edadLock <- edadCerrojo, remoto <- remoto2

ASSUME CuotasAssumption == IsFiniteSet(Solicitudes) /\ C!Supuestos

Partes == Init /\ C!Init /\ parte \in {"instancia", "nodo"}
MueveUna ==
    \/ parte = "instancia" /\ Next /\ UNCHANGED <<varsNodo, parte>>
    \/ parte = "nodo" /\ C!Next /\ UNCHANGED <<vars, parte>>
SpecPartes == Partes /\ [][MueveUna]_<<vars, varsNodo, parte>>

\* The properties of Cuotas, the RAM that it loses sight of apart: the node is
\* never promised more memory than it has,
SinSobreasignar == C!SinSobreasignar
NuncaSobreasigna == C!NuncaSobreasigna
\* what Proxmox may be creating keeps its reservation,
ReservaCubre == C!ReservaCubre
\* and each admission finds room as if it were alone.
CumpleCapacidad == C!CumpleCapacidad
=============================================================================
