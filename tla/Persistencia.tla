---------------------------- MODULE Persistencia ----------------------------
(* What is kept: the base, migrated by InitDB, the store of the degraded mode *)
(* and the audit log.  Here they share nothing: a behaviour moves only one of *)
(* them.                                                                      *)
EXTENDS Naturals

CONSTANTS Llaves, Ventanas, Procesos, Cerrojo, Valores, TTLs, Miembros, Largo, Limite, MaxTiempo, CadaCuanto
CONSTANTS Usuarios, Grafias, Fijas, UltimoTrimestre, MaxEscrituras, CaidasInicio
CONSTANTS Organizaciones, Acciones, Tamano, Lote, LargoTrimestre, MaxInstante, MaxRegistros
VARIABLES pieza
VARIABLES ahora, datos, eventos, tiene, resp, ultimaLimpieza
VARIABLES paso, base, registros, usuarios, trimestre, visto, semilla, cuentas
VARIABLES instante, log, pendientes, alerta, cliente

varsAlmacen == <<ahora, datos, eventos, tiene, resp, ultimaLimpieza>>
M == INSTANCE AlmacenMemoria

varsBase == <<paso, base, registros, usuarios, trimestre, visto, semilla, cuentas>>
B == INSTANCE Arranque WITH MaxCaidas <- CaidasInicio

varsLog == <<instante, log, pendientes, alerta, cliente>>
L == INSTANCE Auditoria WITH ahora <- instante, registros <- log, MaxTiempo <- MaxInstante

ASSUME PersistenciaAssumption == M!Supuestos /\ B!Supuestos /\ L!Supuestos

Piezas ==
    /\ M!Init /\ B!Init /\ L!Init
    /\ \/ pieza = "base"
       \/ pieza \in {"memoria", "log"} /\ base = B!BaseNueva

MuevePieza ==
    \/ pieza = "base" /\ B!Next /\ UNCHANGED <<varsAlmacen, varsLog, pieza>>
    \/ pieza = "memoria" /\ M!Next /\ UNCHANGED <<varsBase, varsLog, pieza>>
    \/ pieza = "log" /\ L!Next /\ UNCHANGED <<varsAlmacen, varsBase, pieza>>

varsPiezas == <<varsAlmacen, varsBase, varsLog, pieza>>
SpecPiezas == Piezas /\ [][MuevePieza]_varsPiezas

\* The properties of Arranque, by their names there: the audit history
\* survives the migration,
HistorialIntacto == B!HistorialIntacto
\* no two users not eliminated share an address,
CorreoUnico == B!CorreoUnico
\* only deleted users become eliminated,
ClasificacionFiel == B!ClasificacionFiel
\* a start that fails at the partitions has its cause.
TrabaConCausa == B!TrabaConCausa

\* The property of AlmacenMemoria: it answers as Redis would.
CumpleAlmacen == M!CumpleAlmacen

\* The property of Auditoria: a client that pages misses nothing, and a
\* download that ends is whole.
LecturaEntera == L!LecturaEntera
=============================================================================
