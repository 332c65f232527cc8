------------------------------- MODULE Exclusion -------------------------------
(***************************************************************************)
(* ExclusionInstancias and RequireInstanceIdle: mutating requests on one   *)
(* instance exclude each other, first by the Redis lock of the instance,   *)
(* then by the RUNNING row of the Proxmox task.  A request of class        *)
(* "tarea" (power, deletion, snapshots) leaves such a row behind; one of   *)
(* class "config" (PUT /config) does not.  Time passes in ticks.           *)
(***************************************************************************)
EXTENDS Integers, FiniteSets

CONSTANTS
  Pedidos,     \* requests on the instance
  Clase,       \* "tarea" or "config"
  Lecturas,    \* Proxmox reads before the order goes out
  TtlLock,     \* ttlLockInstancia
  MaxLlamada,  \* time a Proxmox call takes at most, answered or given up
  MaxCaidas    \* bound: kills of the API

ASSUME ExclusionAssumption ==
  /\ "nadie" \notin Pedidos
  /\ Clase \in [Pedidos -> {"tarea", "config"}]
  /\ Lecturas \in [Pedidos -> Nat \ {0}]
  /\ TtlLock \in Nat \ {0} /\ MaxLlamada \in Nat \ {0}
  /\ MaxCaidas \in Nat

VARIABLES
  servicio,  \* whether the API serves requests
  fase,      \* where each request is
  conLock,   \* whether it took the lock (Redis may not answer)
  hechas,    \* Proxmox calls it has completed
  reloj,     \* age of its current call
  lock,      \* holder of lock:instance:{vmid}:operation
  edadLock,
  fila,      \* row of its task in tareas_asincronas
  remoto,    \* its operation in Proxmox
  caidas     \* how much of the bound is spent

vars == <<servicio, fase, conLock, hechas, reloj, lock, edadLock, fila, remoto, caidas>>
tiempo == <<hechas, reloj>>

Nadie == "nadie"
Llamadas == {"lectura", "orden", "verificar"}   \* phases with a call under way

Init ==
  /\ servicio = "sirviendo"
  /\ fase = [p \in Pedidos |-> "nuevo"]
  /\ conLock = [p \in Pedidos |-> FALSE]
  /\ hechas = [p \in Pedidos |-> 0]
  /\ reloj = [p \in Pedidos |-> 0]
  /\ lock = Nadie
  /\ edadLock = 0
  /\ fila = [p \in Pedidos |-> "ausente"]
  /\ remoto = [p \in Pedidos |-> "nada"]
  /\ caidas = 0

Pasar(p, f) == fase' = [fase EXCEPT ![p] = f]

\* The current call of p ends.
FinLlamada(p) ==
  /\ hechas' = [hechas EXCEPT ![p] = @ + 1]
  /\ reloj' = [reloj EXCEPT ![p] = 0]

-------------------------------------------------------------------------------
(* Reservar *)

\* SET NX: the lock is taken, or the request is refused at once.
TomarLock(p) ==
  /\ servicio = "sirviendo" /\ fase[p] = "nuevo"
  /\ IF lock = Nadie
     THEN /\ lock' = p
          /\ edadLock' = 0
          /\ conLock' = [conLock EXCEPT ![p] = TRUE]
          /\ Pasar(p, "activas")
     ELSE /\ Pasar(p, "fin")
          /\ UNCHANGED <<lock, edadLock, conLock>>
  /\ UNCHANGED <<servicio, tiempo, fila, remoto, caidas>>

\* Redis does not answer: only the database is looked at.
SinRedis(p) ==
  /\ servicio = "sirviendo" /\ fase[p] = "nuevo"
  /\ Pasar(p, "activas")
  /\ UNCHANGED <<servicio, conLock, tiempo, lock, edadLock, fila, remoto, caidas>>

HayActiva == \E q \in Pedidos : fila[q] = "RUNNING"

\* Mutant: the database is not looked at.
VerificarActivasNunca(p) ==
  /\ fase[p] = "activas"
  /\ Pasar(p, "lectura")
  /\ UNCHANGED <<servicio, conLock, tiempo, lock, edadLock, fila, remoto, caidas>>

\* BuscarTareasActivasPorVmids; the database may fail.
VerificarActivas(p) ==
  /\ fase[p] = "activas"
  /\ \/ ~HayActiva /\ Pasar(p, "lectura")
     \/ Pasar(p, "soltar")
  /\ UNCHANGED <<servicio, conLock, tiempo, lock, edadLock, fila, remoto, caidas>>

-------------------------------------------------------------------------------
(* The handler *)

\* A read answers; after the last one the order goes out.
Leer(p) ==
  /\ fase[p] = "lectura"
  /\ FinLlamada(p)
  /\ IF hechas[p] + 1 < Lecturas[p]
     THEN UNCHANGED <<fase, remoto>>
     ELSE Pasar(p, "orden") /\ remoto' = [remoto EXCEPT ![p] = "enviada"]
  /\ UNCHANGED <<servicio, conLock, lock, edadLock, fila, caidas>>

\* A read fails, or what it says rules the operation out.
Abandonar(p) ==
  /\ fase[p] = "lectura"
  /\ FinLlamada(p)
  /\ Pasar(p, "soltar")
  /\ UNCHANGED <<servicio, conLock, lock, edadLock, fila, remoto, caidas>>

\* Mutant: the lock is let go before Seguir.
OrdenAceptadaSinLock(p) ==
  /\ fase[p] = "orden"
  /\ remoto[p] \in {"ejecutando", "terminada"}
  /\ FinLlamada(p)
  /\ Pasar(p, IF Clase[p] = "tarea" THEN "registrar" ELSE "verificar")
  /\ lock' = IF lock = p THEN Nadie ELSE lock
  /\ UNCHANGED <<servicio, conLock, edadLock, fila, remoto, caidas>>

\* Proxmox has taken the order; a config is read again if the instance runs.
OrdenAceptada(p) ==
  /\ fase[p] = "orden"
  /\ remoto[p] \in {"ejecutando", "terminada"}
  /\ FinLlamada(p)
  /\ IF Clase[p] = "tarea"
     THEN Pasar(p, "registrar")
     ELSE \E f \in {"verificar", "soltar"} : Pasar(p, f)
  /\ UNCHANGED <<servicio, conLock, lock, edadLock, fila, remoto, caidas>>

\* An error or a time-out, whatever Proxmox did or still does with the order.
OrdenFallida(p) ==
  /\ fase[p] = "orden"
  /\ FinLlamada(p)
  /\ Pasar(p, "soltar")
  /\ UNCHANGED <<servicio, conLock, lock, edadLock, fila, remoto, caidas>>

\* Seguir commits the RUNNING row, or fails (TASK_TRACKING_UNAVAILABLE).
Registrar(p) ==
  /\ fase[p] = "registrar"
  /\ fila' \in {[fila EXCEPT ![p] = "RUNNING"], fila}
  /\ Pasar(p, "soltar")
  /\ UNCHANGED <<servicio, conLock, tiempo, lock, edadLock, remoto, caidas>>

Verificar(p) ==
  /\ fase[p] = "verificar"
  /\ FinLlamada(p)
  /\ Pasar(p, "soltar")
  /\ UNCHANGED <<servicio, conLock, lock, edadLock, fila, remoto, caidas>>

\* liberar: a compare-and-delete with the token of p (or Redis fails).
Soltar(p) ==
  /\ fase[p] = "soltar"
  /\ \/ lock = p /\ lock' = Nadie /\ edadLock' = 0
     \/ UNCHANGED <<lock, edadLock>>
  /\ Pasar(p, "fin")
  /\ hechas' = [hechas EXCEPT ![p] = 0]
  /\ UNCHANGED <<servicio, conLock, reloj, fila, remoto, caidas>>

-------------------------------------------------------------------------------
(* Proxmox, and the task tracking of module Seguimiento *)

ProxmoxAcepta(p) ==
  /\ remoto[p] = "enviada"
  /\ remoto' = [remoto EXCEPT ![p] = IF Clase[p] = "tarea" THEN "ejecutando" ELSE "terminada"]
  /\ UNCHANGED <<servicio, fase, conLock, tiempo, lock, edadLock, fila, caidas>>

ProxmoxRechaza(p) ==
  /\ remoto[p] = "enviada"
  /\ remoto' = [remoto EXCEPT ![p] = "rechazada"]
  /\ UNCHANGED <<servicio, fase, conLock, tiempo, lock, edadLock, fila, caidas>>

ProxmoxTermina(p) ==
  /\ remoto[p] = "ejecutando"
  /\ remoto' = [remoto EXCEPT ![p] = "terminada"]
  /\ UNCHANGED <<servicio, fase, conLock, tiempo, lock, edadLock, fila, caidas>>

\* finalizar: the task has ended, or UpidTimeout has passed.
CerrarTarea(p) ==
  /\ servicio = "sirviendo"
  /\ fila[p] = "RUNNING"
  /\ fila' = [fila EXCEPT ![p] = "cerrada"]
  /\ UNCHANGED <<servicio, fase, conLock, tiempo, lock, edadLock, remoto, caidas>>

-------------------------------------------------------------------------------
(* Crash, restart and time *)

Caer ==
  /\ servicio = "sirviendo"
  /\ caidas < MaxCaidas
  /\ caidas' = caidas + 1
  /\ servicio' = "caido"
  /\ fase' = [p \in Pedidos |-> IF fase[p] = "nuevo" THEN "nuevo" ELSE "fin"]
  /\ hechas' = [p \in Pedidos |-> 0]
  /\ reloj' = [p \in Pedidos |-> 0]
  /\ UNCHANGED <<conLock, lock, edadLock, fila, remoto>>

\* RecuperarYReconciliarAlArranque: rows whose task has ended are closed, and
\* with them goes the residual lock, whoever's it is.
Arrancar ==
  /\ servicio = "caido"
  /\ servicio' = "sirviendo"
  /\ \E S \in SUBSET {p \in Pedidos : fila[p] = "RUNNING" /\ remoto[p] = "terminada"} :
       /\ fila' = [p \in Pedidos |-> IF p \in S THEN "cerrada" ELSE fila[p]]
       /\ IF S = {} THEN UNCHANGED <<lock, edadLock>> ELSE lock' = Nadie /\ edadLock' = 0
  /\ UNCHANGED <<fase, conLock, tiempo, remoto, caidas>>

\* What the API does on its own takes no time.
Espera(p) ==
  /\ fase[p] \in Llamadas \cup {"nuevo", "fin"}
  /\ fase[p] \in Llamadas => reloj[p] < MaxLlamada

Tic ==
  /\ \A p \in Pedidos : Espera(p)
  /\ reloj' = [p \in Pedidos |-> IF fase[p] \in Llamadas THEN reloj[p] + 1 ELSE reloj[p]]
  /\ IF lock # Nadie /\ edadLock + 1 < TtlLock
     THEN edadLock' = edadLock + 1 /\ UNCHANGED lock
     ELSE edadLock' = 0 /\ lock' = Nadie
  /\ UNCHANGED <<servicio, fase, conLock, hechas, fila, remoto, caidas>>

-------------------------------------------------------------------------------
PasoDePedido(p) ==
  \/ TomarLock(p) \/ SinRedis(p) \/ VerificarActivas(p)
  \/ Leer(p) \/ Abandonar(p) \/ OrdenAceptada(p) \/ OrdenFallida(p)
  \/ Registrar(p) \/ Verificar(p) \/ Soltar(p)

PasoAjeno(p) ==
  ProxmoxAcepta(p) \/ ProxmoxRechaza(p) \/ ProxmoxTermina(p) \/ CerrarTarea(p)

Next ==
  \/ Caer \/ Arrancar \/ Tic
  \/ \E p \in Pedidos : PasoDePedido(p) \/ PasoAjeno(p)

Spec == Init /\ [][Next]_vars

-------------------------------------------------------------------------------
(* Properties *)

\* Every variable stays in its range, and the lock in its TTL.
TypeOK ==
  /\ servicio \in {"sirviendo", "caido"}
  /\ fase \in [Pedidos -> Llamadas \cup {"nuevo", "activas", "registrar", "soltar", "fin"}]
  /\ conLock \in [Pedidos -> BOOLEAN]
  /\ hechas \in [Pedidos -> Nat]
  /\ reloj \in [Pedidos -> 0 .. MaxLlamada]
  /\ lock \in Pedidos \cup {Nadie}
  /\ edadLock \in 0 .. TtlLock - 1
  /\ fila \in [Pedidos -> {"ausente", "RUNNING", "cerrada"}]
  /\ remoto \in [Pedidos -> {"nada", "enviada", "ejecutando", "terminada", "rechazada"}]
  /\ caidas \in 0 .. MaxCaidas

\* p is changing the instance, or Proxmox is on behalf of p.
EnOperacion(p) ==
  \/ fase[p] \in {"orden", "registrar", "verificar"}
  \/ remoto[p] \in {"enviada", "ejecutando"}

\* Nothing remembers the operation of p any more: the answer to its order or
\* its row was lost, or the row was closed with TIMEOUT.
Perdida(p) == fase[p] = "fin" /\ fila[p] # "RUNNING"

(***************************************************************************)
(* "una sola operación a la vez por instancia" (docs/contrato-etapa1.md):  *)
(* the lock hands over to the RUNNING row without a gap, whatever fails in *)
(* between; only requests without Redis and lost operations escape.        *)
(***************************************************************************)
ExclusionMutua == \A p, q \in Pedidos :
  p # q /\ conLock[p] /\ conLock[q] /\ EnOperacion(p) /\ EnOperacion(q)
    => Perdida(p) \/ Perdida(q)

(***************************************************************************)
(* At most one RUNNING row per instance: BuscarTareasActivasPorVmids and   *)
(* activeTask rely on it (tarea_repository.go:162).                        *)
(***************************************************************************)
UnaTareaRunning == \A p, q \in Pedidos :
  p # q /\ conLock[p] /\ conLock[q] => fila[p] # "RUNNING" \/ fila[q] # "RUNNING"

(***************************************************************************)
(* The lock outlives every request that holds it (exclusion_instancias.go: *)
(* 16, "Cubre con margen las dos consultas a Proxmox del handler").        *)
(***************************************************************************)
EnSeccion(p) == conLock[p] /\ fase[p] \notin {"nuevo", "fin"}

LockCubre == \A p \in Pedidos : EnSeccion(p) => lock = p
===============================================================================
