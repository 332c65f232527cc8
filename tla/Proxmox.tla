------------------------------ MODULE Proxmox ------------------------------
(***************************************************************************)
(* The hypervisor as cmd/proxmox-simulador implements it: the instances by *)
(* VMID and the one task each of them may have under way.  A task is       *)
(* accepted at once and takes effect when it ends.                         *)
(*                                                                         *)
(* gen counts the instances a VMID has named (a VMID is reused): a ghost   *)
(* of the model.  nucleos stands for the resources of the configuration,   *)
(* pendiente (0: none) for those a restart applies.                        *)
(***************************************************************************)
EXTENDS Naturals

CONSTANTS
    Vmids,
    Nombres,  \* of snapshots
    Nucleos   \* amounts of a resource

Raiz == "raiz"      \* the parent of a snapshot that has none
EstadosVm == {"running", "stopped", "paused"}
OpsEnergia == {"start", "stop", "shutdown", "reboot", "resume"}
OpsSnapshot == {"snapshot", "rollback", "delsnapshot"}
OpsTarea == OpsEnergia \cup OpsSnapshot \cup {"create", "delete"}

Nueva(g, tipo) ==
    [gen |-> g, vivo |-> TRUE, tipo |-> tipo, estado |-> "stopped", lock |-> "",
     snaps |-> <<>>, actual |-> Raiz, nucleos |-> 1, pendiente |-> 0]
Borrada(i) == [Nueva(i.gen, i.tipo) EXCEPT !.vivo = FALSE]

VARIABLES
    vm,      \* the instances by VMID
    tarea    \* the unfinished task of each VMID

proxmox == <<vm, tarea>>

SinTarea == [op |-> "nada"]

-----------------------------------------------------------------------------
\* Power

Encendida(i) == i.estado = "running"
AplicarPendientes(i) ==
    IF i.pendiente = 0 THEN i ELSE [i EXCEPT !.nucleos = i.pendiente, !.pendiente = 0]
Encender(i) == AplicarPendientes([i EXCEPT !.estado = "running"])

\* The task of a power action ends in OK.
Puede(i, op) ==
    /\ op = "start" => ~Encendida(i)
    /\ op \in {"shutdown", "reboot"} => Encendida(i)
    /\ op = "resume" => i.estado = "paused"
AplicarAccion(i, op) ==
    CASE ~Puede(i, op) -> i
      [] Puede(i, op) /\ op \in {"stop", "shutdown"} -> [i EXCEPT !.estado = "stopped"]
      [] OTHER -> Encender(i)

-----------------------------------------------------------------------------
\* Snapshots: the task of the creation holds the snapshot that was taken
\* when it was accepted.

Foto(i) == [padre |-> i.actual, nucleos |-> i.nucleos]
AgregarSnapshot(i, n) ==
    [i EXCEPT !.snaps = [s \in DOMAIN @ \cup {n} |-> IF s = n THEN Foto(i) ELSE @[s]], !.actual = n]

Revertir(i, n) ==
    [i EXCEPT !.estado = IF Encendida(i) THEN "stopped" ELSE @,
              !.nucleos = i.snaps[n].nucleos, !.pendiente = 0, !.actual = n]

\* The children of the removed snapshot hang from its parent.
Quitar(i, n) ==
    LET padre == i.snaps[n].padre
    IN  [i EXCEPT
            !.snaps = [s \in DOMAIN @ \ {n} |->
                          IF @[s].padre = n THEN [@[s] EXCEPT !.padre = padre] ELSE @[s]],
            !.actual = IF @ = n THEN padre ELSE @]

-----------------------------------------------------------------------------
\* Orders: [op, vmid, tipo, nombre, n]

LockDe(op) ==
    CASE op \in {"create", "rollback", "snapshot"} -> op
      [] op = "delsnapshot" -> "snapshot-delete"
      [] op = "delete" -> "destroyed"
      [] OTHER -> ""

Existe(v, tipo) == vm[v].vivo /\ vm[v].tipo = tipo
Libre(v) == vm[v].lock = "" /\ tarea[v] = SinTarea

AceptaBorrado(o) == o.op = "delete" => ~Encendida(vm[o.vmid])
\* The name of a new snapshot is free, that of another order exists.
AceptaSnapshot(o) ==
    o.op \in OpsSnapshot =>
        (o.op = "snapshot" <=> o.nombre \notin DOMAIN vm[o.vmid].snaps)
AceptaTarea(o) ==
    Existe(o.vmid, o.tipo) /\ Libre(o.vmid) /\ AceptaBorrado(o) /\ AceptaSnapshot(o)

\* The digest of the configuration covers the pending changes, the current
\* snapshot and the lock, not the instance it belongs to.
Digest(i) == <<AplicarPendientes(i).nucleos, i.actual, i.lock>>
\* An edition waits for no task, only for the lock.
AceptaConfig(o) ==
    /\ Existe(o.vmid, o.tipo) /\ vm[o.vmid].lock = "" /\ o.digest = Digest(vm[o.vmid])
EditarConfig(i, n) ==
    IF i.tipo = "lxc" \/ ~Encendida(i) THEN [i EXCEPT !.nucleos = n]
    ELSE [i EXCEPT !.pendiente = n]

Acepta(o) ==
    CASE o.op = "create" -> ~vm[o.vmid].vivo
      [] o.op = "config" -> AceptaConfig(o)
      [] OTHER -> AceptaTarea(o)

\* The effect of an order the hypervisor accepts, which de gave.
Ordenada(o, de) ==
    LET i == vm[o.vmid]
    IN  /\ vm' = [vm EXCEPT ![o.vmid] =
               CASE o.op = "create" -> [Nueva(i.gen + 1, o.tipo) EXCEPT !.lock = LockDe("create")]
                 [] o.op = "config" -> EditarConfig(i, o.n)
                 [] OTHER -> [i EXCEPT !.lock = LockDe(o.op)]]
        /\ tarea' = IF o.op = "config" THEN tarea
                    ELSE [tarea EXCEPT ![o.vmid] = [op |-> o.op, nombre |-> o.nombre, de |-> de]]

\* What the task of v leaves when it ends.
Efecto(v) ==
    LET i == [vm[v] EXCEPT !.lock = ""]
        t == tarea[v]
    IN  CASE t.op = "create" -> i
          [] t.op = "delete" -> Borrada(i)
          [] t.op = "snapshot" -> AgregarSnapshot(i, t.nombre)
          [] t.op = "rollback" -> Revertir(i, t.nombre)
          [] t.op = "delsnapshot" -> Quitar(i, t.nombre)
          [] OTHER -> AplicarAccion(i, t.op)
Exito(v) == tarea[v].op \in OpsEnergia => Puede(vm[v], tarea[v].op)
Terminada(v) ==
    /\ tarea[v] # SinTarea
    /\ vm' = [vm EXCEPT ![v] = Efecto(v)]
    /\ tarea' = [tarea EXCEPT ![v] = SinTarea]

\* GET /cluster/nextid: the least free VMID, 0 when there is none.
SiguienteID ==
    LET libres == {v \in Vmids : ~vm[v].vivo}
    IN  IF libres = {} THEN 0 ELSE CHOOSE v \in libres : \A w \in libres : v <= w
=============================================================================
