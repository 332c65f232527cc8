--------------------------- MODULE InstanciasProofs ---------------------------
(***************************************************************************)
(* Proofs about Instancias, for any number of requests, VMIDs, users and   *)
(* faults: the order Proxmox accepts acts on what its handler read, the    *)
(* protected instances change by snapshots only, and the permissions       *)
(* follow the life of the instance they were given for, although its VMID  *)
(* is reused.                                                              *)
(***************************************************************************)
EXTENDS Instancias, WellFoundedInduction, TLAPS

\* What each variable can hold.
Resumenes == {SinTarea} \cup [gen : Nat, estado : EstadosVm]
TiposVm == {"", "qemu", "lxc"}
Locks == {"", "create", "rollback", "snapshot", "snapshot-delete", "destroyed"}
Digests == {<<>>} \cup (Nat \X (Nombres \cup {Raiz}) \X Locks)
OpsPosibles == OpsTarea \cup {"config"}
Activos == {"dentro", "leido", "detalle", "verifica", "aceptado"}
Fotos == [padre : Nombres \cup {Raiz}, nucleos : Nat]
Catalogos == UNION {[S -> Fotos] : S \in SUBSET Nombres}
Ficha == [gen : Nat, vivo : BOOLEAN, tipo : TiposVm, estado : EstadosVm, lock : Locks,
          snaps : Catalogos, actual : Nombres \cup {Raiz}, nucleos : Nat, pendiente : Nat]
Tareas == {SinTarea} \cup [op : OpsTarea, nombre : Nombres \cup {""}, de : Pedidos \cup {Nadie}]
Pedido == [paso : Activos \cup {"nuevo", "fin"}, op : OpsPosibles \cup {"nada"}, v : Vmids \cup {0},
           nombre : Nombres \cup {""}, n : Nat, tipo : TiposVm, leido : Resumenes,
           digest : Digests, ajeno : BOOLEAN, gen : Nat]
Ordenes == [op : OpsPosibles, vmid : Vmids, nombre : Nombres \cup {""}, n : Nat,
            tipo : TiposVm, digest : Digests]
Filas == [u : Admins \cup Operadores, v : Vmids, gen : Nat, tarde : BOOLEAN]
Asignaciones == {SinAsignacion}
    \cup [paso : {"escribe"}, u : Admins \cup Operadores,
          gens : UNION {[S -> Nat] : S \in SUBSET (Vmids \ Protegidos)}]
Tipos ==
    /\ vm \in [Vmids -> Ficha] /\ tarea \in [Vmids -> Tareas]
    /\ ped \in [Pedidos -> Pedido]
    /\ fila \in [Pedidos -> {"ausente", "RUNNING", "COMPLETED", "FAILED"}]
    /\ salida \in [Pedidos -> {"nada", "OK", "error", "WARNINGS"}]
    /\ permisos \subseteq Filas /\ asig \in Asignaciones /\ vuelo \subseteq Ordenes
    /\ quitados \subseteq (Admins \cup Operadores) \X Vmids
    /\ cuentas \in [fallos : Nat, ajenas : Nat, asignaciones : Nat]

\* What a request is doing fits what it asked and what is known of its task.
Activo(p) == ped[p].paso \in Activos
Coherente(p) ==
    /\ ped[p].paso = "nuevo" => ped[p].op = "nada"
    /\ ped[p].op # "nada" => ped[p].v \in Vmids
    /\ Activo(p) => ped[p].op # "nada" /\ (ped[p].op \in OpsSnapshot => ped[p].nombre \in Nombres)
    /\ ped[p].paso \in {"dentro", "leido"} => ped[p].op # "create"
    /\ ped[p].paso = "aceptado" => ped[p].op # "config"
    /\ ped[p].paso = "verifica" => ped[p].op = "config"
    /\ ped[p].op = "create" => Quien[p] \in Admins
    /\ fila[p] # "ausente" => ped[p].paso = "fin" /\ ped[p].op \in OpsTarea
    /\ salida[p] # "nada" => ped[p].paso \in {"aceptado", "fin"} /\ ped[p].op \in OpsTarea
    /\ fila[p] = "COMPLETED" => salida[p] # "nada"
PedidosCoherentes == \A p \in Pedidos : Coherente(p)

\* An order Proxmox received, or may receive, names a snapshot when it is about one.
OrdenesConNombre == \A o \in vuelo : o.op \in OpsSnapshot => o.nombre \in Nombres

\* The task of v is about the instance v names, which stays there until it
\* ends, and belongs to the request that asked for it.
TareaFiel(v) ==
    tarea[v] # SinTarea =>
        /\ vm[v].vivo
        /\ tarea[v].op \in OpsSnapshot => tarea[v].nombre \in Nombres
        /\ tarea[v].op \in {"rollback", "delsnapshot"} => tarea[v].nombre \in DOMAIN vm[v].snaps
        /\ tarea[v].de # Nadie =>
               LET p == tarea[v].de
               IN  /\ ped[p].paso \in {"aceptado", "fin"} /\ salida[p] = "nada"
                   /\ ped[p].op = tarea[v].op /\ ped[p].v = v /\ ped[p].gen = vm[v].gen
TareasFieles == \A v \in Vmids : TareaFiel(v)

\* No request acts on an instance that has not been, and the one a DELETE
\* closed as OK is gone.
SinFuturo ==
    \A p \in Pedidos : ped[p].op # "nada" =>
        /\ ped[p].gen <= vm[ped[p].v].gen
        /\ ped[p].op = "delete" /\ salida[p] = "OK" => Murio(ped[p].v, ped[p].gen)

\* The turn of an instance: of the requests that found it there one is being
\* served, and none while the task of another is tracked.
Turna(p) == ped[p].op \notin {"nada", "create"}
TurnoUnico ==
    \A p, q \in Pedidos :
        /\ p # q /\ Turna(p) /\ Turna(q) /\ ped[p].v = ped[q].v
        /\ Activo(p)
        => ~Activo(q) /\ fila[q] # "RUNNING"

\* What a handler read is still so, unless it was surprised.
LecturaFiel ==
    \A p \in Pedidos :
        /\ ped[p].paso \in {"leido", "detalle"} /\ ped[p].op # "create" /\ ~ped[p].ajeno
        => LET i == vm[ped[p].v] IN i.vivo /\ [gen |-> i.gen, estado |-> i.estado] = ped[p].leido

\* Nothing but snapshots is asked of a protected instance.
SoloSnapshots ==
    /\ \A p \in Pedidos : ped[p].v \in Protegidos => ped[p].op \in OpsSnapshot
    /\ \A v \in Protegidos : tarea[v] = SinTarea \/ tarea[v].op \in OpsSnapshot
    /\ \A o \in vuelo : o.vmid \in Protegidos => o.op \in OpsSnapshot

\* The inductive invariant.
IInv ==
    /\ Tipos /\ PedidosCoherentes /\ OrdenesConNombre /\ TareasFieles /\ SinFuturo /\ TurnoUnico
    /\ LecturaFiel /\ SoloSnapshots /\ BorradoPurga /\ CreadorConserva

-----------------------------------------------------------------------------
(* The instances of the hypervisor *)

\* A new instance, and one that is gone, are instances.
LEMMA FichasNuevas ==
    /\ \A g \in Nat, t \in TiposVm :
           /\ Nueva(g, t) \in Ficha /\ Nueva(g, t).gen = g /\ Nueva(g, t).vivo
           /\ Nueva(g, t).tipo = t
    /\ \A i \in Ficha : Borrada(i) \in Ficha /\ Borrada(i).gen = i.gen /\ ~Borrada(i).vivo
<1>1. <<>> \in Catalogos
  <2>1. <<>> \in [{} -> Fotos] OBVIOUS
  <2>2. {} \in SUBSET Nombres OBVIOUS
  <2> QED BY <2>1, <2>2 DEF Catalogos
<1>2. ASSUME NEW g \in Nat, NEW t \in TiposVm
      PROVE  /\ Nueva(g, t) \in Ficha /\ Nueva(g, t).gen = g /\ Nueva(g, t).vivo
             /\ Nueva(g, t).tipo = t
  <2> DEFINE c == <<>>
  <2>1. Nueva(g, t) = [gen |-> g, vivo |-> TRUE, tipo |-> t, estado |-> "stopped", lock |-> "",
                       snaps |-> c, actual |-> Raiz, nucleos |-> 1, pendiente |-> 0]
    BY DEF Nueva
  <2>2. c \in Catalogos BY <1>1
  <2> HIDE DEF c
  <2> DEFINE f == [gen |-> g, vivo |-> TRUE, tipo |-> t, estado |-> "stopped", lock |-> "",
                   snaps |-> c, actual |-> Raiz, nucleos |-> 1, pendiente |-> 0]
  <2>3. f \in Ficha BY <2>2 DEF Ficha, EstadosVm, Locks
  <2>4. f.gen = g /\ f.tipo = t OBVIOUS
  <2>5. f.vivo = TRUE OBVIOUS
  <2> HIDE DEF f
  <2>6. Nueva(g, t) = f BY <2>1 DEF f
  <2> QED BY <2>3, <2>4, <2>5, <2>6
<1>3. ASSUME NEW i \in Ficha
      PROVE  Borrada(i) \in Ficha /\ Borrada(i).gen = i.gen /\ ~Borrada(i).vivo
  <2> DEFINE n == Nueva(i.gen, i.tipo)
  <2>1. i.gen \in Nat /\ i.tipo \in TiposVm BY DEF Ficha
  <2>2. n \in Ficha /\ n.gen = i.gen BY <1>2, <2>1
  <2>3. Borrada(i) = [n EXCEPT !.vivo = FALSE] BY DEF Borrada
  <2> HIDE DEF n
  <2> QED BY <2>2, <2>3 DEF Ficha
<1> QED BY <1>2, <1>3

\* Power and configuration leave the instance the same one, with its snapshots.
LEMMA MismaInstancia ==
    ASSUME NEW i \in Ficha
    PROVE  /\ Encender(i) \in Ficha /\ Encender(i).gen = i.gen /\ Encender(i).vivo = i.vivo
           /\ Encender(i).snaps = i.snaps
           /\ \A op : LET f == AplicarAccion(i, op)
                      IN  f \in Ficha /\ f.gen = i.gen /\ f.vivo = i.vivo /\ f.snaps = i.snaps
           /\ \A n \in Nat : LET f == EditarConfig(i, n)
                             IN  /\ f \in Ficha /\ f.gen = i.gen /\ f.vivo = i.vivo
                                 /\ f.estado = i.estado /\ f.snaps = i.snaps
<1> DEFINE e == [i EXCEPT !.estado = "running"]
<1>1. e \in Ficha /\ e.gen = i.gen /\ e.vivo = i.vivo /\ e.snaps = i.snaps BY DEF Ficha, EstadosVm
<1>2. Encender(i) = AplicarPendientes(e) BY DEF Encender
<1> HIDE DEF e
<1>3. AplicarPendientes(e) \in Ficha /\ AplicarPendientes(e).gen = e.gen
      /\ AplicarPendientes(e).vivo = e.vivo /\ AplicarPendientes(e).snaps = e.snaps
  BY <1>1 DEF AplicarPendientes, Ficha
<1>4. Encender(i) \in Ficha /\ Encender(i).gen = i.gen /\ Encender(i).vivo = i.vivo
      /\ Encender(i).snaps = i.snaps
  BY <1>1, <1>2, <1>3
<1>5. ASSUME NEW op
      PROVE  LET f == AplicarAccion(i, op)
             IN  f \in Ficha /\ f.gen = i.gen /\ f.vivo = i.vivo /\ f.snaps = i.snaps
  <2> DEFINE a == [i EXCEPT !.estado = "stopped"]
  <2>1. a \in Ficha /\ a.gen = i.gen /\ a.vivo = i.vivo /\ a.snaps = i.snaps BY DEF Ficha, EstadosVm
  <2>2. AplicarAccion(i, op) \in {i, a, Encender(i)} BY DEF AplicarAccion
  <2> HIDE DEF a
  <2> QED BY <1>4, <2>1, <2>2
<1>6. ASSUME NEW n \in Nat
      PROVE  LET f == EditarConfig(i, n)
             IN  /\ f \in Ficha /\ f.gen = i.gen /\ f.vivo = i.vivo
                 /\ f.estado = i.estado /\ f.snaps = i.snaps
  BY DEF EditarConfig, Ficha
<1> QED BY <1>4, <1>5, <1>6

\* Taking, applying and removing a snapshot leave the instance the same one.
LEMMA SnapshotsEnSuSitio ==
    ASSUME NEW i \in Ficha, NEW n \in Nombres
    PROVE  /\ LET f == AgregarSnapshot(i, n) IN f \in Ficha /\ f.gen = i.gen /\ f.vivo = i.vivo
           /\ n \in DOMAIN i.snaps =>
                  /\ LET f == Revertir(i, n) IN f \in Ficha /\ f.gen = i.gen /\ f.vivo = i.vivo
                  /\ LET f == Quitar(i, n) IN f \in Ficha /\ f.gen = i.gen /\ f.vivo = i.vivo
<1>1. PICK S \in SUBSET Nombres : i.snaps \in [S -> Fotos] BY DEF Ficha, Catalogos
<1>2. i.actual \in Nombres \cup {Raiz} /\ i.nucleos \in Nat BY DEF Ficha
<1>3. LET f == AgregarSnapshot(i, n) IN f \in Ficha /\ f.gen = i.gen /\ f.vivo = i.vivo
  <2> DEFINE c == [s \in DOMAIN i.snaps \cup {n} |-> IF s = n THEN Foto(i) ELSE i.snaps[s]]
  <2>1. Foto(i) \in Fotos BY <1>2 DEF Foto, Fotos
  <2>2. c \in [S \cup {n} -> Fotos] BY <1>1, <2>1
  <2>3. S \cup {n} \in SUBSET Nombres BY <1>1
  <2>4. c \in Catalogos BY <2>2, <2>3 DEF Catalogos
  <2>5. AgregarSnapshot(i, n) = [i EXCEPT !.snaps = c, !.actual = n] BY Zenon DEF AgregarSnapshot
  <2> HIDE DEF c
  <2> QED BY <2>4, <2>5 DEF Ficha
<1>4. ASSUME n \in DOMAIN i.snaps
      PROVE  LET f == Revertir(i, n) IN f \in Ficha /\ f.gen = i.gen /\ f.vivo = i.vivo
  <2> DEFINE k == i.snaps[n].nucleos
             e == IF Encendida(i) THEN "stopped" ELSE i.estado
  <2>0. i.estado \in EstadosVm BY DEF Ficha
  <2>1. k \in Nat BY <1>1, <1>4 DEF Fotos
  <2>2. e \in EstadosVm BY <2>0 DEF EstadosVm
  <2>3. Revertir(i, n) = [i EXCEPT !.estado = e, !.nucleos = k, !.pendiente = 0, !.actual = n]
    BY Zenon DEF Revertir
  <2> HIDE DEF k, e
  <2> DEFINE f == [i EXCEPT !.estado = e, !.nucleos = k, !.pendiente = 0, !.actual = n]
  <2>4. f \in Ficha BY <2>1, <2>2 DEF Ficha
  <2>5. f.gen = i.gen /\ f.vivo = i.vivo BY DEF Ficha
  <2> QED BY <2>3, <2>4, <2>5
<1>5. ASSUME n \in DOMAIN i.snaps
      PROVE  LET f == Quitar(i, n) IN f \in Ficha /\ f.gen = i.gen /\ f.vivo = i.vivo
  <2> DEFINE padre == i.snaps[n].padre
             c == [s \in DOMAIN i.snaps \ {n} |-> IF i.snaps[s].padre = n
                                                 THEN [i.snaps[s] EXCEPT !.padre = padre] ELSE i.snaps[s]]
             a == IF i.actual = n THEN padre ELSE i.actual
  <2>1. padre \in Nombres \cup {Raiz} BY <1>1, <1>5 DEF Fotos
  <2>2. a \in Nombres \cup {Raiz} BY <1>2, <2>1
  <2>3. ASSUME NEW s \in S \ {n}
        PROVE  (IF i.snaps[s].padre = n THEN [i.snaps[s] EXCEPT !.padre = padre] ELSE i.snaps[s]) \in Fotos
    <3> HIDE DEF padre
    <3>1. i.snaps[s] \in Fotos BY <1>1
    <3> QED BY <2>1, <3>1 DEF Fotos
  <2>4. c \in [S \ {n} -> Fotos] BY <1>1, <2>3
  <2>5. S \ {n} \in SUBSET Nombres BY <1>1
  <2>6. c \in Catalogos BY <2>4, <2>5 DEF Catalogos
  <2>7. Quitar(i, n) = [i EXCEPT !.snaps = c, !.actual = a] BY Zenon DEF Quitar
  <2> HIDE DEF c, a
  <2> QED BY <2>2, <2>6, <2>7 DEF Ficha
<1> QED BY <1>3, <1>4, <1>5

-----------------------------------------------------------------------------
(* What Proxmox does *)

\* The names of the operations.
LEMMA Operaciones ==
    /\ OpsTarea = {"start", "stop", "shutdown", "reboot", "resume", "snapshot", "rollback",
                   "delsnapshot", "create", "delete"}
    /\ OpsSnapshot = {"snapshot", "rollback", "delsnapshot"} /\ OpsSnapshot \subseteq OpsTarea
    /\ "nada" \notin OpsPosibles /\ "config" \notin OpsTarea
BY DEF OpsTarea, OpsEnergia, OpsSnapshot, OpsPosibles

\* Proxmox takes the order o, given by de, and i is what its VMID names then.
Recibe(o, de, i) ==
    LET v == o.vmid
    IN  /\ i \in Ficha /\ vm' = [vm EXCEPT ![v] = i] /\ i.vivo
        /\ o.op = "create" => ~vm[v].vivo /\ i.gen = vm[v].gen + 1
        /\ o.op # "create" =>
               /\ vm[v].vivo /\ i.gen = vm[v].gen /\ i.estado = vm[v].estado /\ i.snaps = vm[v].snaps
        /\ o.op \in OpsTarea \ {"create"} => tarea[v] = SinTarea
        /\ o.op \in {"rollback", "delsnapshot"} => o.nombre \in DOMAIN i.snaps
        /\ tarea' = IF o.op = "config" THEN tarea
                    ELSE [tarea EXCEPT ![v] = [op |-> o.op, nombre |-> o.nombre, de |-> de]]

\* What Proxmox accepts, it takes.
LEMMA OrdenRecibida ==
    ASSUME Tipos, NEW o \in Ordenes, NEW de, Acepta(o), Ordenada(o, de)
    PROVE  \E i : Recibe(o, de, i)
<1> DEFINE v == o.vmid
<1>1. vm \in [Vmids -> Ficha] /\ v \in Vmids /\ vm[v] \in Ficha BY DEF Tipos, Ordenes
<1>2. o.op \in OpsPosibles /\ o.tipo \in TiposVm /\ o.n \in Nat BY DEF Ordenes
<1>3. tarea' = IF o.op = "config" THEN tarea
               ELSE [tarea EXCEPT ![v] = [op |-> o.op, nombre |-> o.nombre, de |-> de]]
  BY DEF Ordenada
<1>4. CASE o.op = "create"
  <2> DEFINE n == Nueva(vm[v].gen + 1, o.tipo)
             i == [n EXCEPT !.lock = LockDe("create")]
  <2>1. vm[v].gen + 1 \in Nat BY <1>1 DEF Ficha
  <2>2. n \in Ficha /\ n.gen = vm[v].gen + 1 /\ n.vivo BY <1>2, <2>1, FichasNuevas
  <2>3. LockDe("create") \in Locks BY DEF LockDe, Locks
  <2>4. vm' = [vm EXCEPT ![v] = i] BY <1>4 DEF Ordenada
  <2>5. ~vm[v].vivo BY <1>4 DEF Acepta
  <2> HIDE DEF n
  <2>6. i \in Ficha /\ i.gen = vm[v].gen + 1 /\ i.vivo BY <2>2, <2>3 DEF Ficha
  <2> HIDE DEF i
  <2> QED BY <1>3, <1>4, <2>4, <2>5, <2>6, Operaciones DEF Recibe
<1>5. CASE o.op = "config"
  <2> DEFINE i == EditarConfig(vm[v], o.n)
  <2>1. i \in Ficha /\ i.gen = vm[v].gen /\ i.vivo = vm[v].vivo /\ i.estado = vm[v].estado
        /\ i.snaps = vm[v].snaps
    BY <1>1, <1>2, MismaInstancia
  <2>2. vm' = [vm EXCEPT ![v] = i] BY <1>5 DEF Ordenada
  <2>3. vm[v].vivo BY <1>5 DEF Acepta, AceptaConfig, Existe
  <2> HIDE DEF i
  <2> QED BY <1>3, <1>5, <2>1, <2>2, <2>3, Operaciones DEF Recibe
<1>6. CASE o.op \in OpsTarea \ {"create"}
  <2> DEFINE i == [vm[v] EXCEPT !.lock = LockDe(o.op)]
  <2>1. LockDe(o.op) \in Locks BY <1>6, Operaciones DEF LockDe, Locks
  <2>2. i \in Ficha /\ i.gen = vm[v].gen /\ i.vivo = vm[v].vivo /\ i.estado = vm[v].estado
        /\ i.snaps = vm[v].snaps
    BY <1>1, <2>1 DEF Ficha
  <2>3. vm' = [vm EXCEPT ![v] = i] BY <1>6, Operaciones DEF Ordenada
  <2>4. AceptaTarea(o) BY <1>6, Operaciones DEF Acepta
  <2>5. vm[v].vivo /\ tarea[v] = SinTarea BY <2>4 DEF AceptaTarea, Existe, Libre
  <2>6. o.op \in {"rollback", "delsnapshot"} => o.nombre \in DOMAIN vm[v].snaps
    BY <2>4, Operaciones DEF AceptaTarea, AceptaSnapshot
  <2> HIDE DEF i
  <2> QED BY <1>3, <1>6, <2>2, <2>3, <2>5, <2>6, Operaciones DEF Recibe
<1> QED BY <1>2, <1>4, <1>5, <1>6 DEF OpsPosibles

\* The order of a request that is about to give it.
LEMMA OrdenBienDada ==
    ASSUME Tipos, PedidosCoherentes, NEW p \in Pedidos, En(p, "detalle")
    PROVE  /\ Orden(p) \in Ordenes
           /\ Orden(p).op = ped[p].op /\ Orden(p).vmid = ped[p].v
           /\ Orden(p).nombre = ped[p].nombre
           /\ Orden(p).op \in OpsSnapshot => Orden(p).nombre \in Nombres
<1>1. ped[p] \in Pedido /\ Coherente(p) BY DEF Tipos, PedidosCoherentes
<1>2. ped[p].op # "nada" /\ ped[p].v \in Vmids
      /\ (ped[p].op \in OpsSnapshot => ped[p].nombre \in Nombres)
  BY <1>1 DEF Coherente, Activo, Activos, En
<1>3. vm[ped[p].v] \in Ficha BY <1>2 DEF Tipos
<1> DEFINE t == IF ped[p].op \in {"start", "stop"} THEN vm[ped[p].v].tipo ELSE ped[p].tipo
<1>4. t \in TiposVm BY <1>1, <1>3 DEF Ficha, Pedido
<1>5. Orden(p) = [op |-> ped[p].op, vmid |-> ped[p].v, nombre |-> ped[p].nombre, n |-> ped[p].n,
                  tipo |-> t, digest |-> ped[p].digest]
  BY DEF Orden
<1> HIDE DEF t
<1>6. /\ ped[p].op \in OpsPosibles /\ ped[p].nombre \in Nombres \cup {""} /\ ped[p].n \in Nat
      /\ ped[p].digest \in Digests
  BY <1>1, <1>2 DEF Pedido
<1> DEFINE o == [op |-> ped[p].op, vmid |-> ped[p].v, nombre |-> ped[p].nombre, n |-> ped[p].n,
                 tipo |-> t, digest |-> ped[p].digest]
<1>7. o.op = ped[p].op /\ o.vmid = ped[p].v /\ o.nombre = ped[p].nombre OBVIOUS
<1>8. o \in Ordenes BY <1>2, <1>4, <1>6 DEF Ordenes
<1> QED BY <1>2, <1>5, <1>7, <1>8

\* The task of v ends, and i is what v names then.
Acaba(v, i) ==
    /\ i \in Ficha /\ vm' = [vm EXCEPT ![v] = i] /\ i.gen = vm[v].gen
    /\ i.vivo <=> tarea[v].op # "delete"
    /\ tarea[v].op = "create" => i.estado = vm[v].estado
    /\ tarea[v] # SinTarea /\ tarea' = [tarea EXCEPT ![v] = SinTarea]

\* The tasks whose instance waited for them end so.
LEMMA TareaAcabada ==
    ASSUME Tipos, NEW v \in Vmids, TareaFiel(v), Terminada(v)
    PROVE  \E i : Acaba(v, i)
<1>1. vm \in [Vmids -> Ficha] /\ vm[v] \in Ficha /\ tarea[v] \in Tareas BY DEF Tipos
<1>2. tarea[v] # SinTarea /\ vm[v].vivo BY DEF TareaFiel, Terminada
<1>3. tarea[v].op \in OpsTarea BY <1>1, <1>2 DEF Tareas
<1> DEFINE b == [vm[v] EXCEPT !.lock = ""]
           n == tarea[v].nombre
           k == tarea[v].op
           i == Efecto(v)
<1>4. b \in Ficha /\ b.gen = vm[v].gen /\ b.vivo = vm[v].vivo /\ b.estado = vm[v].estado
      /\ b.snaps = vm[v].snaps
  BY <1>1 DEF Ficha, Locks
<1>5. i = CASE k = "create" -> b
            [] k = "delete" -> Borrada(b)
            [] k = "snapshot" -> AgregarSnapshot(b, n)
            [] k = "rollback" -> Revertir(b, n)
            [] k = "delsnapshot" -> Quitar(b, n)
            [] OTHER -> AplicarAccion(b, k)
  BY DEF Efecto
<1>6. k \in OpsSnapshot => n \in Nombres BY <1>2 DEF TareaFiel
<1>7. k \in {"rollback", "delsnapshot"} => n \in DOMAIN vm[v].snaps BY <1>2 DEF TareaFiel
<1>8. vm' = [vm EXCEPT ![v] = i] /\ tarea' = [tarea EXCEPT ![v] = SinTarea] BY DEF Terminada
<1> HIDE DEF b, n, i
<1>9. /\ i \in Ficha /\ i.gen = vm[v].gen /\ (i.vivo <=> k # "delete")
      /\ k = "create" => i.estado = vm[v].estado
  <2>1. CASE k = "create" BY <1>2, <1>4, <1>5, <2>1
  <2>2. CASE k = "delete" BY <1>4, <1>5, <2>2, FichasNuevas
  <2>3. CASE k = "snapshot"
    <3>1. n \in Nombres /\ i = AgregarSnapshot(b, n) BY <1>5, <1>6, <2>3, Operaciones
    <3> QED BY <1>2, <1>4, <2>3, <3>1, SnapshotsEnSuSitio
  <2>4. CASE k = "rollback"
    <3>1. n \in Nombres /\ n \in DOMAIN b.snaps /\ i = Revertir(b, n)
      BY <1>4, <1>5, <1>6, <1>7, <2>4, Operaciones
    <3> QED BY <1>2, <1>4, <2>4, <3>1, SnapshotsEnSuSitio
  <2>5. CASE k = "delsnapshot"
    <3>1. n \in Nombres /\ n \in DOMAIN b.snaps /\ i = Quitar(b, n)
      BY <1>4, <1>5, <1>6, <1>7, <2>5, Operaciones
    <3> QED BY <1>2, <1>4, <2>5, <3>1, SnapshotsEnSuSitio
  <2>6. CASE k \notin {"create", "delete", "snapshot", "rollback", "delsnapshot"}
    <3>1. i = AplicarAccion(b, k) BY <1>5, <2>6
    <3>2. i \in Ficha /\ i.gen = b.gen /\ i.vivo = b.vivo BY <1>4, <3>1, MismaInstancia
    <3> QED BY <1>2, <1>4, <2>6, <3>2
  <2> QED BY <2>1, <2>2, <2>3, <2>4, <2>5, <2>6
<1> QED BY <1>2, <1>8, <1>9 DEF Acaba

\* Another team leaves v with i.
Ajeno(v, i) ==
    /\ i \in Ficha /\ vm' = [vm EXCEPT ![v] = i] /\ UNCHANGED tarea
    /\ tarea[v] = SinTarea
    /\ \/ i.gen = vm[v].gen /\ vm[v].vivo
       \/ i.gen = vm[v].gen + 1

\* Whatever it does in the panel, without naming a dead instance again.
LEMMA PanelAjeno ==
    ASSUME Tipos, InstanciasAssumption, NEW v \in Vmids,
           AjenaCrear(v) \/ AjenaBorrar(v) \/ AjenaEstado(v) \/ AjenaConfig(v)
    PROVE  \E i : Ajeno(v, i) /\ Ajena(v, i)
<1>1. vm \in [Vmids -> Ficha] /\ vm[v] \in Ficha /\ vm[v].gen \in Nat BY DEF Tipos, Ficha
<1>2. SUFFICES \E i : /\ Ajena(v, i) /\ i \in Ficha
                      /\ (i.gen = vm[v].gen /\ vm[v].vivo) \/ i.gen = vm[v].gen + 1
  BY <1>2 DEF Ajeno, Ajena, Libre
<1>3. CASE AjenaCrear(v)
  <2>1. PICK t \in TiposNuevos : Ajena(v, Nueva(vm[v].gen + 1, t)) BY <1>3 DEF AjenaCrear
  <2>2. t \in TiposVm BY DEF InstanciasAssumption, TiposVm
  <2>3. vm[v].gen + 1 \in Nat BY <1>1
  <2>4. /\ Nueva(vm[v].gen + 1, t) \in Ficha /\ Nueva(vm[v].gen + 1, t).gen = vm[v].gen + 1
    BY <2>2, <2>3, FichasNuevas
  <2> QED BY <2>1, <2>4
<1>4. CASE AjenaBorrar(v)
  <2>1. Ajena(v, Borrada(vm[v])) /\ vm[v].vivo BY <1>4 DEF AjenaBorrar
  <2> QED BY <1>1, <2>1, FichasNuevas
<1>5. CASE AjenaEstado(v)
  <2>1. PICK e \in EstadosVm :
            vm[v].vivo /\ Ajena(v, IF e = "running" THEN Encender(vm[v]) ELSE [vm[v] EXCEPT !.estado = e])
    BY <1>5 DEF AjenaEstado
  <2> DEFINE f == [vm[v] EXCEPT !.estado = e]
             i == IF e = "running" THEN Encender(vm[v]) ELSE f
  <2>2. f \in Ficha /\ f.gen = vm[v].gen BY <1>1 DEF Ficha
  <2> HIDE DEF f
  <2>3. i \in Ficha /\ i.gen = vm[v].gen BY <1>1, <2>2, MismaInstancia
  <2>4. Ajena(v, i) /\ vm[v].vivo BY <2>1 DEF f
  <2> QED BY <2>3, <2>4
<1>6. CASE AjenaConfig(v)
  <2>1. PICK n \in Nucleos : vm[v].vivo /\ Ajena(v, EditarConfig(vm[v], n)) BY <1>6 DEF AjenaConfig
  <2>2. n \in Nat BY DEF InstanciasAssumption
  <2> QED BY <1>1, <2>1, <2>2, MismaInstancia
<1> QED BY <1>3, <1>4, <1>5, <1>6

\* The least of some numbers.
LEMMA MenorNatural ==
    ASSUME NEW S \in SUBSET Nat, S # {}
    PROVE  \E x \in S : \A w \in S : x <= w
<1> DEFINE R == OpToRel(<, Nat)
<1>1. R = {ss \in Nat \X Nat : ss[1] < ss[2]} BY DEF OpToRel
<1>2. IsWellFoundedOn(R, Nat) BY NatLessThanWellFounded
<1> HIDE DEF R
<1>3. PICK x \in S : \A y \in S : ~ (<<y, x>> \in R) BY <1>2, WFMin
<1>4. ASSUME NEW w \in S PROVE x <= w
  <2>1. ~ (w < x) BY <1>1, <1>3
  <2>2. x \in Nat /\ w \in Nat OBVIOUS
  <2> QED BY <2>1, <2>2
<1> QED BY <1>3, <1>4

-----------------------------------------------------------------------------
(* The steps of the system, by what they do to the requests *)

\* Request p goes on as b.
Sigue(p, b) == b \in Pedido /\ ped' = [ped EXCEPT ![p] = b]

\* It is let in, chooses a VMID, looks at what it will act on, gives up, or
\* ends after its order was accepted.
Entra(p, b) ==
    /\ ped[p].paso = "nuevo" /\ b.paso = "dentro" /\ b.gen = 0
    /\ b.op \in OpsPosibles \ {"create"} /\ b.v \in Vmids /\ b.nombre \in Nombres
    /\ Ocioso(b.v) /\ NoProtegida(b.op, b.v)
Crea(p, b) ==
    /\ ped[p].paso = "nuevo" /\ b.paso = "detalle" /\ b.gen = 0
    /\ b.op = "create" /\ b.v \in Vmids \ Protegidos /\ Quien[p] \in Admins
Mira(p, b) ==
    /\ ped[p].paso \in {"dentro", "leido"} /\ b.paso \in {"leido", "detalle"}
    /\ b.op = ped[p].op /\ b.v = ped[p].v /\ b.nombre = ped[p].nombre /\ b.gen = ped[p].gen
    /\ b.ajeno <=> ped[p].ajeno
    /\ ped[p].paso = "dentro" =>
           LET i == vm[ped[p].v] IN i.vivo /\ b.leido = [gen |-> i.gen, estado |-> i.estado]
    /\ ped[p].paso = "leido" => b.leido = ped[p].leido
Deja(p, b) ==
    /\ ped[p].paso \in {"dentro", "leido", "detalle"}
    /\ b.paso = "fin" /\ b.op = "nada" /\ b.v = 0
Cumple(p, b) ==
    /\ ped[p].paso \in {"verifica", "aceptado"} /\ b.paso = "fin"
    /\ b.op = ped[p].op /\ b.v = ped[p].v /\ b.gen = ped[p].gen
Avanza(p, b) == Entra(p, b) \/ Crea(p, b) \/ Mira(p, b) \/ Deja(p, b) \/ Cumple(p, b)

\* A request goes on; its row may be written then, or its order be left without an answer.
PasoPedido(p, b) ==
    /\ Sigue(p, b) /\ Avanza(p, b) /\ UNCHANGED <<vm, tarea, salida, permisos, asig, quitados>>
    /\ \/ fila' = fila
       \/ ped[p].paso = "aceptado" /\ b.paso = "fin" /\ fila' = [fila EXCEPT ![p] = "RUNNING"]
    /\ \/ vuelo' = vuelo
       \/ ped[p].paso = "detalle" /\ vuelo' = vuelo \cup {Orden(p)}

\* The order of p is accepted.
Da(p, b) ==
    /\ ped[p].paso = "detalle" /\ b.op = ped[p].op /\ b.v = ped[p].v /\ b.gen = vm'[b.v].gen
    /\ b.op = "config" => b.paso \in {"verifica", "fin"}
    /\ b.op # "config" => b.paso = "aceptado" /\ b.nombre = ped[p].nombre
PasoOrden(p, b, i) ==
    /\ Sigue(p, b) /\ Da(p, b) /\ Recibe(Orden(p), p, i)
    /\ UNCHANGED <<fila, salida, permisos, asig, quitados, vuelo>>

\* An order that was left without an answer arrives, or comes to nothing.
PasoLlegada(o) ==
    /\ o \in vuelo /\ vuelo' = vuelo \ {o} /\ UNCHANGED <<fila, salida, permisos, asig, quitados>>
    /\ \/ (\E i : Recibe(o, Nadie, i)) /\ ped' = Sorprende(o.vmid, ped)
       \/ UNCHANGED <<vm, tarea, ped>>

\* A task ends.
PasoFin(v, i) ==
    LET p == tarea[v].de
    IN  /\ Acaba(v, i) /\ UNCHANGED <<fila, permisos, asig, quitados, vuelo>>
        /\ p = Nadie => salida' = salida
        /\ p # Nadie => \E e \in {"OK", "error", "WARNINGS"} : salida' = [salida EXCEPT ![p] = e]
        /\ \/ p # Nadie /\ (fila[p] = "RUNNING" \/ En(p, "aceptado")) /\ ped' = ped
           \/ ped' = Sorprende(v, ped)

\* Another team acts.
PasoAjeno(v, i) ==
    /\ Ajeno(v, i) /\ ped' = Sorprende(v, ped) /\ UNCHANGED <<fila, salida, permisos, asig, quitados, vuelo>>
    /\ cuentas'.ajenas # cuentas.ajenas

\* The request nobody made yet.
LEMMA PedidoNuevo ==
    /\ SinPedido \in Pedido /\ SinPedido.paso = "nuevo" /\ SinPedido.op = "nada"
    /\ SinPedido.v = 0 /\ SinPedido.gen = 0 /\ ~SinPedido.ajeno
<1> DEFINE d == <<>>
           f == FALSE
<1>1. SinPedido = [paso |-> "nuevo", op |-> "nada", v |-> 0, nombre |-> "", n |-> 0, tipo |-> "",
                   leido |-> SinTarea, digest |-> d, ajeno |-> f, gen |-> 0]
  BY DEF SinPedido
<1>2. d \in Digests BY DEF Digests
<1>3. f \in BOOLEAN /\ ~f OBVIOUS
<1> HIDE DEF d, f
<1> DEFINE s == [paso |-> "nuevo", op |-> "nada", v |-> 0, nombre |-> "", n |-> 0, tipo |-> "",
                 leido |-> SinTarea, digest |-> d, ajeno |-> f, gen |-> 0]
<1>4. s \in Pedido BY <1>2, <1>3 DEF Pedido, TiposVm, Resumenes
<1>5. s.paso = "nuevo" /\ s.op = "nada" /\ s.v = 0 /\ s.gen = 0 /\ s.ajeno = f OBVIOUS
<1> HIDE DEF s
<1>6. SinPedido = s BY <1>1 DEF s
<1> QED BY <1>3, <1>4, <1>5, <1>6

\* A request that ends without an order.
LEMMA PedidoFallido ==
    ASSUME Tipos, PedidosCoherentes, NEW p \in Pedidos, Fin(p),
           ped[p].paso \in {"dentro", "leido", "detalle"}
    PROVE  \E b : Sigue(p, b) /\ Deja(p, b)
<1> DEFINE b == [SinPedido EXCEPT !.paso = "fin"]
<1>1. b \in Pedido /\ b.paso = "fin" /\ b.op = "nada" /\ b.v = 0 BY PedidoNuevo DEF Pedido
<1>2. ped' = [ped EXCEPT ![p] = b] BY DEF Fin
<1> HIDE DEF b
<1> QED BY <1>1, <1>2 DEF Sigue, Deja

\* A request that ends with one.
LEMMA PedidoHecho ==
    ASSUME Tipos, NEW p \in Pedidos, NEW g \in Nat, Hecha(p, g)
    PROVE  \E b : /\ Sigue(p, b) /\ b.paso = "fin"
                  /\ b.op = ped[p].op /\ b.v = ped[p].v /\ b.gen = g
<1> DEFINE k == ped[p].op
           w == ped[p].v
           b == [SinPedido EXCEPT !.paso = "fin", !.op = k, !.v = w, !.gen = g]
<1>1. k \in OpsPosibles \cup {"nada"} /\ w \in Vmids \cup {0} BY DEF Tipos, Pedido
<1>2. ped' = [ped EXCEPT ![p] = b] BY DEF Hecha
<1> HIDE DEF k, w
<1>3. b \in Pedido /\ b.paso = "fin" /\ b.op = k /\ b.v = w /\ b.gen = g
  BY <1>1, PedidoNuevo DEF Pedido
<1> HIDE DEF b
<1> QED BY <1>2, <1>3 DEF Sigue, k, w

\* The steps a request takes by itself.
LEMMA PasosDelPedido ==
    ASSUME Tipos, PedidosCoherentes, InstanciasAssumption, NEW p \in Pedidos,
           \/ Entrar(p) \/ Leer(p) \/ LeerSnapshots(p) \/ LeerConfig(p) \/ Rechazar(p)
           \/ SinRespuesta(p) \/ Verificar(p) \/ Seguir(p) \/ ElegirVmid(p)
    PROVE  \E b : PasoPedido(p, b)
<1>1. ped[p] \in Pedido /\ Coherente(p) /\ ped \in [Pedidos -> Pedido] BY DEF Tipos, PedidosCoherentes
<1>2. CASE Entrar(p)
  <2>1. PICK op \in Ops[p] \ {"create"}, v \in Vmids, nombre \in Nombres, n \in Nucleos :
            /\ NoProtegida(op, v) /\ Ocioso(v)
            /\ ped' = [ped EXCEPT ![p] = [SinPedido EXCEPT !.paso = "dentro", !.op = op, !.v = v,
                                             !.nombre = nombre, !.n = n]]
    BY <1>2 DEF Entrar
  <2>2. op \in OpsPosibles \ {"create"} /\ n \in Nat
    BY <2>1 DEF InstanciasAssumption, OpsPosibles
  <2> DEFINE b == [SinPedido EXCEPT !.paso = "dentro", !.op = op, !.v = v, !.nombre = nombre, !.n = n]
  <2>3. b \in Pedido BY <2>2, PedidoNuevo DEF Pedido, Activos
  <2>4. b.paso = "dentro" /\ b.op = op /\ b.v = v /\ b.nombre = nombre /\ b.gen = 0
    BY PedidoNuevo DEF Pedido
  <2>5. Sigue(p, b) BY <2>1, <2>3 DEF Sigue
  <2> HIDE DEF b
  <2>6. ped[p].paso = "nuevo" BY <1>2 DEF Entrar, En
  <2>7. Avanza(p, b) BY <2>1, <2>2, <2>4, <2>6 DEF Avanza, Entra
  <2>8. UNCHANGED <<vm, tarea, fila, salida, permisos, asig, quitados, vuelo>> BY <1>2 DEF Entrar, proxmox
  <2> QED BY <2>5, <2>7, <2>8 DEF PasoPedido
<1>3. CASE Leer(p)
  <2> DEFINE i == vm[ped[p].v]
             d == IF ped[p].op \in OpsSnapshot \cup {"config"} THEN "leido" ELSE "detalle"
             r == [gen |-> i.gen, estado |-> i.estado]
             t == i.tipo
             b == [ped[p] EXCEPT !.paso = d, !.tipo = t, !.leido = r]
  <2>1. UNCHANGED <<vm, tarea, fila, salida, permisos, asig, quitados, vuelo>> BY <1>3 DEF Leer, SoloPed, proxmox
  <2>2. ped[p].paso = "dentro" BY <1>3 DEF Leer, En
  <2>3. CASE Fin(p)
    <3>1. PICK c : Sigue(p, c) /\ Deja(p, c) BY <2>2, <2>3, PedidoFallido
    <3> QED BY <2>1, <3>1 DEF PasoPedido, Avanza
  <2>4. CASE i.vivo /\ Lee(p, d)
    <3>1. ped[p].v \in Vmids BY <1>1, <2>2 DEF Coherente, Activo, Activos
    <3>2. i \in Ficha BY <3>1 DEF Tipos
    <3>3. r \in Resumenes /\ t \in TiposVm BY <3>2 DEF Ficha, Resumenes
    <3>4. ped' = [ped EXCEPT ![p] = b] BY <1>1, <2>4 DEF Lee
    <3>5. d \in {"leido", "detalle"} OBVIOUS
    <3> HIDE DEF d, t
    <3>6. i.vivo /\ r = [gen |-> i.gen, estado |-> i.estado] BY <2>4
    <3> HIDE DEF r
    <3>7. b \in Pedido BY <1>1, <3>3, <3>5 DEF Pedido, Activos
    <3>8. /\ b.paso = d /\ b.leido = r /\ b.op = ped[p].op /\ b.v = ped[p].v
          /\ b.nombre = ped[p].nombre /\ b.gen = ped[p].gen /\ b.ajeno = ped[p].ajeno
      BY <1>1 DEF Pedido
    <3> HIDE DEF b
    <3>9. Mira(p, b) BY <2>2, <3>5, <3>6, <3>8 DEF Mira
    <3>10. Sigue(p, b) BY <3>4, <3>7 DEF Sigue
    <3> QED BY <2>1, <3>9, <3>10 DEF PasoPedido, Avanza
  <2> QED BY <1>3, <2>3, <2>4 DEF Leer
<1>4. CASE LeerSnapshots(p) \/ LeerConfig(p)
  <2>1. UNCHANGED <<vm, tarea, fila, salida, permisos, asig, quitados, vuelo>>
    BY <1>4 DEF LeerSnapshots, LeerConfig, SoloPed, proxmox
  <2>2. ped[p].paso = "leido" BY <1>4 DEF LeerSnapshots, LeerConfig, En
  <2>3. ped[p].v \in Vmids BY <1>1, <2>2 DEF Coherente, Activo, Activos
  <2>4. \/ Fin(p) \/ Va(p, "detalle")
        \/ ped' = [ped EXCEPT ![p].paso = "detalle", ![p].digest = Digest(vm[ped[p].v])]
    BY <1>4 DEF LeerSnapshots, LeerConfig
  <2>5. CASE Fin(p)
    <3>1. PICK c : Sigue(p, c) /\ Deja(p, c) BY <2>2, <2>5, PedidoFallido
    <3> QED BY <2>1, <3>1 DEF PasoPedido, Avanza
  <2>6. ASSUME NEW d \in Digests, ped' = [ped EXCEPT ![p] = [ped[p] EXCEPT !.paso = "detalle", !.digest = d]]
        PROVE  \E b : PasoPedido(p, b)
    <3> DEFINE b == [ped[p] EXCEPT !.paso = "detalle", !.digest = d]
    <3>1. b \in Pedido BY <1>1 DEF Pedido, Activos
    <3>2. /\ b.paso = "detalle" /\ b.leido = ped[p].leido /\ b.op = ped[p].op /\ b.v = ped[p].v
          /\ b.nombre = ped[p].nombre /\ b.gen = ped[p].gen /\ b.ajeno = ped[p].ajeno
      BY <1>1 DEF Pedido
    <3>3. Sigue(p, b) BY <2>6, <3>1 DEF Sigue
    <3> HIDE DEF b
    <3>4. Mira(p, b) BY <2>2, <3>2 DEF Mira
    <3> QED BY <2>1, <3>3, <3>4 DEF PasoPedido, Avanza
  <2>7. CASE Va(p, "detalle")
    <3> DEFINE d == ped[p].digest
    <3>1. d \in Digests BY <1>1 DEF Pedido
    <3>2. ped[p] = [ped[p] EXCEPT !.digest = d] BY <1>1 DEF Pedido
    <3>3. [ped[p] EXCEPT !.paso = "detalle"] = [ped[p] EXCEPT !.paso = "detalle", !.digest = d]
      BY <1>1 DEF Pedido
    <3>4. ped' = [ped EXCEPT ![p] = [ped[p] EXCEPT !.paso = "detalle"]] BY <1>1, <2>7 DEF Va
    <3> HIDE DEF d
    <3> QED BY <2>6, <3>1, <3>3, <3>4
  <2>8. CASE ped' = [ped EXCEPT ![p].paso = "detalle", ![p].digest = Digest(vm[ped[p].v])]
    <3> DEFINE d == Digest(vm[ped[p].v])
               i == vm[ped[p].v]
               a == AplicarPendientes(i)
    <3>1. i \in Ficha BY <2>3 DEF Tipos
    <3>2. i.actual \in Nombres \cup {Raiz} /\ i.lock \in Locks BY <3>1 DEF Ficha
    <3>3. a.nucleos \in Nat BY <3>1 DEF AplicarPendientes, Ficha
    <3>4. d = <<a.nucleos, i.actual, i.lock>> BY DEF Digest
    <3> HIDE DEF a
    <3>5. d \in Digests BY <3>2, <3>3, <3>4 DEF Digests
    <3>6. ped' = [ped EXCEPT ![p] = [ped[p] EXCEPT !.paso = "detalle", !.digest = d]] BY <1>1, <2>8
    <3> HIDE DEF d
    <3> QED BY <2>6, <3>5, <3>6
  <2> QED BY <2>4, <2>5, <2>7, <2>8
<1>5. CASE Rechazar(p) \/ SinRespuesta(p)
  <2>1. UNCHANGED <<vm, tarea, fila, salida, permisos, asig, quitados>> /\ ped[p].paso = "detalle" /\ Fin(p)
    BY <1>5 DEF Rechazar, SinRespuesta, SoloPed, proxmox, En
  <2>2. vuelo' = vuelo \/ vuelo' = vuelo \cup {Orden(p)}
    BY <1>5 DEF Rechazar, SinRespuesta, SoloPed
  <2>3. PICK c : Sigue(p, c) /\ Deja(p, c) BY <2>1, PedidoFallido
  <2> QED BY <2>1, <2>2, <2>3 DEF PasoPedido, Avanza
<1>6. CASE Verificar(p)
  <2>1. UNCHANGED <<vm, tarea, fila, salida, permisos, asig, quitados, vuelo>> /\ ped[p].paso = "verifica"
        /\ Hecha(p, ped[p].gen)
    BY <1>6 DEF Verificar, SoloPed, proxmox, En
  <2>2. ped[p].gen \in Nat BY <1>1 DEF Pedido
  <2>3. PICK b : /\ Sigue(p, b) /\ b.paso = "fin"
                 /\ b.op = ped[p].op /\ b.v = ped[p].v /\ b.gen = ped[p].gen
    BY <2>1, <2>2, PedidoHecho
  <2> QED BY <2>1, <2>3 DEF PasoPedido, Avanza, Cumple
<1>7. CASE Seguir(p)
  <2>1. UNCHANGED <<vm, tarea, salida, permisos, asig, quitados, vuelo>> /\ ped[p].paso = "aceptado"
        /\ Hecha(p, ped[p].gen)
    BY <1>7 DEF Seguir, proxmox, En
  <2>2. ped[p].gen \in Nat BY <1>1 DEF Pedido
  <2>3. PICK b : /\ Sigue(p, b) /\ b.paso = "fin"
                 /\ b.op = ped[p].op /\ b.v = ped[p].v /\ b.gen = ped[p].gen
    BY <2>1, <2>2, PedidoHecho
  <2>4. fila' = [fila EXCEPT ![p] = "RUNNING"] \/ fila' = fila BY <1>7 DEF Seguir
  <2> QED BY <2>1, <2>3, <2>4 DEF PasoPedido, Avanza, Cumple
<1>8. CASE ElegirVmid(p)
  <2>1. PICK t \in TiposNuevos :
            ped' = [ped EXCEPT ![p] = [SinPedido EXCEPT !.paso = "detalle", !.op = "create",
                                                        !.v = VmidLibre, !.tipo = t]]
    BY <1>8 DEF ElegirVmid
  <2>2. t \in TiposVm BY DEF InstanciasAssumption, TiposVm
  <2>3. /\ UNCHANGED <<vm, tarea, fila, salida, permisos, asig, quitados, vuelo>> /\ ped[p].paso = "nuevo"
        /\ Quien[p] \in Admins
    BY <1>8 DEF ElegirVmid, SoloPed, proxmox, En, Rol
  <2> DEFINE v == VmidLibre
  <2>4. v \in Vmids \ Protegidos
    <3> DEFINE aptos == {w \in Vmids \ Protegidos : ~vm[w].vivo /\ w >= SiguienteID}
               menor(x) == \A w \in aptos : x <= w
    <3>1. VmidLibre # 0 BY <1>8 DEF ElegirVmid
    <3>2. VmidLibre = IF aptos = {} THEN 0 ELSE CHOOSE x \in aptos : \A w \in aptos : x <= w
      BY Zenon DEF VmidLibre
    <3>3. aptos # {} BY <3>1, <3>2
    <3>4. aptos \subseteq Nat BY DEF InstanciasAssumption
    <3>5. \E x \in aptos : \A w \in aptos : x <= w
      <4> HIDE DEF aptos
      <4>1. \A S \in SUBSET Nat : S # {} => \E x \in S : \A w \in S : x <= w
        BY MenorNatural
      <4> QED BY <3>3, <3>4, <4>1
    <3>6. aptos \subseteq Vmids \ Protegidos OBVIOUS
    <3> HIDE DEF aptos
    <3> QED BY <3>2, <3>3, <3>5, <3>6
  <2> HIDE DEF v
  <2> DEFINE b == [SinPedido EXCEPT !.paso = "detalle", !.op = "create", !.v = v, !.tipo = t]
  <2>5. b \in Pedido BY <2>2, <2>4, PedidoNuevo, Operaciones DEF Pedido, Activos, OpsPosibles
  <2>6. b.paso = "detalle" /\ b.op = "create" /\ b.v = v /\ b.gen = 0 BY PedidoNuevo DEF Pedido
  <2>7. Sigue(p, b) BY <2>1, <2>5 DEF Sigue, v
  <2> HIDE DEF b
  <2>8. Avanza(p, b) BY <2>3, <2>4, <2>6 DEF Avanza, Crea
  <2> QED BY <2>3, <2>7, <2>8 DEF PasoPedido
<1> QED BY <1>2, <1>3, <1>4, <1>5, <1>6, <1>7, <1>8

\* The order of a request that is accepted.
LEMMA PasosDeOrden ==
    ASSUME Tipos, PedidosCoherentes, NEW p \in Pedidos,
           \/ CambiarEstado(p) \/ OrdenarSnapshot(p) \/ EliminarInstancia(p)
           \/ AprovisionarInstancia(p) \/ ActualizarConfig(p)
    PROVE  \E b, i : PasoOrden(p, b, i)
<1>1. ped[p] \in Pedido /\ Coherente(p) /\ ped \in [Pedidos -> Pedido] BY DEF Tipos, PedidosCoherentes
<1>2. Despacha(p)
  BY DEF CambiarEstado, OrdenarSnapshot, EliminarInstancia, AprovisionarInstancia, ActualizarConfig
<1>3. ped[p].op = "config" => TrasConfig(p)
  BY Operaciones DEF CambiarEstado, OrdenarSnapshot, EliminarInstancia, AprovisionarInstancia,
     ActualizarConfig, OpsEnergia
<1>4. ped[p].op # "config" => ConTarea(p)
  BY DEF CambiarEstado, OrdenarSnapshot, EliminarInstancia, AprovisionarInstancia, ActualizarConfig
<1>5. En(p, "detalle") /\ Acepta(Orden(p)) /\ Ordenada(Orden(p), p)
      /\ UNCHANGED <<fila, salida, permisos, asig, quitados, vuelo>>
  BY <1>2 DEF Despacha
<1>6. Orden(p) \in Ordenes /\ Orden(p).vmid = ped[p].v BY <1>5, OrdenBienDada
<1>7. PICK i : Recibe(Orden(p), p, i) BY <1>5, <1>6, OrdenRecibida
<1> DEFINE v == ped[p].v
           g == vm'[v].gen
<1>8. v \in Vmids BY <1>6 DEF Ordenes
<1>9. vm'[v] = i /\ i \in Ficha BY <1>6, <1>7, <1>8 DEF Recibe, Tipos
<1>10. g \in Nat BY <1>9 DEF Ficha
<1>11. Actua(p) = g BY DEF Actua
<1> HIDE DEF g
<1>12. ASSUME NEW d \in {"verifica", "aceptado"},
              ped' = [ped EXCEPT ![p] = [ped[p] EXCEPT !.paso = d, !.gen = g]],
              d = "aceptado" <=> ped[p].op # "config"
       PROVE  \E b : Sigue(p, b) /\ Da(p, b)
  <2> DEFINE b == [ped[p] EXCEPT !.paso = d, !.gen = g]
  <2>1. b \in Pedido BY <1>1, <1>10 DEF Pedido, Activos
  <2>2. b.paso = d /\ b.op = ped[p].op /\ b.v = v /\ b.gen = g /\ b.nombre = ped[p].nombre
    BY <1>1 DEF Pedido
  <2>3. Sigue(p, b) BY <1>12, <2>1 DEF Sigue
  <2> HIDE DEF b
  <2>4. g = vm'[v].gen BY DEF g
  <2>5. Da(p, b) BY <1>5, <1>12, <2>2, <2>4 DEF Da, En
  <2> QED BY <2>3, <2>5
<1>13. \E b : Sigue(p, b) /\ Da(p, b)
  <2>1. CASE ped[p].op # "config"
    <3>1. ped' = [ped EXCEPT ![p] = [ped[p] EXCEPT !.paso = "aceptado", !.gen = g]]
      BY <1>1, <1>4, <1>11, <2>1 DEF ConTarea
    <3> QED BY <1>12, <2>1, <3>1
  <2>2. CASE ped[p].op = "config" /\ ~Hecha(p, g)
    <3>1. ped' = [ped EXCEPT ![p] = [ped[p] EXCEPT !.paso = "verifica", !.gen = g]]
      BY <1>1, <1>3, <1>11, <2>2 DEF TrasConfig
    <3> QED BY <1>12, <2>2, <3>1
  <2>3. CASE ped[p].op = "config" /\ Hecha(p, g)
    <3>1. PICK b : /\ Sigue(p, b) /\ b.paso = "fin"
                   /\ b.op = ped[p].op /\ b.v = ped[p].v /\ b.gen = g
      BY <1>10, <2>3, PedidoHecho
    <3>2. g = vm'[v].gen BY DEF g
    <3>3. Da(p, b) BY <1>5, <2>3, <3>1, <3>2 DEF Da, En
    <3> QED BY <3>1, <3>3
  <2> QED BY <2>1, <2>2, <2>3
<1> QED BY <1>5, <1>7, <1>13 DEF PasoOrden

\* What the API does not track shows to who was using what it read, and changes nothing else.
LEMMA Sorprendidos ==
    ASSUME Tipos, NEW v, ped' = Sorprende(v, ped)
    PROVE  /\ ped' \in [Pedidos -> Pedido]
           /\ \A p \in Pedidos :
                  /\ ped'[p].paso = ped[p].paso /\ ped'[p].op = ped[p].op /\ ped'[p].v = ped[p].v
                  /\ ped'[p].nombre = ped[p].nombre /\ ped'[p].gen = ped[p].gen
                  /\ ped'[p].leido = ped[p].leido
                  /\ ped'[p].ajeno <=> (ped[p].ajeno \/ Usando(p, v))
<1>1. \A p \in Pedidos : ped[p] \in Pedido BY DEF Tipos
<1> DEFINE a(p) == ped[p].ajeno \/ Usando(p, v)
<1>2. ASSUME NEW p \in Pedidos
      PROVE  /\ ped'[p] \in Pedido
             /\ ped'[p].paso = ped[p].paso /\ ped'[p].op = ped[p].op /\ ped'[p].v = ped[p].v
             /\ ped'[p].nombre = ped[p].nombre /\ ped'[p].gen = ped[p].gen
             /\ ped'[p].leido = ped[p].leido
             /\ ped'[p].ajeno = a(p)
  <2>1. ped'[p] = [ped[p] EXCEPT !.ajeno = a(p)] BY Zenon DEF Sorprende
  <2>2. a(p) \in BOOLEAN OBVIOUS
  <2> HIDE DEF a
  <2> QED BY <1>1, <2>1, <2>2 DEF Pedido
<1>3. ped' = [p \in Pedidos |-> ped'[p]] BY Zenon DEF Sorprende
<1>4. ped' \in [Pedidos -> Pedido] BY <1>2, <1>3
<1> QED BY <1>2, <1>4

\* The count of what happened grows by one.
LEMMA CuentaUna ==
    ASSUME Tipos, NEW c \in {"fallos", "ajenas", "asignaciones"}, Cuenta(c)
    PROVE  /\ cuentas' \in [fallos : Nat, ajenas : Nat, asignaciones : Nat]
           /\ c = "ajenas" => cuentas'.ajenas # cuentas.ajenas
<1>1. cuentas' = [cuentas EXCEPT ![c] = cuentas[c] + 1] BY DEF Cuenta
<1>2. cuentas[c] \in Nat BY DEF Tipos
<1>3. cuentas[c] + 1 \in Nat /\ cuentas[c] + 1 # cuentas[c] BY <1>2
<1>4. cuentas \in [fallos : Nat, ajenas : Nat, asignaciones : Nat] BY DEF Tipos
<1>5. CASE c = "fallos" BY <1>1, <1>3, <1>4, <1>5
<1>6. CASE c = "ajenas" BY <1>1, <1>3, <1>4, <1>6
<1>7. CASE c = "asignaciones" BY <1>1, <1>3, <1>4, <1>7
<1> QED BY <1>5, <1>6, <1>7

\* Every step is one of these.
LEMMA CadaPaso ==
    ASSUME Tipos, PedidosCoherentes, TareasFieles, InstanciasAssumption, [Next]_vars
    PROVE  \/ \E p \in Pedidos : \E b : PasoPedido(p, b)
           \/ \E p \in Pedidos : \E b, i : PasoOrden(p, b, i)
           \/ \E o : PasoLlegada(o)
           \/ \E v \in Vmids : \E i : PasoFin(v, i)
           \/ \E p \in Pedidos : Cerrar(p) \/ Vencer(p)
           \/ LeerCatalogo \/ EscribirPermisos
           \/ \E v \in Vmids : \E i : PasoAjeno(v, i)
           \/ UNCHANGED vars
<1>1. CASE \E p \in Pedidos :
               \/ Entrar(p) \/ Leer(p) \/ LeerSnapshots(p) \/ LeerConfig(p) \/ Rechazar(p)
               \/ SinRespuesta(p) \/ Verificar(p) \/ Seguir(p) \/ ElegirVmid(p)
  BY <1>1, PasosDelPedido
<1>2. CASE \E p \in Pedidos :
               \/ CambiarEstado(p) \/ OrdenarSnapshot(p) \/ EliminarInstancia(p)
               \/ AprovisionarInstancia(p) \/ ActualizarConfig(p)
  BY <1>2, PasosDeOrden
<1>3. CASE Llegar
  <2>1. PICK o \in vuelo :
            /\ vuelo' = vuelo \ {o}
            /\ IF Acepta(o) THEN Ordenada(o, Nadie) /\ ped' = Sorprende(o.vmid, ped)
               ELSE UNCHANGED <<proxmox, ped>>
            /\ UNCHANGED <<fila, salida, permisos, asig, quitados, cuentas>>
    BY <1>3 DEF Llegar
  <2>2. o \in Ordenes BY DEF Tipos
  <2>3. CASE Acepta(o)
    <3>1. \E i : Recibe(o, Nadie, i) BY <2>1, <2>2, <2>3, OrdenRecibida
    <3> QED BY <2>1, <2>3, <3>1 DEF PasoLlegada
  <2>4. CASE ~Acepta(o) BY <2>1, <2>4 DEF PasoLlegada, proxmox
  <2> QED BY <2>3, <2>4
<1>4. ASSUME NEW v \in Vmids, Terminar(v) PROVE \E i : PasoFin(v, i)
  <2> DEFINE p == tarea[v].de
  <2>1. Terminada(v) /\ UNCHANGED <<fila, permisos, asig, quitados, vuelo>> BY <1>4 DEF Terminar
  <2>2. TareaFiel(v) BY DEF TareasFieles
  <2>3. PICK i : Acaba(v, i) BY <2>1, <2>2, TareaAcabada
  <2>4. p = Nadie => salida' = salida BY <1>4 DEF Terminar
  <2>5. p # Nadie => \E e \in {"OK", "error", "WARNINGS"} : salida' = [salida EXCEPT ![p] = e]
    BY <1>4 DEF Terminar
  <2>6. \/ p # Nadie /\ (fila[p] = "RUNNING" \/ En(p, "aceptado")) /\ ped' = ped
        \/ ped' = Sorprende(v, ped)
    BY <1>4 DEF Terminar
  <2> QED BY <2>1, <2>3, <2>4, <2>5, <2>6 DEF PasoFin
<1>5. ASSUME NEW v \in Vmids, AjenaCrear(v) \/ AjenaBorrar(v) \/ AjenaEstado(v) \/ AjenaConfig(v)
      PROVE  \E i : PasoAjeno(v, i)
  <2>1. PICK i : Ajeno(v, i) /\ Ajena(v, i) BY <1>5, PanelAjeno
  <2>2. Cuenta("ajenas") BY <2>1 DEF Ajena
  <2>3. cuentas'.ajenas # cuentas.ajenas BY <2>2, CuentaUna
  <2> QED BY <2>1, <2>3 DEF PasoAjeno, Ajena
<1>6. CASE Next
  <2>1. \/ \E p \in Pedidos :
              \/ Entrar(p) \/ Leer(p) \/ LeerSnapshots(p) \/ LeerConfig(p)
              \/ CambiarEstado(p) \/ OrdenarSnapshot(p) \/ EliminarInstancia(p)
              \/ AprovisionarInstancia(p) \/ ActualizarConfig(p) \/ Rechazar(p)
              \/ SinRespuesta(p) \/ Verificar(p) \/ Seguir(p) \/ ElegirVmid(p)
              \/ Cerrar(p) \/ Vencer(p)
        \/ \E v \in Vmids :
              Terminar(v) \/ AjenaCrear(v) \/ AjenaBorrar(v) \/ AjenaEstado(v) \/ AjenaConfig(v)
        \/ Llegar \/ LeerCatalogo \/ EscribirPermisos
    BY <1>6, Zenon DEF Next
  <2> QED BY <1>1, <1>2, <1>3, <1>4, <1>5, <2>1
<1> QED BY <1>6

-----------------------------------------------------------------------------
(* Types *)

\* A step counts one thing at most.
LEMMA CuentasBien ==
    ASSUME Tipos, [Next]_vars
    PROVE  cuentas' \in [fallos : Nat, ajenas : Nat, asignaciones : Nat]
<1>1. cuentas' = cuentas \/ \E c \in {"fallos", "ajenas", "asignaciones"} : Cuenta(c)
  <2>1. CASE UNCHANGED vars BY <2>1 DEF vars
  <2>2. ASSUME NEW p \in Pedidos, Entrar(p) \/ Leer(p) \/ LeerSnapshots(p) \/ LeerConfig(p) \/ Rechazar(p)
               \/ Verificar(p) \/ ElegirVmid(p) \/ Cerrar(p)
        PROVE  cuentas' = cuentas
    BY <2>2 DEF Entrar, Leer, LeerSnapshots, LeerConfig, Rechazar, Verificar, ElegirVmid, Cerrar, SoloPed
  <2>3. ASSUME NEW p \in Pedidos,
               CambiarEstado(p) \/ OrdenarSnapshot(p) \/ EliminarInstancia(p)
               \/ AprovisionarInstancia(p) \/ ActualizarConfig(p)
        PROVE  cuentas' = cuentas
    BY <2>3 DEF CambiarEstado, OrdenarSnapshot, EliminarInstancia, AprovisionarInstancia,
       ActualizarConfig, Despacha
  <2>4. ASSUME NEW p \in Pedidos, SinRespuesta(p) \/ Seguir(p) \/ Vencer(p)
        PROVE  cuentas' = cuentas \/ Cuenta("fallos")
    BY <2>4 DEF SinRespuesta, Seguir, Vencer, Falla
  <2>5. ASSUME NEW v \in Vmids, Terminar(v) PROVE cuentas' = cuentas \/ Cuenta("fallos")
    BY <2>5 DEF Terminar, Falla
  <2>6. ASSUME NEW v \in Vmids, AjenaCrear(v) \/ AjenaBorrar(v) \/ AjenaEstado(v) \/ AjenaConfig(v)
        PROVE  Cuenta("ajenas")
    BY <2>6 DEF AjenaCrear, AjenaBorrar, AjenaEstado, AjenaConfig, Ajena
  <2>7. LeerCatalogo => Cuenta("asignaciones") BY DEF LeerCatalogo
  <2>8. Llegar \/ EscribirPermisos => cuentas' = cuentas BY DEF Llegar, EscribirPermisos
  <2> QED BY <2>1, <2>2, <2>3, <2>4, <2>5, <2>6, <2>7, <2>8 DEF Next
<1>2. cuentas \in [fallos : Nat, ajenas : Nat, asignaciones : Nat] BY DEF Tipos
<1> QED BY <1>1, <1>2, CuentaUna

\* The instances, and whose turn it is, once an order is taken.
LEMMA TiposDeOrden ==
    ASSUME Tipos, NEW o \in Ordenes, NEW de \in Pedidos \cup {Nadie}, NEW i, Recibe(o, de, i)
    PROVE  vm' \in [Vmids -> Ficha] /\ tarea' \in [Vmids -> Tareas]
<1>1. o.op \in OpsPosibles /\ o.nombre \in Nombres \cup {""} /\ o.vmid \in Vmids BY DEF Ordenes
<1>2. vm' \in [Vmids -> Ficha] BY DEF Recibe, Tipos
<1>3. o.op # "config" => [op |-> o.op, nombre |-> o.nombre, de |-> de] \in Tareas
  BY <1>1 DEF Tareas, OpsPosibles
<1>4. tarea' \in [Vmids -> Tareas] BY <1>1, <1>3 DEF Recibe, Tipos
<1> QED BY <1>2, <1>4

\* What an assignment writes: rows of its user, on instances that are not
\* protected, each of which says whether its instance is gone.
LEMMA FilasNuevas ==
    ASSUME Tipos, InstanciasAssumption, asig # SinAsignacion, NEW r \in Nuevos
    PROVE  /\ r \in Filas /\ r.u = asig.u /\ r.v \in Vmids \ Protegidos
           /\ Murio(r.v, r.gen) => r.tarde
<1>1. asig.u \in Admins \cup Operadores
      /\ asig.gens \in UNION {[S -> Nat] : S \in SUBSET (Vmids \ Protegidos)}
  BY DEF Tipos, Asignaciones
<1>2. PICK S \in SUBSET (Vmids \ Protegidos) : asig.gens \in [S -> Nat] BY <1>1
<1>3. PICK v \in DOMAIN asig.gens :
          r = [u |-> asig.u, v |-> v, gen |-> asig.gens[v], tarde |-> Murio(v, asig.gens[v])]
  BY Zenon DEF Nuevos
<1> DEFINE m == Murio(v, asig.gens[v])
           g == asig.gens[v]
           w == asig.u
<1>4. v \in Vmids \ Protegidos /\ g \in Nat BY <1>2, <1>3
<1>5. m \in BOOLEAN BY DEF Murio
<1>6. w \in Admins \cup Operadores BY <1>1
<1>7. r = [u |-> w, v |-> v, gen |-> g, tarde |-> m] BY <1>3
<1>8. Murio(v, g) <=> m OBVIOUS
<1>9. asig.u = w OBVIOUS
<1> HIDE DEF m, g, w
<1>10. r.u = w /\ r.v = v /\ r.gen = g /\ r.tarde = m BY <1>7
<1>11. r \in Filas BY <1>4, <1>5, <1>6, <1>7 DEF Filas
<1> QED BY <1>4, <1>8, <1>9, <1>10, <1>11

\* What the closure of a creation writes: one row of its author.
LEMMA FilasOtorgadas ==
    ASSUME Tipos, PedidosCoherentes, InstanciasAssumption, NEW p \in Pedidos,
           fila[p] = "RUNNING", NEW r \in Otorgados(p)
    PROVE  r \in Filas
<1>1. Coherente(p) /\ ped[p] \in Pedido BY DEF PedidosCoherentes, Tipos
<1>2. ped[p].v \in Vmids BY <1>1, Operaciones DEF Coherente
<1> DEFINE m == Murio(ped[p].v, ped[p].gen)
<1>3. m \in BOOLEAN BY DEF Murio
<1>4. Quien[p] \in Admins \cup Operadores /\ ped[p].gen \in Nat
  BY <1>1 DEF InstanciasAssumption, Pedido
<1>5. r = [u |-> Quien[p], v |-> ped[p].v, gen |-> ped[p].gen, tarde |-> m]
  BY Zenon DEF Otorgados
<1> HIDE DEF m
<1> QED BY <1>2, <1>3, <1>4, <1>5 DEF Filas

\* Permissions and assignments.
LEMMA TiposDePermisos ==
    ASSUME Tipos, PedidosCoherentes, InstanciasAssumption,
           (\E p \in Pedidos : Cerrar(p) \/ Vencer(p)) \/ LeerCatalogo \/ EscribirPermisos
    PROVE  /\ permisos' \subseteq Filas /\ asig' \in Asignaciones
           /\ quitados' \subseteq (Admins \cup Operadores) \X Vmids
           /\ fila' \in [Pedidos -> {"ausente", "RUNNING", "COMPLETED", "FAILED"}]
           /\ UNCHANGED <<vm, tarea, ped, salida, vuelo>>
<1>1. ASSUME NEW p \in Pedidos, Cerrar(p)
      PROVE  /\ permisos' \subseteq Filas /\ asig' = asig /\ quitados' \subseteq quitados
             /\ fila' \in [Pedidos -> {"ausente", "RUNNING", "COMPLETED", "FAILED"}]
             /\ UNCHANGED <<vm, tarea, ped, salida, vuelo>>
  <2>1. fila[p] = "RUNNING" /\ permisos' = (permisos \ Purgados(p)) \cup Otorgados(p)
        /\ UNCHANGED <<vm, tarea, ped, salida, asig, vuelo>> /\ quitados' \subseteq quitados
    BY <1>1 DEF Cerrar, proxmox
  <2>2. fila' \in [Pedidos -> {"ausente", "RUNNING", "COMPLETED", "FAILED"}]
    BY <1>1 DEF Cerrar, Tipos
  <2>3. \A r \in Otorgados(p) : r \in Filas BY <2>1, FilasOtorgadas
  <2> QED BY <2>1, <2>2, <2>3 DEF Tipos
<1>2. ASSUME NEW p \in Pedidos, Vencer(p)
      PROVE  /\ permisos' = permisos /\ asig' = asig /\ quitados' = quitados
             /\ fila' \in [Pedidos -> {"ausente", "RUNNING", "COMPLETED", "FAILED"}]
             /\ UNCHANGED <<vm, tarea, ped, salida, vuelo>>
  BY <1>2 DEF Vencer, proxmox, Tipos
<1>3. CASE LeerCatalogo
  <2>1. PICK u \in Admins \cup Operadores, S \in SUBSET (Vmids \ Protegidos) :
            asig' = [paso |-> "escribe", u |-> u, gens |-> [v \in S |-> vm[v].gen]]
    BY <1>3 DEF LeerCatalogo
  <2> DEFINE g == [v \in S |-> vm[v].gen]
  <2>2. \A v \in S : vm[v].gen \in Nat BY DEF Tipos, Ficha
  <2>3. g \in UNION {[T -> Nat] : T \in SUBSET (Vmids \ Protegidos)} BY <2>2
  <2>4. asig' = [paso |-> "escribe", u |-> u, gens |-> g] BY <2>1
  <2> HIDE DEF g
  <2>5. asig' \in Asignaciones BY <2>3, <2>4 DEF Asignaciones
  <2> QED BY <1>3, <2>5 DEF LeerCatalogo, proxmox, Tipos
<1>4. CASE EscribirPermisos
  <2>1. /\ asig # SinAsignacion /\ asig' = SinAsignacion
        /\ permisos' = (permisos \ Anteriores) \cup Nuevos
        /\ quitados' \subseteq quitados \cup {<<r.u, r.v>> : r \in Anteriores}
        /\ UNCHANGED <<vm, tarea, ped, fila, salida, vuelo>>
    BY <1>4 DEF EscribirPermisos, proxmox
  <2>2. \A r \in Nuevos : r \in Filas BY <2>1, FilasNuevas
  <2>3. \A r \in Anteriores : r \in Filas BY DEF Anteriores, Tipos
  <2>4. \A r \in Anteriores : <<r.u, r.v>> \in (Admins \cup Operadores) \X Vmids
    BY <2>3 DEF Filas
  <2>5. quitados' \subseteq (Admins \cup Operadores) \X Vmids BY <2>1, <2>4 DEF Tipos
  <2> QED BY <2>1, <2>2, <2>5 DEF Asignaciones, Tipos
<1> QED BY <1>1, <1>2, <1>3, <1>4 DEF Tipos

\* Types are kept.
LEMMA TiposSeConserva ==
    ASSUME Tipos, PedidosCoherentes, TareasFieles, InstanciasAssumption, [Next]_vars
    PROVE  Tipos'
<1>0. cuentas' \in [fallos : Nat, ajenas : Nat, asignaciones : Nat] BY CuentasBien
<1>1. ASSUME NEW p \in Pedidos, NEW b, PasoPedido(p, b) PROVE Tipos'
  <2>1. ped' \in [Pedidos -> Pedido] BY <1>1 DEF PasoPedido, Sigue, Tipos
  <2>2. vuelo' \subseteq Ordenes
    <3>1. ped[p].paso = "detalle" => Orden(p) \in Ordenes BY OrdenBienDada DEF En
    <3> QED BY <1>1, <3>1 DEF PasoPedido, Tipos
  <2>3. fila' \in [Pedidos -> {"ausente", "RUNNING", "COMPLETED", "FAILED"}]
    BY <1>1 DEF PasoPedido, Tipos
  <2> QED BY <1>0, <1>1, <2>1, <2>2, <2>3 DEF PasoPedido, Tipos
<1>2. ASSUME NEW p \in Pedidos, NEW b, NEW i, PasoOrden(p, b, i) PROVE Tipos'
  <2>1. ped' \in [Pedidos -> Pedido] BY <1>2 DEF PasoOrden, Sigue, Tipos
  <2>2. Orden(p) \in Ordenes BY <1>2, OrdenBienDada DEF PasoOrden, Da, En
  <2>3. vm' \in [Vmids -> Ficha] /\ tarea' \in [Vmids -> Tareas]
    BY <1>2, <2>2, TiposDeOrden DEF PasoOrden
  <2> QED BY <1>0, <1>2, <2>1, <2>3 DEF PasoOrden, Tipos
<1>3. ASSUME NEW o, PasoLlegada(o) PROVE Tipos'
  <2>1. o \in Ordenes /\ vuelo' \subseteq Ordenes BY <1>3 DEF PasoLlegada, Tipos
  <2>2. ped' = Sorprende(o.vmid, ped) => ped' \in [Pedidos -> Pedido] BY Sorprendidos
  <2>3. (\E i : Recibe(o, Nadie, i)) => vm' \in [Vmids -> Ficha] /\ tarea' \in [Vmids -> Tareas]
    BY <2>1, TiposDeOrden
  <2> QED BY <1>0, <1>3, <2>1, <2>2, <2>3 DEF PasoLlegada, Tipos
<1>4. ASSUME NEW v \in Vmids, NEW i, PasoFin(v, i) PROVE Tipos'
  <2>1. vm' \in [Vmids -> Ficha] /\ tarea' \in [Vmids -> Tareas]
    BY <1>4 DEF PasoFin, Acaba, Tipos, Tareas
  <2>2. salida' \in [Pedidos -> {"nada", "OK", "error", "WARNINGS"}] BY <1>4 DEF PasoFin, Tipos
  <2>3. ped' = Sorprende(v, ped) => ped' \in [Pedidos -> Pedido] BY Sorprendidos
  <2> QED BY <1>0, <1>4, <2>1, <2>2, <2>3 DEF PasoFin, Tipos
<1>5. ASSUME (\E p \in Pedidos : Cerrar(p) \/ Vencer(p)) \/ LeerCatalogo \/ EscribirPermisos PROVE Tipos'
  <2>1. /\ permisos' \subseteq Filas /\ asig' \in Asignaciones
        /\ quitados' \subseteq (Admins \cup Operadores) \X Vmids
        /\ fila' \in [Pedidos -> {"ausente", "RUNNING", "COMPLETED", "FAILED"}]
        /\ UNCHANGED <<vm, tarea, ped, salida, vuelo>>
    BY <1>5, TiposDePermisos
  <2> QED BY <1>0, <2>1 DEF Tipos
<1>6. ASSUME NEW v \in Vmids, NEW i, PasoAjeno(v, i) PROVE Tipos'
  <2>1. ped' \in [Pedidos -> Pedido] BY <1>6, Sorprendidos DEF PasoAjeno
  <2>2. vm' \in [Vmids -> Ficha] BY <1>6 DEF PasoAjeno, Ajeno, Tipos
  <2> QED BY <1>0, <1>6, <2>1, <2>2 DEF PasoAjeno, Ajeno, Tipos
<1>7. ASSUME UNCHANGED vars PROVE Tipos'
  BY <1>7 DEF vars, proxmox, Tipos
<1> QED BY <1>1, <1>2, <1>3, <1>4, <1>5, <1>6, <1>7, CadaPaso

-----------------------------------------------------------------------------
(* Requests, orders and tasks *)

\* What a step leaves of the requests it does not serve.
LEMMA LosDemas ==
    ASSUME Tipos, NEW p \in Pedidos, NEW b, Sigue(p, b)
    PROVE  ped'[p] = b /\ \A q \in Pedidos \ {p} : ped'[q] = ped[q]
BY DEF Sigue, Tipos

\* Requests stay coherent.
LEMMA CoherentesSeConserva ==
    ASSUME Tipos, PedidosCoherentes, TareasFieles, InstanciasAssumption, [Next]_vars
    PROVE  PedidosCoherentes'
<1>1. SUFFICES ASSUME NEW q \in Pedidos PROVE Coherente(q)'
  BY DEF PedidosCoherentes
<1>2. Coherente(q) /\ ped[q] \in Pedido BY DEF PedidosCoherentes, Tipos
<1>3. ASSUME /\ ped'[q].paso = ped[q].paso /\ ped'[q].op = ped[q].op /\ ped'[q].v = ped[q].v
             /\ ped'[q].nombre = ped[q].nombre,
             fila'[q] = fila[q], salida'[q] = salida[q]
      PROVE  Coherente(q)'
  BY <1>2, <1>3 DEF Coherente, Activo
<1>4. ASSUME NEW p \in Pedidos, NEW b, PasoPedido(p, b) PROVE Coherente(q)'
  <2>1. CASE q # p
    <3>1. ped'[q] = ped[q] BY <1>4, <2>1, LosDemas DEF PasoPedido
    <3>2. fila'[q] = fila[q] /\ salida'[q] = salida[q] BY <1>4, <2>1 DEF PasoPedido, Tipos
    <3> QED BY <1>3, <3>1, <3>2
  <2>2. CASE q = p
    <3>1. ped'[q] = b /\ salida'[q] = salida[q] /\ Avanza(q, b)
      BY <1>4, <2>2, LosDemas DEF PasoPedido
    <3>2. fila[q] = "ausente" BY <1>2, <3>1 DEF Coherente, Avanza, Entra, Crea, Mira, Deja, Cumple
    <3>3. fila'[q] = fila[q] \/ (ped[q].paso = "aceptado" /\ b.paso = "fin" /\ fila'[q] = "RUNNING")
      BY <1>4, <2>2 DEF PasoPedido, Tipos
    <3>4. CASE Entra(q, b)
      BY <1>2, <3>1, <3>2, <3>3, <3>4, Operaciones DEF Coherente, Activo, Activos, Entra
    <3>5. CASE Crea(q, b)
      BY <1>2, <3>1, <3>2, <3>3, <3>5, Operaciones DEF Coherente, Activo, Activos, Crea
    <3>6. CASE Mira(q, b)
      BY <1>2, <3>1, <3>2, <3>3, <3>6, Operaciones DEF Coherente, Activo, Activos, Mira
    <3>7. CASE Deja(q, b)
      BY <1>2, <3>1, <3>2, <3>3, <3>7, Operaciones DEF Coherente, Activo, Activos, Deja
    <3>8. CASE Cumple(q, b)
      BY <1>2, <3>1, <3>2, <3>3, <3>8, Operaciones DEF Coherente, Activo, Activos, Cumple, Pedido, OpsPosibles
    <3> QED BY <3>1, <3>4, <3>5, <3>6, <3>7, <3>8 DEF Avanza
  <2> QED BY <2>1, <2>2
<1>5. ASSUME NEW p \in Pedidos, NEW b, NEW i, PasoOrden(p, b, i) PROVE Coherente(q)'
  <2>0. fila' = fila /\ salida' = salida BY <1>5 DEF PasoOrden
  <2>1. CASE q # p
    <3>1. ped'[q] = ped[q] BY <1>5, <2>1, LosDemas DEF PasoOrden
    <3> QED BY <1>3, <2>0, <3>1
  <2>2. CASE q = p
    <3>1. ped'[q] = b /\ Da(q, b) BY <1>5, <2>2, LosDemas DEF PasoOrden
    <3>2. fila[q] = "ausente" /\ salida[q] = "nada" BY <1>2, <3>1 DEF Coherente, Da
    <3> QED BY <1>2, <2>0, <3>1, <3>2, Operaciones DEF Coherente, Activo, Activos, Da
  <2> QED BY <2>1, <2>2
<1>6. ASSUME NEW o, PasoLlegada(o) PROVE Coherente(q)'
  BY <1>3, <1>6, Sorprendidos DEF PasoLlegada
<1>7. ASSUME NEW v \in Vmids, NEW i, PasoFin(v, i) PROVE Coherente(q)'
  <2>1. /\ ped'[q].paso = ped[q].paso /\ ped'[q].op = ped[q].op /\ ped'[q].v = ped[q].v
        /\ ped'[q].nombre = ped[q].nombre
    BY <1>7, Sorprendidos DEF PasoFin
  <2>2. fila' = fila BY <1>7 DEF PasoFin
  <2>3. CASE salida'[q] = salida[q] BY <1>3, <2>1, <2>2, <2>3
  <2>4. CASE salida'[q] # salida[q]
    <3>1. tarea[v].de = q /\ tarea[v].de # Nadie /\ salida'[q] # "nada"
      BY <1>7, <2>4 DEF PasoFin, Tipos
    <3>2. TareaFiel(v) /\ tarea[v] # SinTarea BY <1>7 DEF TareasFieles, PasoFin, Acaba
    <3>3. tarea[v].op \in OpsTarea BY <3>2 DEF Tipos, Tareas
    <3>4. ped[q].paso \in {"aceptado", "fin"} /\ ped[q].op \in OpsTarea
      BY <3>1, <3>2, <3>3 DEF TareaFiel
    <3> QED BY <1>2, <2>1, <2>2, <3>1, <3>4 DEF Coherente, Activo
  <2> QED BY <2>3, <2>4
<1>8. ASSUME NEW p \in Pedidos, Cerrar(p) \/ Vencer(p) PROVE Coherente(q)'
  <2>1. ped' = ped /\ salida' = salida BY <1>8 DEF Cerrar, Vencer
  <2>2. CASE q # p
    <3>1. fila'[q] = fila[q] BY <1>8, <2>2 DEF Cerrar, Vencer, Tipos
    <3> QED BY <1>3, <2>1, <3>1
  <2>3. CASE q = p
    <3>1. fila[q] = "RUNNING" /\ (fila'[q] = "FAILED" \/ salida[q] # "nada")
      BY <1>8, <2>3 DEF Cerrar, Vencer, Tipos
    <3> QED BY <1>2, <2>1, <3>1 DEF Coherente, Activo
  <2> QED BY <2>2, <2>3
<1>9. ASSUME LeerCatalogo \/ EscribirPermisos \/ UNCHANGED vars PROVE Coherente(q)'
  BY <1>3, <1>9 DEF LeerCatalogo, EscribirPermisos, vars
<1>10. ASSUME NEW v \in Vmids, NEW i, PasoAjeno(v, i) PROVE Coherente(q)'
  BY <1>3, <1>10, Sorprendidos DEF PasoAjeno
<1> QED BY <1>4, <1>5, <1>6, <1>7, <1>8, <1>9, <1>10, CadaPaso

\* The orders under way keep their names.
LEMMA NombresSeConserva ==
    ASSUME Tipos, PedidosCoherentes, OrdenesConNombre, TareasFieles, InstanciasAssumption, [Next]_vars
    PROVE  OrdenesConNombre'
<1>1. ASSUME NEW p \in Pedidos, NEW b, PasoPedido(p, b) PROVE OrdenesConNombre'
  <2>1. ped[p].paso = "detalle" => (Orden(p).op \in OpsSnapshot => Orden(p).nombre \in Nombres)
    BY OrdenBienDada DEF En
  <2> QED BY <1>1, <2>1 DEF PasoPedido, OrdenesConNombre
<1>2. vuelo' \subseteq vuelo => OrdenesConNombre' BY DEF OrdenesConNombre
<1>3. \A p \in Pedidos : Cerrar(p) \/ Vencer(p) => vuelo' = vuelo BY DEF Cerrar, Vencer
<1>4. LeerCatalogo \/ EscribirPermisos \/ UNCHANGED vars => vuelo' = vuelo
  BY DEF LeerCatalogo, EscribirPermisos, vars
<1>5. \A p \in Pedidos : \A b, i : PasoOrden(p, b, i) => vuelo' = vuelo BY DEF PasoOrden
<1>6. \A o : PasoLlegada(o) => vuelo' \subseteq vuelo BY DEF PasoLlegada
<1>7. \A v \in Vmids : \A i : PasoFin(v, i) \/ PasoAjeno(v, i) => vuelo' = vuelo BY DEF PasoFin, PasoAjeno
<1> QED BY <1>1, <1>2, <1>3, <1>4, <1>5, <1>6, <1>7, CadaPaso

\* An order that is taken leaves faithful tasks, whoever gave it.
LEMMA FielesTrasOrden ==
    ASSUME Tipos, PedidosCoherentes, TareasFieles, InstanciasAssumption,
           NEW o \in Ordenes, NEW de \in Pedidos \cup {Nadie}, NEW i, Recibe(o, de, i),
           o.op \in OpsSnapshot => o.nombre \in Nombres,
           salida' = salida,
           \A p \in Pedidos \ {de} :
               ped'[p].paso = ped[p].paso /\ ped'[p].op = ped[p].op /\ ped'[p].v = ped[p].v
               /\ ped'[p].gen = ped[p].gen,
           de # Nadie => /\ ped[de].paso = "detalle"
                         /\ o.op # "config" =>
                                /\ ped'[de].paso = "aceptado" /\ ped'[de].op = o.op
                                /\ ped'[de].v = o.vmid /\ ped'[de].gen = vm'[o.vmid].gen
    PROVE  TareasFieles'
<1> DEFINE v == o.vmid
<1>1. v \in Vmids /\ o.op \in OpsPosibles BY DEF Ordenes
<1>2. vm'[v] = i /\ i \in Ficha /\ i.vivo /\ \A w \in Vmids \ {v} : vm'[w] = vm[w]
  BY <1>1 DEF Recibe, Tipos
<1>3. de # Nadie => \A w \in Vmids : tarea[w] # SinTarea => tarea[w].de # de
  BY DEF TareasFieles, TareaFiel
<1>4. ASSUME NEW w \in Vmids, tarea'[w] = tarea[w], tarea[w] # SinTarea,
             vm'[w].vivo, vm'[w].gen = vm[w].gen, vm'[w].snaps = vm[w].snaps
      PROVE  TareaFiel(w)'
  <2>1. TareaFiel(w) /\ tarea[w] \in Tareas BY DEF TareasFieles, Tipos
  <2>2. tarea[w].de # Nadie => tarea[w].de \in Pedidos \ {de}
    BY <1>3, <1>4, <2>1 DEF Tareas
  <2> QED BY <1>4, <2>1, <2>2 DEF TareaFiel
<1>5. ASSUME NEW w \in Vmids \ {v} PROVE TareaFiel(w)'
  <2>1. tarea'[w] = tarea[w] BY DEF Recibe, Tipos
  <2>2. tarea[w] # SinTarea => vm[w].vivo BY DEF TareasFieles, TareaFiel
  <2>3. tarea[w] = SinTarea => TareaFiel(w)' BY <2>1 DEF TareaFiel
  <2> QED BY <1>2, <1>4, <2>1, <2>2, <2>3
<1>6. CASE o.op = "config"
  <2>1. tarea' = tarea /\ i.gen = vm[v].gen /\ i.snaps = vm[v].snaps BY <1>6 DEF Recibe
  <2>2. tarea[v] = SinTarea => TareaFiel(v)' BY <2>1 DEF TareaFiel
  <2>3. TareaFiel(v)' BY <1>1, <1>2, <1>4, <2>1, <2>2
  <2> QED BY <1>5, <2>3 DEF TareasFieles
<1>7. CASE o.op # "config"
  <2>1. tarea'[v] = [op |-> o.op, nombre |-> o.nombre, de |-> de] BY <1>1, <1>7 DEF Recibe, Tipos
  <2>2. tarea'[v].op = o.op /\ tarea'[v].nombre = o.nombre /\ tarea'[v].de = de BY <2>1
  <2>3. o.op \in {"rollback", "delsnapshot"} => o.nombre \in DOMAIN vm'[v].snaps
    BY <1>2 DEF Recibe
  <2>4. de # Nadie => salida'[de] = "nada" BY DEF PedidosCoherentes, Coherente
  <2>5. TareaFiel(v)' BY <1>2, <1>7, <2>2, <2>3, <2>4 DEF TareaFiel
  <2> QED BY <1>5, <2>5 DEF TareasFieles
<1> QED BY <1>6, <1>7

\* Tasks stay faithful.
LEMMA FielesSeConserva ==
    ASSUME Tipos, PedidosCoherentes, OrdenesConNombre, TareasFieles, InstanciasAssumption, [Next]_vars
    PROVE  TareasFieles'
<1>0. Nadie \notin Pedidos BY DEF InstanciasAssumption
<1>1. ASSUME NEW w \in Vmids, tarea'[w] = tarea[w], vm'[w] = vm[w] \/ tarea[w] = SinTarea,
             tarea[w] # SinTarea /\ tarea[w].de # Nadie =>
                 LET p == tarea[w].de
                 IN  /\ ped'[p].paso \in {ped[p].paso, "fin"} /\ salida'[p] = salida[p]
                     /\ ped'[p].op = ped[p].op /\ ped'[p].v = ped[p].v /\ ped'[p].gen = ped[p].gen
      PROVE  TareaFiel(w)'
  BY <1>1 DEF TareasFieles, TareaFiel
<1>2. \A w \in Vmids : tarea[w] # SinTarea /\ tarea[w].de # Nadie =>
          tarea[w].de \in Pedidos /\ ped[tarea[w].de].paso \in {"aceptado", "fin"}
  <2>1. ASSUME NEW w \in Vmids, tarea[w] # SinTarea, tarea[w].de # Nadie
        PROVE  tarea[w].de \in Pedidos /\ ped[tarea[w].de].paso \in {"aceptado", "fin"}
    <3>1. tarea[w] \in Tareas /\ TareaFiel(w) BY DEF Tipos, TareasFieles
    <3>2. tarea[w].de \in Pedidos BY <2>1, <3>1 DEF Tareas
    <3> QED BY <2>1, <3>1, <3>2 DEF TareaFiel
  <2> QED BY <2>1
<1>3. ASSUME NEW p \in Pedidos, NEW b, PasoPedido(p, b) PROVE TareasFieles'
  <2>1. vm' = vm /\ tarea' = tarea /\ salida' = salida /\ ped'[p] = b
        /\ \A q \in Pedidos \ {p} : ped'[q] = ped[q]
    BY <1>3, LosDemas DEF PasoPedido
  <2>2. ped[p].paso \in {"aceptado", "fin"} =>
            b.paso = "fin" /\ b.op = ped[p].op /\ b.v = ped[p].v /\ b.gen = ped[p].gen
    BY <1>3 DEF PasoPedido, Avanza, Entra, Crea, Mira, Deja, Cumple
  <2>3. \A w \in Vmids : TareaFiel(w)' BY <1>1, <1>2, <2>1, <2>2
  <2> QED BY <2>3 DEF TareasFieles
<1>4. ASSUME NEW p \in Pedidos, NEW b, NEW i, PasoOrden(p, b, i) PROVE TareasFieles'
  <2>1. ped[p].paso = "detalle" /\ Recibe(Orden(p), p, i) /\ salida' = salida /\ ped'[p] = b
        /\ \A q \in Pedidos \ {p} : ped'[q] = ped[q]
    BY <1>4, LosDemas DEF PasoOrden, Da
  <2>2. /\ Orden(p) \in Ordenes /\ Orden(p).op = ped[p].op /\ Orden(p).vmid = ped[p].v
        /\ Orden(p).op \in OpsSnapshot => Orden(p).nombre \in Nombres
    BY <2>1, OrdenBienDada DEF En
  <2>3. ped[p].op # "config" => b.paso = "aceptado" /\ b.op = ped[p].op /\ b.v = ped[p].v
                                /\ b.gen = vm'[ped[p].v].gen
    BY <1>4 DEF PasoOrden, Da
  <2> QED BY <2>1, <2>2, <2>3, FielesTrasOrden
<1>5. ASSUME NEW o, PasoLlegada(o) PROVE TareasFieles'
  <2>1. o \in Ordenes /\ (o.op \in OpsSnapshot => o.nombre \in Nombres) /\ salida' = salida
    BY <1>5 DEF PasoLlegada, Tipos, OrdenesConNombre
  <2>2. CASE UNCHANGED <<vm, tarea, ped>>
    <3>1. \A w \in Vmids : TareaFiel(w)' BY <1>1, <2>1, <2>2
    <3> QED BY <3>1 DEF TareasFieles
  <2>3. ASSUME NEW i, Recibe(o, Nadie, i), ped' = Sorprende(o.vmid, ped) PROVE TareasFieles'
    <3>1. \A p \in Pedidos :
              ped'[p].paso = ped[p].paso /\ ped'[p].op = ped[p].op /\ ped'[p].v = ped[p].v
              /\ ped'[p].gen = ped[p].gen
      BY <2>3, Sorprendidos
    <3> QED BY <2>1, <2>3, <3>1, FielesTrasOrden
  <2> QED BY <1>5, <2>2, <2>3 DEF PasoLlegada
<1>6. ASSUME NEW v \in Vmids, NEW i, PasoFin(v, i) PROVE TareasFieles'
  <2>1. /\ vm' = [vm EXCEPT ![v] = i] /\ tarea' = [tarea EXCEPT ![v] = SinTarea]
        /\ tarea[v] # SinTarea
    BY <1>6 DEF PasoFin, Acaba
  <2>2. \A p \in Pedidos :
            ped'[p].paso = ped[p].paso /\ ped'[p].op = ped[p].op /\ ped'[p].v = ped[p].v
            /\ ped'[p].gen = ped[p].gen
    BY <1>6, Sorprendidos DEF PasoFin
  <2>3. \A p \in Pedidos : p # tarea[v].de => salida'[p] = salida[p] BY <1>6 DEF PasoFin, Tipos
  <2>4. ASSUME NEW w \in Vmids \ {v} PROVE TareaFiel(w)'
    <3>1. tarea'[w] = tarea[w] /\ vm'[w] = vm[w] BY <2>1 DEF Tipos
    <3>2. tarea[w] # SinTarea /\ tarea[w].de # Nadie => tarea[w].de # tarea[v].de
      BY <2>1 DEF TareasFieles, TareaFiel
    <3> QED BY <1>1, <1>2, <2>2, <2>3, <3>1, <3>2
  <2>5. tarea'[v] = SinTarea BY <2>1 DEF Tipos
  <2>6. TareaFiel(v)' BY <2>5 DEF TareaFiel
  <2> QED BY <2>4, <2>6 DEF TareasFieles
<1>7. ASSUME (\E p \in Pedidos : Cerrar(p) \/ Vencer(p)) \/ LeerCatalogo \/ EscribirPermisos
             \/ UNCHANGED vars
      PROVE  TareasFieles'
  <2>1. UNCHANGED <<vm, tarea, ped, salida>>
    BY <1>7 DEF Cerrar, Vencer, LeerCatalogo, EscribirPermisos, vars, proxmox
  <2>2. \A w \in Vmids : TareaFiel(w)' BY <1>1, <2>1
  <2> QED BY <2>2 DEF TareasFieles
<1>8. ASSUME NEW v \in Vmids, NEW i, PasoAjeno(v, i) PROVE TareasFieles'
  <2>1. vm' = [vm EXCEPT ![v] = i] /\ tarea' = tarea /\ tarea[v] = SinTarea /\ salida' = salida
    BY <1>8 DEF PasoAjeno, Ajeno
  <2>2. \A p \in Pedidos :
            ped'[p].paso = ped[p].paso /\ ped'[p].op = ped[p].op /\ ped'[p].v = ped[p].v
            /\ ped'[p].gen = ped[p].gen
    BY <1>8, Sorprendidos DEF PasoAjeno
  <2>3. \A w \in Vmids : vm'[w] = vm[w] \/ tarea[w] = SinTarea BY <2>1 DEF Tipos
  <2>4. \A w \in Vmids : TareaFiel(w)' BY <1>1, <1>2, <2>1, <2>2, <2>3
  <2> QED BY <2>4 DEF TareasFieles
<1> QED BY <1>3, <1>4, <1>5, <1>6, <1>7, <1>8, CadaPaso

-----------------------------------------------------------------------------
(* The generations of a VMID *)

\* A VMID names instances one after another: the count never goes back, and
\* an instance that is gone does not come back with its number.
LEMMA Generaciones ==
    ASSUME Tipos, PedidosCoherentes, TareasFieles, InstanciasAssumption, [Next]_vars, NEW w \in Vmids
    PROVE  /\ vm[w].gen \in Nat /\ vm'[w].gen \in Nat /\ vm'[w].gen >= vm[w].gen
           /\ vm'[w].gen = vm[w].gen /\ vm'[w].vivo => vm[w].vivo
<1>1. vm[w] \in Ficha /\ vm[w].gen \in Nat BY DEF Tipos, Ficha
<1>2. SUFFICES \/ vm'[w] = vm[w]
               \/ vm'[w].gen = vm[w].gen /\ vm[w].vivo
               \/ vm'[w].gen = vm[w].gen + 1
  BY <1>1, <1>2
<1>3. ASSUME NEW o \in Ordenes, NEW de, NEW i, Recibe(o, de, i)
      PROVE  \/ vm'[w] = vm[w]
             \/ vm'[w].gen = vm[w].gen /\ vm[w].vivo
             \/ vm'[w].gen = vm[w].gen + 1
  <2>1. o.vmid \in Vmids BY DEF Ordenes
  <2>2. CASE w # o.vmid BY <1>3, <2>2 DEF Recibe, Tipos
  <2>3. CASE w = o.vmid
    <3>1. vm'[w] = i BY <1>3, <2>3 DEF Recibe, Tipos
    <3> QED BY <1>3, <2>3, <3>1 DEF Recibe
  <2> QED BY <2>2, <2>3
<1>4. ASSUME NEW p \in Pedidos, NEW b, NEW i, PasoOrden(p, b, i)
      PROVE  \E o \in Ordenes : Recibe(o, p, i)
  BY <1>4, OrdenBienDada DEF PasoOrden, Da, En
<1>5. ASSUME NEW o, PasoLlegada(o)
      PROVE  vm' = vm \/ (o \in Ordenes /\ \E i : Recibe(o, Nadie, i))
  BY <1>5 DEF PasoLlegada, Tipos
<1>6. ASSUME NEW v \in Vmids, NEW i, PasoFin(v, i)
      PROVE  vm'[w] = vm[w] \/ (vm'[w].gen = vm[w].gen /\ vm[w].vivo)
  <2>1. vm' = [vm EXCEPT ![v] = i] /\ i.gen = vm[v].gen /\ tarea[v] # SinTarea
    BY <1>6 DEF PasoFin, Acaba
  <2>2. vm[v].vivo BY <2>1 DEF TareasFieles, TareaFiel
  <2> QED BY <2>1, <2>2 DEF Tipos
<1>7. ASSUME NEW v \in Vmids, NEW i, PasoAjeno(v, i)
      PROVE  \/ vm'[w] = vm[w]
             \/ vm'[w].gen = vm[w].gen /\ vm[w].vivo
             \/ vm'[w].gen = vm[w].gen + 1
  BY <1>7 DEF PasoAjeno, Ajeno, Tipos
<1>8. \A p \in Pedidos : \A b : PasoPedido(p, b) => vm' = vm BY DEF PasoPedido
<1>9. (\E p \in Pedidos : Cerrar(p) \/ Vencer(p)) \/ LeerCatalogo \/ EscribirPermisos
      \/ UNCHANGED vars => vm' = vm
  BY DEF Cerrar, Vencer, LeerCatalogo, EscribirPermisos, vars, proxmox
<1> QED BY <1>3, <1>4, <1>5, <1>6, <1>7, <1>8, <1>9, CadaPaso

\* The instance of that generation is gone after the step.
Falta(w, g) == ~vm'[w].vivo \/ vm'[w].gen # g

\* An instance that is gone is gone for good.
LEMMA MurioQueda ==
    ASSUME Tipos, PedidosCoherentes, TareasFieles, InstanciasAssumption, [Next]_vars,
           NEW w \in Vmids, NEW g \in Nat, g <= vm[w].gen, Murio(w, g)
    PROVE  Falta(w, g)
<1>1. /\ vm[w].gen \in Nat /\ vm'[w].gen \in Nat /\ vm'[w].gen >= vm[w].gen
      /\ vm'[w].gen = vm[w].gen /\ vm'[w].vivo => vm[w].vivo
  BY Generaciones
<1>2. ~vm[w].vivo \/ vm[w].gen # g BY DEF Murio
<1> QED BY <1>1, <1>2 DEF Falta

\* Nobody acts on the future, and what a DELETE destroyed is gone.
LEMMA SinFuturoSeConserva ==
    ASSUME Tipos, PedidosCoherentes, TareasFieles, SinFuturo, InstanciasAssumption, [Next]_vars
    PROVE  SinFuturo'
<1>1. SUFFICES ASSUME NEW q \in Pedidos, ped'[q].op # "nada"
               PROVE  /\ ped'[q].gen <= vm'[ped'[q].v].gen
                      /\ ped'[q].op = "delete" /\ salida'[q] = "OK" => Falta(ped'[q].v, ped'[q].gen)
  BY DEF SinFuturo, Murio, Falta
<1>2. ped[q] \in Pedido /\ Coherente(q) /\ ped[q].gen \in Nat BY DEF Tipos, PedidosCoherentes, Pedido
<1>3. ASSUME ped'[q].op = ped[q].op, ped'[q].v = ped[q].v, ped'[q].gen = ped[q].gen
      PROVE  /\ ped'[q].gen <= vm'[ped'[q].v].gen
             /\ ped'[q].op = "delete" /\ salida'[q] = "OK" =>
                    (salida[q] = "OK" => Falta(ped'[q].v, ped'[q].gen))
  <2>1. ped[q].v \in Vmids BY <1>1, <1>2, <1>3 DEF Coherente
  <2>2. ped[q].gen <= vm[ped[q].v].gen
        /\ (ped[q].op = "delete" /\ salida[q] = "OK" => Murio(ped[q].v, ped[q].gen))
    BY <1>1, <1>3 DEF SinFuturo
  <2>3. /\ vm[ped[q].v].gen \in Nat /\ vm'[ped[q].v].gen \in Nat
        /\ vm'[ped[q].v].gen >= vm[ped[q].v].gen
    BY <2>1, Generaciones
  <2>4. ped[q].gen <= vm'[ped[q].v].gen BY <1>2, <2>2, <2>3
  <2>5. ped[q].op = "delete" /\ salida[q] = "OK" => Falta(ped[q].v, ped[q].gen)
    BY <1>2, <2>1, <2>2, MurioQueda
  <2> QED BY <1>3, <2>4, <2>5
<1>4. ASSUME NEW p \in Pedidos, NEW b, PasoPedido(p, b)
      PROVE  /\ ped'[q].gen <= vm'[ped'[q].v].gen
             /\ ped'[q].op = "delete" /\ salida'[q] = "OK" => Falta(ped'[q].v, ped'[q].gen)
  <2>1. salida' = salida /\ vm' = vm BY <1>4 DEF PasoPedido
  <2>2. CASE ped'[q].op = ped[q].op /\ ped'[q].v = ped[q].v /\ ped'[q].gen = ped[q].gen
    BY <1>3, <2>1, <2>2
  <2>3. CASE q = p /\ (Entra(q, b) \/ Crea(q, b))
    <3>1. ped'[q] = b BY <1>4, <2>3, LosDemas DEF PasoPedido
    <3>2. b.gen = 0 /\ b.v \in Vmids /\ ped[q].paso = "nuevo" BY <2>3 DEF Entra, Crea
    <3>3. salida[q] = "nada" BY <1>2, <3>2 DEF Coherente
    <3>4. vm[b.v].gen \in Nat BY <3>2 DEF Tipos, Ficha
    <3> QED BY <2>1, <3>1, <3>2, <3>3, <3>4
  <2>4. CASE q = p /\ ~(Entra(q, b) \/ Crea(q, b))
    <3>1. ped'[q] = b /\ Avanza(q, b) BY <1>4, <2>4, LosDemas DEF PasoPedido
    <3>2. ~Deja(q, b) BY <1>1, <3>1 DEF Deja
    <3>3. Mira(q, b) \/ Cumple(q, b) BY <2>4, <3>1, <3>2 DEF Avanza
    <3> QED BY <2>2, <3>1, <3>3 DEF Mira, Cumple
  <2>5. q # p => ped'[q] = ped[q] BY <1>4, LosDemas DEF PasoPedido
  <2> QED BY <2>2, <2>3, <2>4, <2>5
<1>5. ASSUME NEW p \in Pedidos, NEW b, NEW i, PasoOrden(p, b, i)
      PROVE  /\ ped'[q].gen <= vm'[ped'[q].v].gen
             /\ ped'[q].op = "delete" /\ salida'[q] = "OK" => Falta(ped'[q].v, ped'[q].gen)
  <2>1. salida' = salida BY <1>5 DEF PasoOrden
  <2>2. CASE q # p
    <3>1. ped'[q] = ped[q] BY <1>5, <2>2, LosDemas DEF PasoOrden
    <3> QED BY <1>3, <2>1, <3>1
  <2>3. CASE q = p
    <3>1. ped'[q] = b /\ Da(q, b) BY <1>5, <2>3, LosDemas DEF PasoOrden
    <3>2. salida[q] = "nada" BY <1>2, <3>1 DEF Coherente, Da
    <3>3. b.gen = vm'[b.v].gen /\ b.gen \in Nat BY <1>5, <3>1 DEF Da, PasoOrden, Sigue, Pedido
    <3> QED BY <2>1, <3>1, <3>2, <3>3
  <2> QED BY <2>2, <2>3
<1>6. ASSUME NEW o, PasoLlegada(o)
      PROVE  /\ ped'[q].gen <= vm'[ped'[q].v].gen
             /\ ped'[q].op = "delete" /\ salida'[q] = "OK" => Falta(ped'[q].v, ped'[q].gen)
  BY <1>3, <1>6, Sorprendidos DEF PasoLlegada
<1>7. ASSUME NEW v \in Vmids, NEW i, PasoFin(v, i)
      PROVE  /\ ped'[q].gen <= vm'[ped'[q].v].gen
             /\ ped'[q].op = "delete" /\ salida'[q] = "OK" => Falta(ped'[q].v, ped'[q].gen)
  <2>1. ped'[q].op = ped[q].op /\ ped'[q].v = ped[q].v /\ ped'[q].gen = ped[q].gen
    BY <1>7, Sorprendidos DEF PasoFin
  <2>2. CASE salida'[q] = salida[q] BY <1>3, <2>1, <2>2
  <2>3. CASE salida'[q] # salida[q]
    <3>1. tarea[v].de = q /\ tarea[v].de # Nadie BY <1>7, <2>3 DEF PasoFin, Tipos
    <3>2. TareaFiel(v) /\ tarea[v] # SinTarea BY <1>7 DEF TareasFieles, PasoFin, Acaba
    <3>3. ped[q].op = tarea[v].op /\ ped[q].v = v BY <3>1, <3>2 DEF TareaFiel
    <3>4. vm'[v] = i /\ (i.vivo <=> tarea[v].op # "delete") BY <1>7 DEF PasoFin, Acaba, Tipos
    <3>5. ped[q].op = "delete" => ~vm'[ped'[q].v].vivo BY <2>1, <3>3, <3>4
    <3> QED BY <1>3, <2>1, <3>5 DEF Falta
  <2> QED BY <2>2, <2>3
<1>8. ASSUME (\E p \in Pedidos : Cerrar(p) \/ Vencer(p)) \/ LeerCatalogo \/ EscribirPermisos
             \/ UNCHANGED vars
      PROVE  /\ ped'[q].gen <= vm'[ped'[q].v].gen
             /\ ped'[q].op = "delete" /\ salida'[q] = "OK" => Falta(ped'[q].v, ped'[q].gen)
  <2>1. UNCHANGED <<ped, salida>>
    BY <1>8 DEF Cerrar, Vencer, LeerCatalogo, EscribirPermisos, vars
  <2> QED BY <1>3, <2>1
<1>9. ASSUME NEW v \in Vmids, NEW i, PasoAjeno(v, i)
      PROVE  /\ ped'[q].gen <= vm'[ped'[q].v].gen
             /\ ped'[q].op = "delete" /\ salida'[q] = "OK" => Falta(ped'[q].v, ped'[q].gen)
  BY <1>3, <1>9, Sorprendidos DEF PasoAjeno
<1> QED BY <1>4, <1>5, <1>6, <1>7, <1>8, <1>9, CadaPaso

-----------------------------------------------------------------------------
(* The turn of an instance, and what was read of it *)

\* The turn is kept.
LEMMA TurnoSeConserva ==
    ASSUME Tipos, PedidosCoherentes, TareasFieles, TurnoUnico, InstanciasAssumption, [Next]_vars
    PROVE  TurnoUnico'
<1>1. SUFFICES ASSUME NEW p \in Pedidos, NEW q \in Pedidos, p # q,
                      Turna(p)', Turna(q)', ped'[p].v = ped'[q].v, Activo(p)'
               PROVE  ped'[q].paso \notin Activos /\ fila'[q] # "RUNNING"
  BY DEF TurnoUnico, Activo
<1>2. ASSUME \A r \in {p, q} : /\ ped'[r].op = ped[r].op /\ ped'[r].v = ped[r].v
                               /\ ped'[r].paso \in Activos => ped[r].paso \in Activos,
             fila'[q] = "RUNNING" => fila[q] = "RUNNING" \/ ped[q].paso \in Activos
      PROVE  ped'[q].paso \notin Activos /\ fila'[q] # "RUNNING"
  BY <1>1, <1>2 DEF TurnoUnico, Activo, Turna
<1>3. ASSUME NEW r \in Pedidos, NEW b, PasoPedido(r, b)
      PROVE  ped'[q].paso \notin Activos /\ fila'[q] # "RUNNING"
  <2>1. ped'[r] = b /\ Avanza(r, b) /\ \A x \in Pedidos \ {r} : ped'[x] = ped[x]
    BY <1>3, LosDemas DEF PasoPedido
  <2>2. \A x \in Pedidos : fila'[x] = "RUNNING" =>
            fila[x] = "RUNNING" \/ (x = r /\ ped[x].paso = "aceptado" /\ b.paso = "fin")
    BY <1>3 DEF PasoPedido, Tipos
  <2>3. CASE Entra(r, b)
    <3>1. \A x \in Pedidos : ped[x].v = b.v /\ ped[x].op # "create" => ped[x].paso \in {"nuevo", "fin"}
      BY <2>3 DEF Entra, Ocioso
    <3>2. \A x \in Pedidos : ped[x].v = b.v => fila[x] # "RUNNING"
      BY <2>3 DEF Entra, Ocioso, TieneTareaActiva
    <3>3. ped[r].paso = "nuevo" BY <2>3 DEF Entra
    <3>4. CASE r = p
      <4>1. ped'[q] = ped[q] /\ ped[q].v = b.v /\ ped[q].op # "create"
        BY <1>1, <2>1, <3>4 DEF Turna
      <4> QED BY <2>2, <3>1, <3>2, <3>3, <3>4, <4>1, <1>1 DEF Activos
    <3>5. CASE r = q
      <4>1. ped'[p] = ped[p] /\ ped[p].v = b.v /\ ped[p].op # "create"
        BY <1>1, <2>1, <3>5 DEF Turna
      <4> QED BY <1>1, <3>1, <4>1 DEF Activos, Activo
    <3>6. CASE r # p /\ r # q BY <1>2, <2>1, <2>2, <3>6
    <3> QED BY <3>4, <3>5, <3>6
  <2>4. CASE ~Entra(r, b)
    <3>1. r \in {p, q} => ~Crea(r, b) /\ ~Deja(r, b)
      BY <1>1, <2>1 DEF Crea, Deja, Turna
    <3>2. r \in {p, q} => b.op = ped[r].op /\ b.v = ped[r].v /\ ped[r].paso \in Activos
      BY <2>1, <2>4, <3>1 DEF Avanza, Mira, Cumple, Activos
    <3>3. ped[q].paso = "aceptado" => ped[q].paso \in Activos BY DEF Activos
    <3> QED BY <1>2, <2>1, <2>2, <3>2, <3>3
  <2> QED BY <2>3, <2>4
<1>4. ASSUME NEW r \in Pedidos, NEW b, NEW i, PasoOrden(r, b, i)
      PROVE  ped'[q].paso \notin Activos /\ fila'[q] # "RUNNING"
  <2>1. ped'[r] = b /\ Da(r, b) /\ fila' = fila /\ \A x \in Pedidos \ {r} : ped'[x] = ped[x]
    BY <1>4, LosDemas DEF PasoOrden
  <2>2. b.op = ped[r].op /\ b.v = ped[r].v /\ ped[r].paso \in Activos BY <2>1 DEF Da, Activos
  <2> QED BY <1>2, <2>1, <2>2
<1>5. ASSUME NEW o, PasoLlegada(o) PROVE ped'[q].paso \notin Activos /\ fila'[q] # "RUNNING"
  BY <1>2, <1>5, Sorprendidos DEF PasoLlegada
<1>6. ASSUME NEW v \in Vmids, NEW i, PasoFin(v, i) \/ PasoAjeno(v, i)
      PROVE  ped'[q].paso \notin Activos /\ fila'[q] # "RUNNING"
  BY <1>2, <1>6, Sorprendidos DEF PasoFin, PasoAjeno
<1>7. ASSUME (\E r \in Pedidos : Cerrar(r) \/ Vencer(r)) \/ LeerCatalogo \/ EscribirPermisos
             \/ UNCHANGED vars
      PROVE  ped'[q].paso \notin Activos /\ fila'[q] # "RUNNING"
  <2>1. ped' = ped BY <1>7 DEF Cerrar, Vencer, LeerCatalogo, EscribirPermisos, vars
  <2>2. fila'[q] = "RUNNING" => fila[q] = "RUNNING"
    BY <1>7 DEF Cerrar, Vencer, LeerCatalogo, EscribirPermisos, vars, Tipos
  <2> QED BY <1>2, <2>1, <2>2
<1> QED BY <1>3, <1>4, <1>5, <1>6, <1>7, CadaPaso

\* What a handler read stays so, unless it is surprised.
LEMMA LecturaSeConserva ==
    ASSUME Tipos, PedidosCoherentes, TareasFieles, TurnoUnico, LecturaFiel, InstanciasAssumption, [Next]_vars
    PROVE  LecturaFiel'
<1>1. SUFFICES ASSUME NEW q \in Pedidos, ped'[q].paso \in {"leido", "detalle"}, ped'[q].op # "create",
                      ~ped'[q].ajeno
               PROVE  LET i == vm'[ped'[q].v]
                      IN  i.vivo /\ [gen |-> i.gen, estado |-> i.estado] = ped'[q].leido
  BY DEF LecturaFiel
<1>2. ASSUME /\ ped'[q].paso = ped[q].paso /\ ped'[q].op = ped[q].op /\ ped'[q].v = ped[q].v
             /\ ped'[q].leido = ped[q].leido
             /\ ped[q].ajeno => ped'[q].ajeno,
             LET i == vm[ped[q].v]
                 j == vm'[ped[q].v]
             IN  i.vivo => j.vivo /\ j.gen = i.gen /\ j.estado = i.estado
      PROVE  LET i == vm'[ped'[q].v]
             IN  i.vivo /\ [gen |-> i.gen, estado |-> i.estado] = ped'[q].leido
  <2>1. /\ vm[ped[q].v].vivo
        /\ [gen |-> vm[ped[q].v].gen, estado |-> vm[ped[q].v].estado] = ped[q].leido
    <3>1. ped[q].paso \in {"leido", "detalle"} /\ ped[q].op # "create" /\ ~ped[q].ajeno BY <1>1, <1>2
    <3> QED BY <3>1 DEF LecturaFiel
  <2>2. /\ vm'[ped[q].v].vivo /\ vm'[ped[q].v].gen = vm[ped[q].v].gen
        /\ vm'[ped[q].v].estado = vm[ped[q].v].estado
    BY <1>2, <2>1
  <2> QED BY <1>2, <2>1, <2>2
<1>3. ped[q].op # "nada" => ped[q].v \in Vmids BY DEF PedidosCoherentes, Coherente
<1>4. ped[q].paso \in {"leido", "detalle"} => ped[q].v \in Vmids
  BY <1>3 DEF PedidosCoherentes, Coherente, Activo, Activos
<1>5. ASSUME NEW p \in Pedidos, NEW b, PasoPedido(p, b)
      PROVE  LET i == vm'[ped'[q].v]
             IN  i.vivo /\ [gen |-> i.gen, estado |-> i.estado] = ped'[q].leido
  <2>1. vm' = vm /\ ped'[p] = b /\ Avanza(p, b) /\ \A x \in Pedidos \ {p} : ped'[x] = ped[x]
    BY <1>5, LosDemas DEF PasoPedido
  <2>2. CASE q # p BY <1>2, <2>1, <2>2
  <2>3. CASE q = p
    <3>1. Mira(q, b) BY <1>1, <2>1, <2>3 DEF Avanza, Entra, Crea, Deja, Cumple
    <3>2. CASE ped[q].paso = "dentro" BY <2>1, <2>3, <3>1, <3>2 DEF Mira
    <3>3. CASE ped[q].paso = "leido"
      <4>1. b.op = ped[q].op /\ b.v = ped[q].v /\ b.leido = ped[q].leido /\ (b.ajeno <=> ped[q].ajeno)
        BY <3>1, <3>3 DEF Mira
      <4> QED BY <1>1, <2>1, <2>3, <3>3, <4>1 DEF LecturaFiel
    <3> QED BY <3>1, <3>2, <3>3 DEF Mira
  <2> QED BY <2>2, <2>3
<1>6. ASSUME NEW p \in Pedidos, NEW b, NEW i, PasoOrden(p, b, i)
      PROVE  LET j == vm'[ped'[q].v]
             IN  j.vivo /\ [gen |-> j.gen, estado |-> j.estado] = ped'[q].leido
  <2>1. ped'[p] = b /\ Da(p, b) /\ \A x \in Pedidos \ {p} : ped'[x] = ped[x]
    BY <1>6, LosDemas DEF PasoOrden
  <2>2. q # p BY <1>1, <2>1 DEF Da
  <2>3. Recibe(Orden(p), p, i) BY <1>6 DEF PasoOrden
  <2>4. vm[ped[q].v].vivo =>
            /\ vm'[ped[q].v].vivo /\ vm'[ped[q].v].gen = vm[ped[q].v].gen
            /\ vm'[ped[q].v].estado = vm[ped[q].v].estado
    BY <1>1, <1>4, <2>1, <2>2, <2>3 DEF Recibe, Tipos
  <2> QED BY <1>2, <2>1, <2>2, <2>4
<1>7. ASSUME NEW v \in Vmids, NEW i, vm' = [vm EXCEPT ![v] = i], ped' = Sorprende(v, ped)
      PROVE  LET j == vm'[ped'[q].v]
             IN  j.vivo /\ [gen |-> j.gen, estado |-> j.estado] = ped'[q].leido
  <2>1. /\ ped'[q].paso = ped[q].paso /\ ped'[q].op = ped[q].op /\ ped'[q].v = ped[q].v
        /\ ped'[q].leido = ped[q].leido
        /\ ped'[q].ajeno <=> (ped[q].ajeno \/ Usando(q, v))
    BY <1>7, Sorprendidos
  <2>2. ped[q].v # v BY <1>1, <2>1 DEF Usando
  <2>3. vm'[ped[q].v] = vm[ped[q].v] BY <1>1, <1>4, <1>7, <2>1, <2>2 DEF Tipos
  <2> QED BY <1>2, <2>1, <2>3
<1>8. ASSUME NEW o, PasoLlegada(o)
      PROVE  LET j == vm'[ped'[q].v]
             IN  j.vivo /\ [gen |-> j.gen, estado |-> j.estado] = ped'[q].leido
  <2>1. o.vmid \in Vmids BY <1>8 DEF PasoLlegada, Tipos, Ordenes
  <2>2. UNCHANGED <<vm, ped>> \/ (ped' = Sorprende(o.vmid, ped) /\ \E i : vm' = [vm EXCEPT ![o.vmid] = i])
    BY <1>8 DEF PasoLlegada, Recibe
  <2> QED BY <1>2, <1>7, <2>1, <2>2
<1>9. ASSUME NEW v \in Vmids, NEW i, PasoFin(v, i)
      PROVE  LET j == vm'[ped'[q].v]
             IN  j.vivo /\ [gen |-> j.gen, estado |-> j.estado] = ped'[q].leido
  <2> DEFINE p == tarea[v].de
  <2>1. vm' = [vm EXCEPT ![v] = i] /\ tarea[v] # SinTarea /\ TareaFiel(v) /\ tarea[v] \in Tareas
    BY <1>9 DEF PasoFin, Acaba, TareasFieles, Tipos
  <2>2. CASE ped' = Sorprende(v, ped) BY <1>7, <2>1, <2>2
  <2>3. CASE p # Nadie /\ (fila[p] = "RUNNING" \/ En(p, "aceptado")) /\ ped' = ped
    <3>1. p \in Pedidos /\ ped[p].op = tarea[v].op /\ ped[p].v = v /\ tarea[v].op \in OpsTarea
          /\ ped[p].paso \in {"aceptado", "fin"}
      BY <2>1, <2>3 DEF TareaFiel, Tareas
    <3>2. CASE ped[q].v # v
      <4>1. vm'[ped[q].v] = vm[ped[q].v] BY <1>1, <1>4, <2>1, <2>3, <3>2 DEF Tipos
      <4> QED BY <1>2, <2>3, <4>1
    <3>3. CASE ped[q].v = v
      <4>1. Turna(q) /\ Activo(q) /\ q # p
        BY <1>1, <2>3, <3>1 DEF Turna, Activo, Activos, PedidosCoherentes, Coherente
      <4>2. ~Turna(p)
        <5>1. En(p, "aceptado") => Activo(p) BY DEF En, Activo, Activos
        <5> QED BY <2>3, <3>1, <3>3, <4>1, <5>1 DEF TurnoUnico
      <4>3. tarea[v].op = "create" BY <3>1, <4>2, Operaciones DEF Turna
      <4>4. vm'[v] = i /\ i.gen = vm[v].gen /\ i.estado = vm[v].estado /\ i.vivo
        BY <1>9, <2>1, <4>3 DEF PasoFin, Acaba, Tipos
      <4> QED BY <1>2, <2>3, <3>3, <4>4
    <3> QED BY <3>2, <3>3
  <2> QED BY <1>9, <2>2, <2>3 DEF PasoFin
<1>10. ASSUME (\E p \in Pedidos : Cerrar(p) \/ Vencer(p)) \/ LeerCatalogo \/ EscribirPermisos
             \/ UNCHANGED vars
      PROVE  LET j == vm'[ped'[q].v]
             IN  j.vivo /\ [gen |-> j.gen, estado |-> j.estado] = ped'[q].leido
  <2>1. UNCHANGED <<vm, ped>>
    BY <1>10 DEF Cerrar, Vencer, LeerCatalogo, EscribirPermisos, vars, proxmox
  <2> QED BY <1>2, <2>1
<1>11. ASSUME NEW v \in Vmids, NEW i, PasoAjeno(v, i)
      PROVE  LET j == vm'[ped'[q].v]
             IN  j.vivo /\ [gen |-> j.gen, estado |-> j.estado] = ped'[q].leido
  BY <1>7, <1>11 DEF PasoAjeno, Ajeno
<1> QED BY <1>5, <1>6, <1>8, <1>9, <1>10, <1>11, CadaPaso

-----------------------------------------------------------------------------
(* Protected instances *)

\* Nothing but snapshots is asked of them.
LEMMA ProteccionSeConserva ==
    ASSUME Tipos, PedidosCoherentes, TareasFieles, SoloSnapshots, InstanciasAssumption, [Next]_vars
    PROVE  SoloSnapshots'
<1> DEFINE Pedida == \A p \in Pedidos : ped[p].v \in Protegidos => ped[p].op \in OpsSnapshot
           Encargada == \A v \in Protegidos : tarea[v] = SinTarea \/ tarea[v].op \in OpsSnapshot
           Enviada == \A o \in vuelo : o.vmid \in Protegidos => o.op \in OpsSnapshot
<1>1. Pedida /\ Encargada /\ Enviada BY DEF SoloSnapshots
<1>2. SUFFICES Pedida' /\ Encargada' /\ Enviada' BY Zenon DEF SoloSnapshots
<1>3. 0 \notin Protegidos /\ Protegidos \subseteq Vmids BY DEF InstanciasAssumption
<1>4. ASSUME NEW o, NEW de, NEW i, Recibe(o, de, i), o \in Ordenes,
             o.vmid \in Protegidos => o.op \in OpsSnapshot
      PROVE  Encargada'
  <2>1. \A v \in Vmids : \/ tarea'[v] = tarea[v]
                         \/ v = o.vmid /\ tarea'[v] = [op |-> o.op, nombre |-> o.nombre, de |-> de]
    BY <1>4 DEF Recibe, Tipos
  <2> QED BY <1>1, <1>3, <1>4, <2>1
<1>5. ASSUME NEW p \in Pedidos, En(p, "detalle")
      PROVE  Orden(p) \in Ordenes /\ (Orden(p).vmid \in Protegidos => Orden(p).op \in OpsSnapshot)
  BY <1>1, <1>5, OrdenBienDada
<1>6. ASSUME \A p \in Pedidos : ped'[p].v = ped[p].v /\ ped'[p].op = ped[p].op PROVE Pedida'
  BY <1>1, <1>6
<1>7. ASSUME NEW p \in Pedidos, NEW b, PasoPedido(p, b) PROVE Pedida' /\ Encargada' /\ Enviada'
  <2>1. tarea' = tarea /\ ped'[p] = b /\ Avanza(p, b) /\ \A x \in Pedidos \ {p} : ped'[x] = ped[x]
    BY <1>7, LosDemas DEF PasoPedido
  <2>2. b.v \in Protegidos => b.op \in OpsSnapshot
    BY <1>1, <1>3, <2>1 DEF Avanza, Entra, Crea, Mira, Deja, Cumple, NoProtegida
  <2>3. Pedida' BY <1>1, <2>1, <2>2
  <2>4. Enviada' BY <1>1, <1>5, <1>7 DEF PasoPedido, En
  <2> QED BY <1>1, <2>1, <2>3, <2>4
<1>8. ASSUME NEW p \in Pedidos, NEW b, NEW i, PasoOrden(p, b, i) PROVE Pedida' /\ Encargada' /\ Enviada'
  <2>1. vuelo' = vuelo /\ ped'[p] = b /\ Da(p, b) /\ \A x \in Pedidos \ {p} : ped'[x] = ped[x]
    BY <1>8, LosDemas DEF PasoOrden
  <2>2. Recibe(Orden(p), p, i) /\ En(p, "detalle") BY <1>8, <2>1 DEF PasoOrden, Da, En
  <2>3. Encargada' BY <1>4, <1>5, <2>2
  <2>4. \A x \in Pedidos : ped'[x].v = ped[x].v /\ ped'[x].op = ped[x].op BY <2>1 DEF Da
  <2> QED BY <1>1, <1>6, <2>1, <2>3, <2>4
<1>9. ASSUME NEW o, PasoLlegada(o) PROVE Pedida' /\ Encargada' /\ Enviada'
  <2>1. o \in vuelo /\ o \in Ordenes /\ vuelo' \subseteq vuelo BY <1>9 DEF PasoLlegada, Tipos
  <2>2. (\E i : Recibe(o, Nadie, i)) => Encargada' BY <1>1, <1>4, <2>1
  <2>3. \A p \in Pedidos : ped'[p].v = ped[p].v /\ ped'[p].op = ped[p].op
    BY <1>9, Sorprendidos DEF PasoLlegada
  <2> QED BY <1>1, <1>6, <1>9, <2>1, <2>2, <2>3 DEF PasoLlegada
<1>10. ASSUME NEW v \in Vmids, NEW i, PasoFin(v, i) PROVE Pedida' /\ Encargada' /\ Enviada'
  <2>1. \A w \in Vmids : tarea'[w] = tarea[w] \/ tarea'[w] = SinTarea
    BY <1>10 DEF PasoFin, Acaba, Tipos
  <2>2. vuelo' = vuelo BY <1>10 DEF PasoFin
  <2>3. \A p \in Pedidos : ped'[p].v = ped[p].v /\ ped'[p].op = ped[p].op
    BY <1>10, Sorprendidos DEF PasoFin
  <2> QED BY <1>1, <1>3, <1>6, <2>1, <2>2, <2>3
<1>11. ASSUME (\E p \in Pedidos : Cerrar(p) \/ Vencer(p)) \/ LeerCatalogo \/ EscribirPermisos
             \/ UNCHANGED vars
       PROVE  Pedida' /\ Encargada' /\ Enviada'
  <2>1. UNCHANGED <<tarea, ped, vuelo>>
    BY <1>11 DEF Cerrar, Vencer, LeerCatalogo, EscribirPermisos, vars, proxmox
  <2> QED BY <1>1, <2>1
<1>12. ASSUME NEW v \in Vmids, NEW i, PasoAjeno(v, i) PROVE Pedida' /\ Encargada' /\ Enviada'
  <2>1. tarea' = tarea /\ vuelo' = vuelo BY <1>12 DEF PasoAjeno, Ajeno
  <2>2. \A p \in Pedidos : ped'[p].v = ped[p].v /\ ped'[p].op = ped[p].op
    BY <1>12, Sorprendidos DEF PasoAjeno
  <2> QED BY <1>1, <1>6, <2>1, <2>2
<1> QED BY <1>7, <1>8, <1>9, <1>10, <1>11, <1>12, CadaPaso

-----------------------------------------------------------------------------
(* Permissions *)

\* A row that is closed as done stays so, with what was asked and its end; a
\* new one was closed in this step.
LEMMA Completadas ==
    ASSUME Tipos, PedidosCoherentes, TareasFieles, InstanciasAssumption, [Next]_vars, NEW p \in Pedidos
    PROVE  /\ fila'[p] = "COMPLETED" => fila[p] = "COMPLETED" \/ Cerrar(p)
           /\ fila[p] = "COMPLETED" => fila'[p] = "COMPLETED"
           /\ fila[p] = "COMPLETED" \/ Cerrar(p) =>
                  /\ ped'[p].op = ped[p].op /\ ped'[p].v = ped[p].v /\ ped'[p].gen = ped[p].gen
                  /\ salida'[p] = salida[p] /\ salida[p] # "nada"
<1>1. /\ fila[p] = "COMPLETED" => ped[p].paso = "fin" /\ salida[p] # "nada"
      /\ fila[p] # "ausente" => ped[p].paso = "fin"
  BY DEF PedidosCoherentes, Coherente
<1>2. Cerrar(p) =>
          /\ ped'[p].op = ped[p].op /\ ped'[p].v = ped[p].v /\ ped'[p].gen = ped[p].gen
          /\ salida'[p] = salida[p] /\ salida[p] # "nada"
  BY DEF Cerrar
<1>3. ASSUME fila'[p] = fila[p],
             fila[p] = "COMPLETED" =>
                  /\ ped'[p].op = ped[p].op /\ ped'[p].v = ped[p].v /\ ped'[p].gen = ped[p].gen
                  /\ salida'[p] = salida[p]
      PROVE  /\ fila'[p] = "COMPLETED" => fila[p] = "COMPLETED" \/ Cerrar(p)
             /\ fila[p] = "COMPLETED" => fila'[p] = "COMPLETED"
             /\ fila[p] = "COMPLETED" \/ Cerrar(p) =>
                    /\ ped'[p].op = ped[p].op /\ ped'[p].v = ped[p].v /\ ped'[p].gen = ped[p].gen
                    /\ salida'[p] = salida[p] /\ salida[p] # "nada"
  BY <1>1, <1>2, <1>3
<1>4. ASSUME NEW q \in Pedidos, NEW b, PasoPedido(q, b)
      PROVE  /\ fila'[p] = "COMPLETED" => fila[p] = "COMPLETED" \/ Cerrar(p)
             /\ fila[p] = "COMPLETED" => fila'[p] = "COMPLETED"
             /\ fila[p] = "COMPLETED" \/ Cerrar(p) =>
                    /\ ped'[p].op = ped[p].op /\ ped'[p].v = ped[p].v /\ ped'[p].gen = ped[p].gen
                    /\ salida'[p] = salida[p] /\ salida[p] # "nada"
  <2>1. Avanza(q, b) /\ salida' = salida /\ \A x \in Pedidos \ {q} : ped'[x] = ped[x]
    BY <1>4, LosDemas DEF PasoPedido
  <2>2. CASE p # q
    <3>1. fila'[p] = fila[p] BY <1>4, <2>2 DEF PasoPedido, Tipos
    <3> QED BY <1>3, <2>1, <2>2, <3>1
  <2>3. CASE p = q
    <3>1. fila[p] = "ausente"
      BY <1>1, <2>1, <2>3 DEF Avanza, Entra, Crea, Mira, Deja, Cumple
    <3>2. fila'[p] \in {"ausente", "RUNNING"} BY <1>4, <2>3, <3>1 DEF PasoPedido, Tipos
    <3> QED BY <1>2, <3>1, <3>2
  <2> QED BY <2>2, <2>3
<1>5. ASSUME NEW q \in Pedidos, NEW b, NEW i, PasoOrden(q, b, i)
      PROVE  /\ fila'[p] = fila[p]
             /\ fila[p] = "COMPLETED" =>
                  /\ ped'[p].op = ped[p].op /\ ped'[p].v = ped[p].v /\ ped'[p].gen = ped[p].gen
                  /\ salida'[p] = salida[p]
  <2>1. Da(q, b) /\ fila' = fila /\ salida' = salida /\ \A x \in Pedidos \ {q} : ped'[x] = ped[x]
    BY <1>5, LosDemas DEF PasoOrden
  <2>2. p = q => fila[p] = "ausente" BY <1>1, <2>1 DEF Da
  <2> QED BY <2>1, <2>2
<1>6. ASSUME NEW o, PasoLlegada(o)
      PROVE  /\ fila'[p] = fila[p]
             /\ fila[p] = "COMPLETED" =>
                  /\ ped'[p].op = ped[p].op /\ ped'[p].v = ped[p].v /\ ped'[p].gen = ped[p].gen
                  /\ salida'[p] = salida[p]
  BY <1>6, Sorprendidos DEF PasoLlegada
<1>7. ASSUME NEW v \in Vmids, NEW i, PasoFin(v, i)
      PROVE  /\ fila'[p] = fila[p]
             /\ fila[p] = "COMPLETED" =>
                  /\ ped'[p].op = ped[p].op /\ ped'[p].v = ped[p].v /\ ped'[p].gen = ped[p].gen
                  /\ salida'[p] = salida[p]
  <2>1. ped'[p].op = ped[p].op /\ ped'[p].v = ped[p].v /\ ped'[p].gen = ped[p].gen /\ fila' = fila
    BY <1>7, Sorprendidos DEF PasoFin
  <2>2. TareaFiel(v) /\ tarea[v] # SinTarea BY <1>7 DEF TareasFieles, PasoFin, Acaba
  <2>3. tarea[v].de = p /\ tarea[v].de # Nadie => salida[p] = "nada" BY <2>2 DEF TareaFiel
  <2>4. salida'[p] # salida[p] => tarea[v].de = p /\ tarea[v].de # Nadie BY <1>7 DEF PasoFin, Tipos
  <2> QED BY <1>1, <2>1, <2>3, <2>4
<1>8. ASSUME NEW q \in Pedidos, Cerrar(q) \/ Vencer(q)
      PROVE  /\ fila'[p] = "COMPLETED" => fila[p] = "COMPLETED" \/ Cerrar(p)
             /\ fila[p] = "COMPLETED" => fila'[p] = "COMPLETED"
             /\ fila[p] = "COMPLETED" \/ Cerrar(p) =>
                    /\ ped'[p].op = ped[p].op /\ ped'[p].v = ped[p].v /\ ped'[p].gen = ped[p].gen
                    /\ salida'[p] = salida[p] /\ salida[p] # "nada"
  <2>1. ped' = ped /\ salida' = salida /\ fila[q] = "RUNNING" BY <1>8 DEF Cerrar, Vencer
  <2>2. p # q => fila'[p] = fila[p] BY <1>8 DEF Cerrar, Vencer, Tipos
  <2>3. Vencer(q) => fila'[q] = "FAILED" BY DEF Vencer, Tipos
  <2> QED BY <1>2, <1>3, <1>8, <2>1, <2>2, <2>3
<1>9. ASSUME LeerCatalogo \/ EscribirPermisos \/ UNCHANGED vars
      PROVE  fila' = fila /\ ped' = ped /\ salida' = salida
  BY <1>9 DEF LeerCatalogo, EscribirPermisos, vars
<1>10. ASSUME NEW v \in Vmids, NEW i, PasoAjeno(v, i)
       PROVE  /\ fila'[p] = fila[p]
              /\ fila[p] = "COMPLETED" =>
                   /\ ped'[p].op = ped[p].op /\ ped'[p].v = ped[p].v /\ ped'[p].gen = ped[p].gen
                   /\ salida'[p] = salida[p]
  BY <1>10, Sorprendidos DEF PasoAjeno
<1> QED BY <1>3, <1>4, <1>5, <1>6, <1>7, <1>8, <1>9, <1>10, CadaPaso

\* Only the closure of a row and an assignment write permissions.
LEMMA QuienEscribe ==
    ASSUME Tipos, PedidosCoherentes, TareasFieles, InstanciasAssumption, [Next]_vars
    PROVE  \/ permisos' = permisos /\ quitados' = quitados
           \/ \E q \in Pedidos : /\ Cerrar(q) /\ UNCHANGED <<vm, ped>> /\ fila[q] = "RUNNING"
                                 /\ permisos' = (permisos \ Purgados(q)) \cup Otorgados(q)
                                 /\ quitados' = quitados \ {<<r.u, r.v>> : r \in Otorgados(q)}
           \/ /\ EscribirPermisos /\ UNCHANGED <<vm, ped>> /\ asig # SinAsignacion
              /\ permisos' = (permisos \ Anteriores) \cup Nuevos
              /\ quitados' = (quitados \cup {<<r.u, r.v>> : r \in Anteriores})
                                \ {<<r.u, r.v>> : r \in Nuevos}
<1> DEFINE Igual == permisos' = permisos /\ quitados' = quitados
<1>1. \A p \in Pedidos : \A b : PasoPedido(p, b) => Igual BY DEF PasoPedido
<1>2. \A p \in Pedidos : \A b, i : PasoOrden(p, b, i) => Igual BY DEF PasoOrden
<1>3. \A o : PasoLlegada(o) => Igual BY DEF PasoLlegada
<1>4. \A v \in Vmids : \A i : PasoFin(v, i) \/ PasoAjeno(v, i) => Igual
  BY DEF PasoFin, PasoAjeno
<1>5. \A q \in Pedidos : Vencer(q) => Igual BY DEF Vencer
<1>6. \A q \in Pedidos : Cerrar(q) => /\ UNCHANGED <<vm, ped>> /\ fila[q] = "RUNNING"
                                      /\ permisos' = (permisos \ Purgados(q)) \cup Otorgados(q)
                                      /\ quitados' = quitados \ {<<r.u, r.v>> : r \in Otorgados(q)}
  BY DEF Cerrar, proxmox
<1>7. EscribirPermisos =>
          /\ UNCHANGED <<vm, ped>> /\ asig # SinAsignacion
          /\ permisos' = (permisos \ Anteriores) \cup Nuevos
          /\ quitados' = (quitados \cup {<<r.u, r.v>> : r \in Anteriores})
                            \ {<<r.u, r.v>> : r \in Nuevos}
  BY DEF EscribirPermisos, proxmox
<1>8. LeerCatalogo \/ UNCHANGED vars => Igual BY DEF LeerCatalogo, vars
<1> QED BY <1>1, <1>2, <1>3, <1>4, <1>5, <1>6, <1>7, <1>8, CadaPaso

\* A row written for an instance that is gone says so.
LEMMA FilasTardias ==
    ASSUME Tipos, PedidosCoherentes, TareasFieles, InstanciasAssumption, [Next]_vars,
           NEW r \in permisos', r \notin permisos, Murio(r.v, r.gen)
    PROVE  r.tarde
<1>1. CASE \E q \in Pedidos : permisos' = (permisos \ Purgados(q)) \cup Otorgados(q)
  <2>1. PICK q \in Pedidos : permisos' = (permisos \ Purgados(q)) \cup Otorgados(q) BY <1>1
  <2> DEFINE m == Murio(ped[q].v, ped[q].gen)
  <2>2. r \in Otorgados(q) BY <2>1
  <2>3. r = [u |-> Quien[q], v |-> ped[q].v, gen |-> ped[q].gen, tarde |-> m]
    BY <2>2, Zenon DEF Otorgados
  <2>4. m \in BOOLEAN BY DEF Murio
  <2> HIDE DEF m
  <2>5. r.v = ped[q].v /\ r.gen = ped[q].gen /\ r.tarde = m BY <2>3
  <2> QED BY <2>4, <2>5 DEF m
<1>2. CASE asig # SinAsignacion /\ permisos' = (permisos \ Anteriores) \cup Nuevos
  <2>1. r \in Nuevos BY <1>2
  <2> QED BY <1>2, <2>1, FilasNuevas
<1> QED BY <1>1, <1>2, QuienEscribe

\* What a destruction purged stays purged.
LEMMA PurgaSeConserva ==
    ASSUME Tipos, PedidosCoherentes, TareasFieles, SinFuturo, BorradoPurga, InstanciasAssumption,
           [Next]_vars
    PROVE  BorradoPurga'
<1>1. SUFFICES ASSUME NEW p \in Pedidos, ped'[p].op = "delete", fila'[p] = "COMPLETED", salida'[p] = "OK",
                      NEW r \in permisos', r.v = ped'[p].v, r.gen = ped'[p].gen
               PROVE  r.tarde
  BY DEF BorradoPurga
<1>2. /\ ped[p].op = "delete" /\ ped'[p].v = ped[p].v /\ ped'[p].gen = ped[p].gen /\ salida[p] = "OK"
      /\ fila[p] = "COMPLETED" \/ Cerrar(p)
  BY <1>1, Completadas
<1>3. Murio(ped[p].v, ped[p].gen) BY <1>2 DEF SinFuturo
<1>4. CASE r \notin permisos
  <2>1. Murio(r.v, r.gen) BY <1>1, <1>2, <1>3
  <2> QED BY <1>4, <2>1, FilasTardias
<1>5. CASE r \in permisos
  <2>1. CASE fila[p] = "COMPLETED" BY <1>1, <1>2, <1>5, <2>1 DEF BorradoPurga
  <2>2. CASE Cerrar(p)
    <3>1. r \in Purgados(p) BY <1>1, <1>2, <1>5 DEF Purgados
    <3>2. Otorgados(p) = {} BY <1>2 DEF Otorgados
    <3>3. permisos' = (permisos \ Purgados(p)) \cup Otorgados(p) BY <2>2 DEF Cerrar
    <3> QED BY <1>1, <3>1, <3>2, <3>3
  <2> QED BY <1>2, <2>1, <2>2
<1> QED BY <1>4, <1>5

\* The author of an instance has a row on its VMID, or lost it to an assignment.
Consta(p) ==
    \/ \E r \in permisos : r.u = Quien[p] /\ r.v = ped[p].v
    \/ <<Quien[p], ped[p].v>> \in quitados
\* The closure of the DELETE of q, of an earlier instance of the VMID of p, took it.
Desplazada(p, q) ==
    /\ ped[q].op = "delete" /\ fila[q] = "COMPLETED"
    /\ ped[q].v = ped[p].v /\ ped[q].gen < ped[p].gen

\* A row is lost to an assignment or to the purge of its VMID.
LEMMA FilaSeConserva ==
    ASSUME Tipos, PedidosCoherentes, TareasFieles, InstanciasAssumption, [Next]_vars,
           NEW p \in Pedidos, ped'[p].v = ped[p].v, Consta(p)
    PROVE  \/ Consta(p)'
           \/ \E q \in Pedidos : Cerrar(q) /\ ped[q].v = ped[p].v /\ ped[q].op = "delete" /\ salida[q] = "OK"
<1> DEFINE u == Quien[p]
           v == ped[p].v
<1>1. Consta(p)' <=> (\E r \in permisos' : r.u = u /\ r.v = v) \/ <<u, v>> \in quitados'
  BY DEF Consta
<1>2. (\E r \in permisos : r.u = u /\ r.v = v) \/ <<u, v>> \in quitados BY DEF Consta
<1> HIDE DEF u, v
<1>3. CASE permisos' = permisos /\ quitados' = quitados BY <1>1, <1>2, <1>3
<1>4. ASSUME NEW q \in Pedidos, Cerrar(q), permisos' = (permisos \ Purgados(q)) \cup Otorgados(q),
             quitados' = quitados \ {<<r.u, r.v>> : r \in Otorgados(q)}
      PROVE  Consta(p)' \/ (ped[q].v = v /\ ped[q].op = "delete" /\ salida[q] = "OK")
  <2>1. CASE <<u, v>> \in quitados
    <3>1. CASE <<u, v>> \in quitados' BY <1>1, <3>1
    <3>2. CASE <<u, v>> \notin quitados'
      <4>1. PICK r \in Otorgados(q) : <<u, v>> = <<r.u, r.v>> BY <1>4, <2>1, <3>2
      <4> QED BY <1>1, <1>4, <4>1
    <3> QED BY <3>1, <3>2
  <2>2. ASSUME NEW r \in permisos, r.u = u, r.v = v
        PROVE  Consta(p)' \/ (ped[q].v = v /\ ped[q].op = "delete" /\ salida[q] = "OK")
    <3>1. CASE r \in Purgados(q) BY <2>2, <3>1 DEF Purgados
    <3>2. CASE r \notin Purgados(q) BY <1>1, <1>4, <2>2, <3>2
    <3> QED BY <3>1, <3>2
  <2> QED BY <1>2, <2>1, <2>2
<1>5. CASE /\ permisos' = (permisos \ Anteriores) \cup Nuevos
           /\ quitados' = (quitados \cup {<<r.u, r.v>> : r \in Anteriores}) \ {<<r.u, r.v>> : r \in Nuevos}
  <2>1. CASE \E r \in Nuevos : r.u = u /\ r.v = v BY <1>1, <1>5, <2>1
  <2>2. CASE ~\E r \in Nuevos : r.u = u /\ r.v = v
    <3>1. <<u, v>> \notin {<<r.u, r.v>> : r \in Nuevos} BY <2>2
    <3>2. CASE <<u, v>> \in quitados BY <1>1, <1>5, <3>1, <3>2
    <3>3. ASSUME NEW r \in permisos, r.u = u, r.v = v PROVE Consta(p)'
      <4>1. CASE r \in Anteriores
        <5>1. <<u, v>> \in {<<x.u, x.v>> : x \in Anteriores} BY <3>3, <4>1
        <5> QED BY <1>1, <1>5, <3>1, <5>1
      <4>2. CASE r \notin Anteriores BY <1>1, <1>5, <3>3, <4>2
      <4> QED BY <4>1, <4>2
    <3> QED BY <1>2, <3>2, <3>3
  <2> QED BY <2>1, <2>2
<1> QED BY <1>3, <1>4, <1>5, QuienEscribe DEF v

\* The author keeps its row.
LEMMA CreadorSeConserva ==
    ASSUME Tipos, PedidosCoherentes, TareasFieles, SinFuturo, CreadorConserva, InstanciasAssumption,
           [Next]_vars
    PROVE  CreadorConserva'
<1>1. SUFFICES ASSUME NEW p \in Pedidos, ped'[p].op = "create", fila'[p] = "COMPLETED",
                      vm'[ped'[p].v].vivo, vm'[ped'[p].v].gen = ped'[p].gen
               PROVE  Consta(p)' \/ \E q \in Pedidos : Desplazada(p, q)'
  BY DEF CreadorConserva, Consta, Desplazada
<1>2. /\ ped[p].op = "create" /\ ped'[p].v = ped[p].v /\ ped'[p].gen = ped[p].gen
      /\ fila[p] = "COMPLETED" \/ Cerrar(p)
  BY <1>1, Completadas
<1>3. ped[p].v \in Vmids /\ ped[p].gen \in Nat /\ ped[p].gen <= vm[ped[p].v].gen
  BY <1>2 DEF PedidosCoherentes, Coherente, Tipos, Pedido, SinFuturo
<1>4. vm[ped[p].v].vivo /\ vm[ped[p].v].gen = ped[p].gen
  <2>1. /\ vm[ped[p].v].gen \in Nat /\ vm'[ped[p].v].gen >= vm[ped[p].v].gen
        /\ vm'[ped[p].v].gen = vm[ped[p].v].gen /\ vm'[ped[p].v].vivo => vm[ped[p].v].vivo
    BY <1>3, Generaciones
  <2> QED BY <1>1, <1>2, <1>3, <2>1
<1>5. ASSUME NEW q \in Pedidos, Desplazada(p, q)
      PROVE  Desplazada(p, q)'
  <2>1. /\ fila'[q] = "COMPLETED" /\ ped'[q].op = ped[q].op /\ ped'[q].v = ped[q].v
        /\ ped'[q].gen = ped[q].gen
    BY <1>5, Completadas DEF Desplazada
  <2> QED BY <1>2, <1>5, <2>1 DEF Desplazada
<1>6. ASSUME NEW q \in Pedidos, Cerrar(q), ped[q].v = ped[p].v, ped[q].op = "delete", salida[q] = "OK"
      PROVE  Desplazada(p, q)'
  <2>1. ped' = ped BY <1>6 DEF Cerrar
  <2>2. fila'[q] = "COMPLETED" BY <1>6 DEF Cerrar, Exitosa, Tipos
  <2>3. Murio(ped[p].v, ped[q].gen) /\ ped[q].gen <= vm[ped[p].v].gen
    BY <1>6 DEF SinFuturo
  <2>4. ped[q].gen # ped[p].gen /\ ped[q].gen \in Nat
    BY <1>4, <2>3 DEF Murio, Tipos, Pedido
  <2> QED BY <1>3, <1>4, <1>6, <2>1, <2>2, <2>3, <2>4 DEF Desplazada
<1>7. CASE fila[p] = "COMPLETED"
  <2>1. Consta(p) \/ (\E q \in Pedidos : Desplazada(p, q))
    BY <1>2, <1>4, <1>7 DEF CreadorConserva, Consta, Desplazada
  <2>2. CASE \E q \in Pedidos : Desplazada(p, q) BY <1>5, <2>2
  <2>3. CASE Consta(p) BY <1>2, <1>6, <2>3, FilaSeConserva
  <2> QED BY <2>1, <2>2, <2>3
<1>8. CASE Cerrar(p)
  <2>1. /\ permisos' = (permisos \ Purgados(p)) \cup Otorgados(p)
        /\ fila'[p] = IF Exitosa(p) THEN "COMPLETED" ELSE "FAILED"
    BY <1>8 DEF Cerrar, Tipos
  <2>2. Purgados(p) = {} BY <1>2 DEF Purgados
  <2>3. salida[p] = "OK" BY <1>1, <1>2, <2>1 DEF Exitosa
  <2>4. CASE \E r \in permisos : r.u = Quien[p] /\ r.v = ped[p].v
    BY <1>2, <2>1, <2>2, <2>4 DEF Consta
  <2>5. CASE ~\E r \in permisos : r.u = Quien[p] /\ r.v = ped[p].v
    <3> DEFINE n == [u |-> Quien[p], v |-> ped[p].v, gen |-> ped[p].gen,
                     tarde |-> Murio(ped[p].v, ped[p].gen)]
    <3>1. Otorgados(p) = {n} BY <1>2, <2>3, <2>5 DEF Otorgados
    <3>2. n.u = Quien[p] /\ n.v = ped[p].v OBVIOUS
    <3> HIDE DEF n
    <3> QED BY <1>2, <2>1, <3>1, <3>2 DEF Consta
  <2> QED BY <2>4, <2>5
<1> QED BY <1>2, <1>7, <1>8

-----------------------------------------------------------------------------
(* The invariant and what follows from it *)

\* The instances there may be at the start.
LEMMA ExistentesBien ==
    \A i \in Existentes : i \in Ficha /\ i.gen = 1 /\ i.vivo
<1>1. ASSUME NEW t \in {"qemu", "lxc"}
      PROVE  Nueva(1, t) \in Ficha /\ Nueva(1, t).gen = 1 /\ Nueva(1, t).vivo
  <2>1. t \in TiposVm /\ 1 \in Nat BY DEF TiposVm
  <2> QED BY <2>1, FichasNuevas
<1>2. ASSUME NEW t \in {"qemu", "lxc"}, NEW e \in EstadosVm
      PROVE  Sola(t, e) \in Ficha /\ Sola(t, e).gen = 1 /\ Sola(t, e).vivo
  <2> DEFINE n == Nueva(1, t)
  <2>1. n \in Ficha /\ n.gen = 1 /\ n.vivo BY <1>1
  <2>2. Sola(t, e) = [n EXCEPT !.estado = e] BY DEF Sola
  <2> HIDE DEF n
  <2> QED BY <2>1, <2>2 DEF Ficha
<1>3. ASSUME NEW t \in {"qemu", "lxc"}, NEW a \in Primero, NEW b \in Nombres \ Primero
      PROVE  ConCadena(t, a, b) \in Ficha /\ ConCadena(t, a, b).gen = 1 /\ ConCadena(t, a, b).vivo
  <2> DEFINE c == Cadena(a, b)
             n == Nueva(1, t)
             i == [n EXCEPT !.estado = "running", !.snaps = c, !.actual = b]
  <2>0. n \in Ficha /\ n.gen = 1 /\ n.vivo BY <1>1
  <2>1. a \in Nombres BY DEF Primero
  <2>2. c \in [{a, b} -> Fotos] BY <2>1 DEF Cadena, Fotos
  <2>3. {a, b} \in SUBSET Nombres BY <2>1
  <2>4. c \in Catalogos BY <2>2, <2>3 DEF Catalogos
  <2>5. "running" \in EstadosVm BY DEF EstadosVm
  <2>6. ConCadena(t, a, b) = i BY DEF ConCadena
  <2> HIDE DEF c, n
  <2>7. i \in Ficha BY <2>0, <2>4, <2>5 DEF Ficha
  <2>8. i.gen = 1 /\ i.vivo BY <2>0 DEF Ficha
  <2> HIDE DEF i
  <2> QED BY <2>6, <2>7, <2>8
<1> QED BY <1>2, <1>3 DEF Existentes

\* It holds at the start.
LEMMA IInvInicio == Init /\ InstanciasAssumption => IInv
<1> SUFFICES ASSUME Init, InstanciasAssumption PROVE IInv OBVIOUS
<1>1. PICK conocida \in Existentes :
          vm = [v \in Vmids |-> IF v \in Propias THEN conocida
                                ELSE IF v \in Protegidos THEN [Nueva(1, "lxc") EXCEPT !.estado = "running"]
                                ELSE Borrada(Nueva(0, "qemu"))]
  BY DEF Init
<1>2. conocida \in Ficha /\ conocida.gen = 1 BY ExistentesBien
<1> DEFINE l == [Nueva(1, "lxc") EXCEPT !.estado = "running"]
           z == Borrada(Nueva(0, "qemu"))
<1>3. l \in Ficha
  <2>1. Nueva(1, "lxc") \in Ficha BY FichasNuevas DEF TiposVm
  <2>2. "running" \in EstadosVm BY DEF EstadosVm
  <2> QED BY <2>1, <2>2 DEF Ficha
<1>4. z \in Ficha BY FichasNuevas DEF TiposVm
<1> HIDE DEF l, z
<1>5. vm = [v \in Vmids |-> IF v \in Propias THEN conocida ELSE IF v \in Protegidos THEN l ELSE z]
  BY <1>1 DEF l, z
<1>6. vm \in [Vmids -> Ficha] BY <1>2, <1>3, <1>4, <1>5
<1>7. /\ tarea = [v \in Vmids |-> SinTarea] /\ ped = [p \in Pedidos |-> SinPedido]
      /\ fila = [p \in Pedidos |-> "ausente"] /\ salida = [p \in Pedidos |-> "nada"]
      /\ permisos = {[u |-> u, v |-> v, gen |-> 1, tarde |-> FALSE] : u \in Operadores, v \in Propias}
      /\ asig = SinAsignacion /\ quitados = {} /\ vuelo = {}
      /\ cuentas = [fallos |-> 0, ajenas |-> 0, asignaciones |-> 0]
  BY DEF Init
<1>8. permisos \subseteq Filas
  <2> DEFINE f == FALSE
  <2>1. f \in BOOLEAN OBVIOUS
  <2>2. permisos = {[u |-> u, v |-> v, gen |-> 1, tarde |-> f] : u \in Operadores, v \in Propias}
    BY <1>7
  <2> HIDE DEF f
  <2>3. ASSUME NEW u \in Operadores, NEW v \in Propias
        PROVE  [u |-> u, v |-> v, gen |-> 1, tarde |-> f] \in Filas
    BY <2>1 DEF Filas, InstanciasAssumption
  <2> QED BY <2>2, <2>3
<1>9. Tipos
  <2>1. tarea \in [Vmids -> Tareas] /\ asig \in Asignaciones BY <1>7 DEF Tareas, Asignaciones
  <2>2. ped \in [Pedidos -> Pedido] BY <1>7, PedidoNuevo
  <2>3. cuentas \in [fallos : Nat, ajenas : Nat, asignaciones : Nat] BY <1>7
  <2> QED BY <1>6, <1>7, <1>8, <2>1, <2>2, <2>3 DEF Tipos
<1>10. \A p \in Pedidos : /\ ped[p].paso = "nuevo" /\ ped[p].op = "nada" /\ ped[p].v = 0
                          /\ fila[p] = "ausente" /\ salida[p] = "nada"
  BY <1>7, PedidoNuevo
<1>11. PedidosCoherentes BY <1>10 DEF PedidosCoherentes, Coherente, Activo, Activos
<1>12. OrdenesConNombre BY <1>7 DEF OrdenesConNombre
<1>13. TareasFieles BY <1>7 DEF TareasFieles, TareaFiel
<1>14. SinFuturo BY <1>10 DEF SinFuturo
<1>15. TurnoUnico BY <1>10 DEF TurnoUnico, Turna
<1>16. LecturaFiel BY <1>10 DEF LecturaFiel
<1>17. SoloSnapshots
  <2>1. 0 \notin Protegidos /\ Protegidos \subseteq Vmids BY DEF InstanciasAssumption
  <2> QED BY <1>7, <1>10, <2>1 DEF SoloSnapshots
<1>18. BorradoPurga /\ CreadorConserva BY <1>10 DEF BorradoPurga, CreadorConserva
<1> QED BY <1>9, <1>11, <1>12, <1>13, <1>14, <1>15, <1>16, <1>17, <1>18 DEF IInv

\* Every step keeps it.
LEMMA IInvPaso == IInv /\ InstanciasAssumption /\ [Next]_vars => IInv'
<1> SUFFICES ASSUME IInv, InstanciasAssumption, [Next]_vars PROVE IInv' OBVIOUS
<1>1. /\ Tipos /\ PedidosCoherentes /\ OrdenesConNombre /\ TareasFieles /\ SinFuturo /\ TurnoUnico
      /\ LecturaFiel /\ SoloSnapshots /\ BorradoPurga /\ CreadorConserva
  BY DEF IInv
<1>2. Tipos' BY <1>1, TiposSeConserva
<1>3. PedidosCoherentes' BY <1>1, CoherentesSeConserva
<1>4. OrdenesConNombre' BY <1>1, NombresSeConserva
<1>5. TareasFieles' BY <1>1, FielesSeConserva
<1>6. SinFuturo' BY <1>1, SinFuturoSeConserva
<1>7. TurnoUnico' BY <1>1, TurnoSeConserva
<1>8. LecturaFiel' BY <1>1, LecturaSeConserva
<1>9. SoloSnapshots' BY <1>1, ProteccionSeConserva
<1>10. BorradoPurga' BY <1>1, PurgaSeConserva
<1>11. CreadorConserva' BY <1>1, CreadorSeConserva
<1> QED BY <1>2, <1>3, <1>4, <1>5, <1>6, <1>7, <1>8, <1>9, <1>10, <1>11 DEF IInv

\* The inductive invariant holds of every reachable state.
THEOREM Invariante == Spec => []IInv
<1>1. InstanciasAssumption BY InstanciasAssumption
<1>2. Init => IInv BY <1>1, IInvInicio
<1>3. IInv /\ [Next]_vars => IInv' BY <1>1, IInvPaso
<1> QED BY <1>2, <1>3, PTL DEF Spec

\* Once a DELETE is closed as OK nobody has a permission on the instance it
\* destroyed, but one written after its end (debePurgarPermisosDestruccion).
THEOREM PermisosPurgados == Spec => []BorradoPurga
<1>1. IInv => BorradoPurga BY DEF IInv
<1> QED BY <1>1, Invariante, PTL

\* The author of an instance has a row on it while it lives
\* (debeAsignarPermisoCreacion), unless an assignment replaced the permissions
\* of the author since (AsignarPermisos), or the late closure of the DELETE of
\* the instance that had its VMID took it.
THEOREM AutorConPermiso == Spec => []CreadorConserva
<1>1. IInv => CreadorConserva BY DEF IInv
<1> QED BY <1>1, Invariante, PTL

\* Proxmox acts on the instance, and in the state, that the handler read
\* before its order (validarEstadoParaAccion), unless something the API does
\* not track changed it in between.
THEOREM OrdenesSobreLoLeido == Spec => OrdenSobreLoLeido
<1>1. IInv /\ [Next]_vars =>
          [\A p \in Pedidos :
               LET i == vm[ped[p].v]
               IN  En(p, "detalle") /\ ped[p].op # "create" /\ ped'[p].gen # ped[p].gen
                       => ped[p].ajeno \/ [gen |-> i.gen, estado |-> i.estado] = ped[p].leido]_vars
  BY DEF IInv, LecturaFiel, En
<1> QED BY <1>1, Invariante, PTL DEF Spec, OrdenSobreLoLeido

\* What a step may do to a protected instance.
LEMMA PasoSobreProtegida ==
    ASSUME IInv, InstanciasAssumption, [Next]_vars, NEW v \in Protegidos
    PROVE  /\ vm'[v] # vm[v] /\ cuentas'.ajenas = cuentas.ajenas
                  => tarea[v].op \in OpsSnapshot \/ tarea'[v].op \in OpsSnapshot
           /\ \A r \in permisos' \ permisos : r.v # v
<1>1. /\ Tipos /\ PedidosCoherentes /\ TareasFieles /\ SoloSnapshots /\ v \in Vmids
      /\ tarea \in [Vmids -> Tareas]
  BY DEF IInv, InstanciasAssumption, Tipos
<1>2. ASSUME NEW o \in Ordenes, NEW de, NEW i, Recibe(o, de, i), vm'[v] # vm[v],
             o.vmid \in Protegidos => o.op \in OpsSnapshot
      PROVE  tarea'[v].op \in OpsSnapshot
  <2>1. o.vmid = v BY <1>1, <1>2 DEF Recibe, Tipos
  <2>2. o.op \in OpsSnapshot BY <1>2, <2>1
  <2>3. tarea'[v] = [op |-> o.op, nombre |-> o.nombre, de |-> de]
    BY <1>1, <1>2, <2>1, <2>2, Operaciones DEF Recibe
  <2> QED BY <2>2, <2>3
<1>3. ASSUME vm'[v] # vm[v], cuentas'.ajenas = cuentas.ajenas
      PROVE  tarea[v].op \in OpsSnapshot \/ tarea'[v].op \in OpsSnapshot
  <2>1. \A p \in Pedidos : \A b : ~PasoPedido(p, b) BY <1>3 DEF PasoPedido
  <2>2. ASSUME NEW p \in Pedidos, NEW b, NEW i, PasoOrden(p, b, i) PROVE tarea'[v].op \in OpsSnapshot
    <3>1. En(p, "detalle") /\ Recibe(Orden(p), p, i) BY <2>2 DEF PasoOrden, Da, En
    <3>2. Orden(p) \in Ordenes /\ Orden(p).op = ped[p].op /\ Orden(p).vmid = ped[p].v
      BY <1>1, <3>1, OrdenBienDada
    <3> QED BY <1>1, <1>2, <1>3, <3>1, <3>2 DEF SoloSnapshots
  <2>3. ASSUME NEW o, PasoLlegada(o) PROVE tarea'[v].op \in OpsSnapshot
    <3>1. o \in Ordenes /\ (o.vmid \in Protegidos => o.op \in OpsSnapshot)
      BY <1>1, <2>3 DEF PasoLlegada, Tipos, SoloSnapshots
    <3> QED BY <1>2, <1>3, <2>3, <3>1 DEF PasoLlegada
  <2>4. ASSUME NEW w \in Vmids, NEW i, PasoFin(w, i) PROVE tarea[v].op \in OpsSnapshot
    <3>1. w = v /\ tarea[w] # SinTarea BY <1>1, <1>3, <2>4 DEF PasoFin, Acaba, Tipos
    <3> QED BY <1>1, <3>1 DEF SoloSnapshots
  <2>5. \A w \in Vmids : \A i : ~PasoAjeno(w, i) BY <1>3 DEF PasoAjeno
  <2>6. ~((\E p \in Pedidos : Cerrar(p) \/ Vencer(p)) \/ LeerCatalogo \/ EscribirPermisos
          \/ UNCHANGED vars)
    BY <1>3 DEF Cerrar, Vencer, LeerCatalogo, EscribirPermisos, vars, proxmox
  <2> QED BY <1>1, <2>1, <2>2, <2>3, <2>4, <2>5, <2>6, CadaPaso
<1>4. ASSUME NEW r \in permisos' \ permisos PROVE r.v # v
  <2>1. CASE \E q \in Pedidos : /\ Cerrar(q)
                                /\ permisos' = (permisos \ Purgados(q)) \cup Otorgados(q)
    <3>1. PICK q \in Pedidos : permisos' = (permisos \ Purgados(q)) \cup Otorgados(q) BY <2>1
    <3> DEFINE m == Murio(ped[q].v, ped[q].gen)
    <3>2. r \in Otorgados(q) BY <1>4, <3>1
    <3>3. ped[q].op = "create" /\ r = [u |-> Quien[q], v |-> ped[q].v, gen |-> ped[q].gen, tarde |-> m]
      BY <3>2, Zenon DEF Otorgados
    <3> HIDE DEF m
    <3>4. r.v = ped[q].v BY <3>3
    <3> QED BY <1>1, <3>3, <3>4, Operaciones DEF SoloSnapshots
  <2>2. CASE asig # SinAsignacion /\ permisos' = (permisos \ Anteriores) \cup Nuevos
    <3>1. r \in Nuevos BY <1>4, <2>2
    <3> QED BY <1>1, <2>2, <3>1, FilasNuevas
  <2> QED BY <1>1, <1>4, <2>1, <2>2, QuienEscribe
<1> QED BY <1>3, <1>4

\* A protected instance changes by its snapshots and by what other teams do
\* in the panel only, and nobody gets a permission on it
\* (RejectProtectedInstance, proximoVMIDLibre, AsignarPermisos).
THEOREM ProtegidasASalvo == Spec => ProtegidasIntactas
<1>1. InstanciasAssumption BY InstanciasAssumption
<1>2. IInv /\ [Next]_vars =>
          [\A v \in Protegidos :
               /\ vm'[v] # vm[v] /\ cuentas'.ajenas = cuentas.ajenas
                      => tarea[v].op \in OpsSnapshot \/ tarea'[v].op \in OpsSnapshot
               /\ \A r \in permisos' \ permisos : r.v # v]_vars
  BY <1>1, PasoSobreProtegida
<1> QED BY <1>2, Invariante, PTL DEF Spec, ProtegidasIntactas
=============================================================================
