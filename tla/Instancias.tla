----------------------------- MODULE Instancias -----------------------------
(***************************************************************************)
(* The requests that change an instance, from the guards of its route to   *)
(* the closure of their task: what a handler read from Proxmox may no      *)
(* longer be so when its order arrives, and the permissions are kept by    *)
(* VMID while a VMID is reused.                                            *)
(*                                                                         *)
(* The lock of RequireInstanceIdle is held from Entrar to the end of the   *)
(* handler (Exclusion has its expiry); the tracking of a task is Cerrar or *)
(* Vencer (Seguimiento has its steps).  A request refused by a guard       *)
(* changes nothing and is not an action.                                   *)
(*                                                                         *)
(* MaxIncidencias bounds, together, the unanswered orders, database        *)
(* failures, warnings and expired trackings (fallos), what other teams do  *)
(* in Proxmox's own panel (ajenas) and the assignments of permissions.     *)
(***************************************************************************)
EXTENDS Proxmox

CONSTANTS
    Pedidos, Ops, Quien,   \* the requests, what each may ask and its user
    TiposNuevos,           \* of the instances created (qemu, lxc)
    Admins, Operadores,    \* the users by role
    Protegidos,            \* PROXMOX_PROTECTED_VMIDS
    Propias,               \* VMIDs with the row of an earlier creation
    MaxIncidencias

Nadie == "nadie"   \* who gave an order nobody waits for

ASSUME InstanciasAssumption ==
    /\ Vmids \subseteq Nat \ {0} /\ Protegidos \subseteq Vmids /\ Propias \subseteq Vmids
    /\ Nucleos \subseteq Nat \ {0} /\ TiposNuevos \subseteq {"qemu", "lxc"}
    /\ Ops \in [Pedidos -> SUBSET (OpsTarea \cup {"config"})]
    /\ Quien \in [Pedidos -> Admins \cup Operadores]
    /\ Nadie \notin Pedidos
    /\ MaxIncidencias \in Nat

VARIABLES
    ped,        \* the requests
    fila,       \* the row of the task of each request
    salida,     \* the exitstatus of its task, once it ended
    permisos,   \* permisos_instancia, with the generation a row was meant for
    asig,       \* an assignment between the catalogue and the write
    quitados,   \* history: who lost its row on which VMID to an assignment
    vuelo,      \* orders that got no answer and may still arrive
    cuentas     \* the bounds spent

vars == <<proxmox, ped, fila, salida, permisos, asig, quitados, vuelo, cuentas>>

SinPedido == [paso |-> "nuevo", op |-> "nada", v |-> 0, nombre |-> "", n |-> 0, tipo |-> "",
              leido |-> SinTarea, digest |-> <<>>, ajeno |-> FALSE, gen |-> 0]
SinAsignacion == [paso |-> "reposo"]

\* What a VMID names at the start: free, or an instance of any state, alone
\* or with a chain of two snapshots.
Cadena(a, b) == [s \in {a, b} |-> [padre |-> IF s = b THEN a ELSE Raiz, nucleos |-> 1]]
Sola(tipo, estado) == [Nueva(1, tipo) EXCEPT !.estado = estado]
ConCadena(tipo, a, b) ==
    [Nueva(1, tipo) EXCEPT !.estado = "running", !.snaps = Cadena(a, b), !.actual = b]
Primero == {CHOOSE n \in Nombres : TRUE}
Existentes ==
    {Sola(t, e) : t \in {"qemu", "lxc"}, e \in EstadosVm}
    \cup {ConCadena(t, a, b) : t \in {"qemu", "lxc"}, a \in Primero, b \in Nombres \ Primero}

Init ==
    /\ \E conocida \in Existentes :
           vm = [v \in Vmids |-> IF v \in Propias THEN conocida
                                ELSE IF v \in Protegidos THEN [Nueva(1, "lxc") EXCEPT !.estado = "running"]
                                ELSE Borrada(Nueva(0, "qemu"))]
    /\ tarea = [v \in Vmids |-> SinTarea]
    /\ ped = [p \in Pedidos |-> SinPedido]
    /\ fila = [p \in Pedidos |-> "ausente"]
    /\ salida = [p \in Pedidos |-> "nada"]
    /\ permisos = {[u |-> u, v |-> v, gen |-> 1, tarde |-> FALSE] : u \in Operadores, v \in Propias}
    /\ asig = SinAsignacion /\ quitados = {} /\ vuelo = {}
    /\ cuentas = [fallos |-> 0, ajenas |-> 0, asignaciones |-> 0]

-----------------------------------------------------------------------------
\* Vocabulary

En(p, paso) == ped[p].paso = paso
Va(p, paso) == ped' = [ped EXCEPT ![p].paso = paso]
\* The handler of p ends.  Of an order that was accepted its target is kept.
Fin(p) == ped' = [ped EXCEPT ![p] = [SinPedido EXCEPT !.paso = "fin"]]
Hecha(p, gen) ==
    ped' = [ped EXCEPT ![p] = [SinPedido EXCEPT !.paso = "fin", !.op = ped[p].op,
                                                !.v = ped[p].v, !.gen = gen]]
Cuenta(c) ==
    /\ cuentas.fallos + cuentas.ajenas + cuentas.asignaciones < MaxIncidencias
    /\ cuentas' = [cuentas EXCEPT ![c] = @ + 1]
Falla == Cuenta("fallos")

TieneTareaActiva(v) == \E p \in Pedidos : ped[p].v = v /\ fila[p] = "RUNNING"
\* A creation of the API on v has a row that was closed.
FueCreadaPorCentinela(v) ==
    \/ v \in Propias
    \/ \E p \in Pedidos : ped[p].op = "create" /\ ped[p].v = v /\ fila[p] \in {"COMPLETED", "FAILED"}

EsEstadoCompatible(op, e) ==
    CASE op = "start" -> e = "stopped"
      [] op = "stop" -> e \in {"running", "paused"}
      [] op \in {"shutdown", "reboot"} -> e = "running"
      [] op = "resume" -> e = "paused"
      [] op = "delete" -> e \in {"stopped", "paused"}
      [] OTHER -> TRUE

\* A request that is using what it read of v.
Usando(p, v) == ped[p].v = v /\ ped[p].paso \in {"leido", "detalle", "verifica"}
\* Something the API does not track changed v under the requests in P.
Sorprende(v, pedidos) ==
    [p \in Pedidos |-> [pedidos[p] EXCEPT !.ajeno = @ \/ Usando(p, v)]]

-----------------------------------------------------------------------------
\* The routes: RequireRole, RequireInstanceAccess, RejectProtectedInstance,
\* RequireInstanceIdle

Rol(p, op) == op \in {"delete", "create"} => Quien[p] \in Admins
Acceso(p, v) == Quien[p] \in Admins \/ \E r \in permisos : r.u = Quien[p] /\ r.v = v
\* Mutant of Ocioso: only the requests being served are looked at.
OciosoSinFilas(v) ==
    \A q \in Pedidos : ped[q].v = v /\ ped[q].op # "create" => ped[q].paso \in {"nuevo", "fin"}
Ocioso(v) ==
    /\ \A q \in Pedidos : ped[q].v = v /\ ped[q].op # "create" => ped[q].paso \in {"nuevo", "fin"}
    /\ ~TieneTareaActiva(v)
\* A protected instance admits snapshots only.
NoProtegida(op, v) == op \in OpsSnapshot \/ v \notin Protegidos

\* The route of an instance lets p in: it has its turn on v.
Entrar(p) ==
    /\ En(p, "nuevo")
    /\ \E op \in Ops[p] \ {"create"}, v \in Vmids, nombre \in Nombres, n \in Nucleos :
           /\ Rol(p, op) /\ Acceso(p, v) /\ NoProtegida(op, v) /\ Ocioso(v)
           /\ op \notin OpsSnapshot => nombre = CHOOSE x \in Nombres : TRUE
           /\ op # "config" => n = CHOOSE x \in Nucleos : TRUE
           /\ ped' = [ped EXCEPT ![p] = [SinPedido EXCEPT !.paso = "dentro", !.op = op, !.v = v,
                                            !.nombre = nombre, !.n = n]]
    /\ UNCHANGED <<proxmox, fila, salida, permisos, asig, quitados, vuelo, cuentas>>

-----------------------------------------------------------------------------
\* The handlers

SoloPed == UNCHANGED <<proxmox, fila, salida, permisos, asig, quitados, vuelo, cuentas>>

\* Power actions and DELETE look at the rows again; DELETE also asks whether
\* the API created the instance.
Previas(p) ==
    LET v == ped[p].v
    IN  /\ ped[p].op \in OpsEnergia \cup {"delete"} => ~TieneTareaActiva(v)
        /\ ped[p].op = "delete" => FueCreadaPorCentinela(v)

Lee(p, paso) == ped' = [ped EXCEPT ![p].paso = paso, ![p].tipo = vm[ped[p].v].tipo,
                                   ![p].leido = [gen |-> vm[ped[p].v].gen, estado |-> vm[ped[p].v].estado]]

\* ObtenerInstancia and the matrix of states.
Leer(p) ==
    LET i == vm[ped[p].v]
    IN  /\ En(p, "dentro")
        /\ IF Previas(p) /\ i.vivo /\ EsEstadoCompatible(ped[p].op, i.estado)
           THEN Lee(p, IF ped[p].op \in OpsSnapshot \cup {"config"} THEN "leido" ELSE "detalle")
           ELSE Fin(p)
        /\ SoloPed

\* The snapshots of the instance: the name must be new, or be there.
LeerSnapshots(p) ==
    LET conocidos == DOMAIN vm[ped[p].v].snaps
    IN  /\ En(p, "leido") /\ ped[p].op \in OpsSnapshot
        /\ IF /\ Existe(ped[p].v, ped[p].tipo)
              /\ ped[p].op = "snapshot" <=> ped[p].nombre \notin conocidos
           THEN Va(p, "detalle") ELSE Fin(p)
        /\ SoloPed

\* The configuration with the pending changes, for its digest.
LeerConfig(p) ==
    /\ En(p, "leido") /\ ped[p].op = "config"
    /\ IF Existe(ped[p].v, ped[p].tipo)
       THEN ped' = [ped EXCEPT ![p].paso = "detalle", ![p].digest = Digest(vm[ped[p].v])]
       ELSE Fin(p)
    /\ SoloPed

\* IniciarInstancia and DetenerInstancia resolve the type again.
Orden(p) ==
    [op |-> ped[p].op, vmid |-> ped[p].v, nombre |-> ped[p].nombre, n |-> ped[p].n,
     tipo |-> IF ped[p].op \in {"start", "stop"} THEN vm[ped[p].v].tipo ELSE ped[p].tipo,
     digest |-> ped[p].digest]

\* The generation an accepted order acts on.
Actua(p) == vm'[ped[p].v].gen

\* An instance that was off needs no restart; a running one is read again.
TrasConfig(p) ==
    IF ped[p].leido.estado = "running"
    THEN ped' = [ped EXCEPT ![p].paso = "verifica", ![p].gen = Actua(p)]
    ELSE Hecha(p, Actua(p))

\* Proxmox accepts the order of p.
Despacha(p) ==
    /\ En(p, "detalle") /\ Acepta(Orden(p)) /\ Ordenada(Orden(p), p)
    /\ UNCHANGED <<fila, salida, permisos, asig, quitados, vuelo, cuentas>>
ConTarea(p) == ped' = [ped EXCEPT ![p].paso = "aceptado", ![p].gen = Actua(p)]

CambiarEstado(p) == ped[p].op \in OpsEnergia /\ Despacha(p) /\ ConTarea(p)
OrdenarSnapshot(p) == ped[p].op \in OpsSnapshot /\ Despacha(p) /\ ConTarea(p)
EliminarInstancia(p) == ped[p].op = "delete" /\ Despacha(p) /\ ConTarea(p)
AprovisionarInstancia(p) == ped[p].op = "create" /\ Despacha(p) /\ ConTarea(p)
\* The edition is made at once, without a task.
ActualizarConfig(p) == ped[p].op = "config" /\ Despacha(p) /\ TrasConfig(p)

\* Proxmox refuses it: 409 when it is busy, 502 otherwise.
Rechazar(p) == En(p, "detalle") /\ ~Acepta(Orden(p)) /\ Fin(p) /\ SoloPed

\* No answer (502, 504): the order may arrive later, or never.
SinRespuesta(p) ==
    /\ En(p, "detalle") /\ Falla /\ Fin(p)
    /\ vuelo' = vuelo \cup {Orden(p)}
    /\ UNCHANGED <<proxmox, fila, salida, permisos, asig, quitados>>

\* The configuration in use is read again, for the answer only: whether a
\* restart is needed, or 502.
Verificar(p) ==
    En(p, "verifica") /\ Hecha(p, ped[p].gen) /\ SoloPed

\* The accepted task gets its row (202), or the database fails (500
\* TASK_TRACKING_UNAVAILABLE) and nobody tracks it.
Seguir(p) ==
    /\ En(p, "aceptado") /\ Hecha(p, ped[p].gen)
    /\ \/ fila' = [fila EXCEPT ![p] = "RUNNING"] /\ UNCHANGED cuentas
       \/ Falla /\ UNCHANGED fila
    /\ UNCHANGED <<proxmox, salida, permisos, asig, quitados, vuelo>>

-----------------------------------------------------------------------------
\* POST /instances, one at a time in the process (aprovisionMu)

\* Mutant of VmidLibre: the suggestion of Proxmox is taken as it is.
VmidSugerido == SiguienteID
\* proximoVMIDLibre: from the suggestion on, the first VMID that is free and
\* not protected.
VmidLibre ==
    LET aptos == {v \in Vmids \ Protegidos : ~vm[v].vivo /\ v >= SiguienteID}
    IN  IF aptos = {} THEN 0 ELSE CHOOSE v \in aptos : \A w \in aptos : v <= w

ElegirVmid(p) ==
    /\ En(p, "nuevo") /\ "create" \in Ops[p] /\ Rol(p, "create")
    /\ \A q \in Pedidos : ped[q].op = "create" => ped[q].paso # "detalle"
    /\ VmidLibre # 0
    /\ \E t \in TiposNuevos :
           ped' = [ped EXCEPT ![p] = [SinPedido EXCEPT !.paso = "detalle", !.op = "create",
                                                       !.v = VmidLibre, !.tipo = t]]
    /\ SoloPed

-----------------------------------------------------------------------------
\* Proxmox and the tracking of its tasks

\* The task of v ends.  A request still using what it read of v is surprised
\* by it only when nobody was tracking the task.
Terminar(v) ==
    LET p == tarea[v].de
    IN  /\ Terminada(v)
        /\ IF p = Nadie THEN salida' = salida /\ UNCHANGED cuentas
           ELSE \/ /\ salida' = [salida EXCEPT ![p] = IF Exito(v) THEN "OK" ELSE "error"]
                   /\ UNCHANGED cuentas
                \/ Exito(v) /\ Falla /\ salida' = [salida EXCEPT ![p] = "WARNINGS"]
        /\ ped' = IF p # Nadie /\ (fila[p] = "RUNNING" \/ En(p, "aceptado")) THEN ped
                  ELSE Sorprende(v, ped)
        /\ UNCHANGED <<fila, permisos, asig, quitados, vuelo>>

\* An order that got no answer arrives.
Llegar ==
    \E o \in vuelo :
        /\ vuelo' = vuelo \ {o}
        /\ IF Acepta(o) THEN Ordenada(o, Nadie) /\ ped' = Sorprende(o.vmid, ped)
           ELSE UNCHANGED <<proxmox, ped>>
        /\ UNCHANGED <<fila, salida, permisos, asig, quitados, cuentas>>

\* The instance of that generation is gone: a row written then is late.
Murio(v, g) == ~vm[v].vivo \/ vm[v].gen # g
Exitosa(p) == salida[p] = "OK" \/ (salida[p] = "WARNINGS" /\ ped[p].op # "create")

\* Mutant of Purgados: the rows of the user who asked are the ones removed.
PurgadosDelActor(p) ==
    {r \in permisos : /\ r.v = ped[p].v /\ r.u = Quien[p]
                      /\ ped[p].op = "delete" /\ salida[p] = "OK"}
\* A destruction that ended in OK removes every row of its VMID.
Purgados(p) ==
    {r \in permisos : r.v = ped[p].v /\ ped[p].op = "delete" /\ salida[p] = "OK"}
\* Mutant of Otorgados: an administrator, who has access anyway, gets no row.
OtorgadosAOperadores(p) ==
    IF /\ ped[p].op = "create" /\ salida[p] = "OK" /\ Quien[p] \in Operadores
       /\ ~\E r \in permisos : r.u = Quien[p] /\ r.v = ped[p].v
    THEN {[u |-> Quien[p], v |-> ped[p].v, gen |-> ped[p].gen, tarde |-> Murio(ped[p].v, ped[p].gen)]}
    ELSE {}
\* A creation that ended in OK gives its author FULL_ACCESS, unless it had a row.
Otorgados(p) ==
    IF /\ ped[p].op = "create" /\ salida[p] = "OK"
       /\ ~\E r \in permisos : r.u = Quien[p] /\ r.v = ped[p].v
    THEN {[u |-> Quien[p], v |-> ped[p].v, gen |-> ped[p].gen, tarde |-> Murio(ped[p].v, ped[p].gen)]}
    ELSE {}

\* The row is closed with its effects on the permissions, in one transaction.
Cerrar(p) ==
    /\ fila[p] = "RUNNING" /\ salida[p] # "nada"
    /\ fila' = [fila EXCEPT ![p] = IF Exitosa(p) THEN "COMPLETED" ELSE "FAILED"]
    /\ permisos' = (permisos \ Purgados(p)) \cup Otorgados(p)
    /\ quitados' = quitados \ {<<r.u, r.v>> : r \in Otorgados(p)}
    /\ UNCHANGED <<proxmox, ped, salida, asig, vuelo, cuentas>>

\* The tracking reaches its limit with the task still running.
Vencer(p) ==
    /\ fila[p] = "RUNNING" /\ salida[p] = "nada" /\ Falla
    /\ fila' = [fila EXCEPT ![p] = "FAILED"]
    /\ UNCHANGED <<proxmox, ped, salida, permisos, asig, quitados, vuelo>>

-----------------------------------------------------------------------------
\* AsignarPermisos: the catalogue is read, then the rows of the user replaced.
\* The user may have any role, and an empty list takes all its rows away.

LeerCatalogo ==
    /\ asig = SinAsignacion /\ Cuenta("asignaciones")
    /\ \E u \in Admins \cup Operadores, S \in SUBSET (Vmids \ Protegidos) :
           /\ \A v \in S : vm[v].vivo
           /\ asig' = [paso |-> "escribe", u |-> u, gens |-> [v \in S |-> vm[v].gen]]
    /\ UNCHANGED <<proxmox, ped, fila, salida, permisos, quitados, vuelo>>

\* ReemplazarPermisos: what the user had, and what it is given.
Anteriores == {r \in permisos : r.u = asig.u}
Nuevos == {[u |-> asig.u, v |-> v, gen |-> asig.gens[v], tarde |-> Murio(v, asig.gens[v])] :
               v \in DOMAIN asig.gens}
EscribirPermisos ==
    /\ asig # SinAsignacion
    /\ permisos' = (permisos \ Anteriores) \cup Nuevos
    /\ quitados' = (quitados \cup {<<r.u, r.v>> : r \in Anteriores}) \ {<<r.u, r.v>> : r \in Nuevos}
    /\ asig' = SinAsignacion
    /\ UNCHANGED <<proxmox, ped, fila, salida, vuelo, cuentas>>

-----------------------------------------------------------------------------
\* Other teams, in Proxmox's own panel

Ajena(v, i) ==
    /\ Cuenta("ajenas") /\ Libre(v)
    /\ vm' = [vm EXCEPT ![v] = i] /\ ped' = Sorprende(v, ped)
    /\ UNCHANGED <<tarea, fila, salida, permisos, asig, quitados, vuelo>>
AjenaCrear(v) == ~vm[v].vivo /\ \E t \in TiposNuevos : Ajena(v, Nueva(vm[v].gen + 1, t))
AjenaBorrar(v) == vm[v].vivo /\ Ajena(v, Borrada(vm[v]))
AjenaEstado(v) ==
    vm[v].vivo /\ \E e \in EstadosVm \ {vm[v].estado} :
        Ajena(v, IF e = "running" THEN Encender(vm[v]) ELSE [vm[v] EXCEPT !.estado = e])
AjenaConfig(v) ==
    vm[v].vivo /\ \E n \in Nucleos : n # vm[v].nucleos /\ Ajena(v, EditarConfig(vm[v], n))

Next ==
    \/ \E p \in Pedidos :
           \/ Entrar(p) \/ Leer(p) \/ LeerSnapshots(p) \/ LeerConfig(p)
           \/ CambiarEstado(p) \/ OrdenarSnapshot(p) \/ EliminarInstancia(p)
           \/ AprovisionarInstancia(p) \/ ActualizarConfig(p) \/ Rechazar(p)
           \/ SinRespuesta(p) \/ Verificar(p) \/ Seguir(p) \/ ElegirVmid(p)
           \/ Cerrar(p) \/ Vencer(p)
    \/ \E v \in Vmids :
           Terminar(v) \/ AjenaCrear(v) \/ AjenaBorrar(v) \/ AjenaEstado(v) \/ AjenaConfig(v)
    \/ Llegar \/ LeerCatalogo \/ EscribirPermisos

Spec == Init /\ [][Next]_vars

-----------------------------------------------------------------------------
(* Properties *)

\* An accepted order finds the instance its handler read, in the state it
\* read (validarEstadoParaAccion), unless something the API does not track
\* changed it in between: another team, an order left without an answer, a
\* task without a row or whose tracking expired.
OrdenSobreLoLeido ==
    [][\A p \in Pedidos :
        LET i == vm[ped[p].v]
        IN  En(p, "detalle") /\ ped[p].op # "create" /\ ped'[p].gen # ped[p].gen
                => ped[p].ajeno \/ [gen |-> i.gen, estado |-> i.estado] = ped[p].leido]_vars

\* The API changes a protected instance by its snapshots only, never takes its
\* VMID for a new one and never writes a permission on it
\* (RejectProtectedInstance, proximoVMIDLibre, AsignarPermisos).
ProtegidasIntactas ==
    [][\A v \in Protegidos :
        /\ vm'[v] # vm[v] /\ cuentas'.ajenas = cuentas.ajenas
               => tarea[v].op \in OpsSnapshot \/ tarea'[v].op \in OpsSnapshot
        /\ \A r \in permisos' \ permisos : r.v # v]_vars

\* Once a destruction is closed as OK, no permission on the instance it
\* destroyed is left, except one written after its end: by an assignment that
\* had read the catalogue before, or by the closure of its own creation
\* (debePurgarPermisosDestruccion, AsignarPermisos).
BorradoPurga ==
    \A p \in Pedidos : ped[p].op = "delete" /\ fila[p] = "COMPLETED" /\ salida[p] = "OK" =>
        \A r \in permisos : r.v = ped[p].v /\ r.gen = ped[p].gen => r.tarde

\* The author of a creation closed as OK has a row on the instance while it
\* lives, unless an administrator replaced the permissions of the author since
\* (AsignarPermisos), or the late closure of a DELETE of the previous instance
\* of its VMID took it (debeAsignarPermisoCreacion).
CreadorConserva ==
    \A p \in Pedidos :
        /\ ped[p].op = "create" /\ fila[p] = "COMPLETED"
        /\ vm[ped[p].v].vivo /\ vm[ped[p].v].gen = ped[p].gen
        => \/ \E r \in permisos : r.u = Quien[p] /\ r.v = ped[p].v
           \/ <<Quien[p], ped[p].v>> \in quitados
           \/ \E q \in Pedidos : /\ ped[q].op = "delete" /\ fila[q] = "COMPLETED"
                                 /\ ped[q].v = ped[p].v /\ ped[q].gen < ped[p].gen
=============================================================================
