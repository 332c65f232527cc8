# El Centinela: verification of the back end

El Centinela is the HTTP API (Go, Gin, GORM) in front of a Proxmox cluster. It
starts and stops virtual machines and containers, creates and deletes them,
changes their resources, follows the Proxmox tasks this starts, and tells users
what happened. It keeps its truth in PostgreSQL, coordinates through Redis and
asks Proxmox for the rest. Several things go on at once: HTTP handlers, a pool
of workers that polls Proxmox, a reconciler, an alert evaluator, streams to
browsers, perhaps a second replica; and the process is restarted with every
deployment.

This directory holds TLA+ modules translated from that code, the TLC
configurations that check them, and the theorems TLAPS proves about them.
`PROJECT.json` maps every definition to the lines it stands for.

## 1. Inventory

`svc/` is `src/internal/core/services/`, `pg/` is
`src/internal/adapters/secondary/postgres/`, `http/` is
`src/internal/adapters/primary/http/`.

| Component | State it keeps | Operations | What makes it correct | Module |
|---|---|---|---|---|
| Task tracking, `svc/seguimiento_tareas.go` | `tareasChan` (bounded), `enCurso`, timers, worker goroutines | `Seguir`, `encolar`, `consultar`, `finalizar`, `reconciliar`, `recuperar`, start-up, `Esperar` | every RUNNING row is closed, once, with what Proxmox said; then announced | `Seguimiento`, `CicloTarea` |
| Task repository, `pg/tarea_repository.go` | `tareas_asincronas`, audit records, `permisos_instancia` | `Crear`, `ActualizarEstado`, `ListarEnCurso`, `BuscarTareasActivasPorVmids` | closing, grant or purge, and audit commit together and once | `TareaRepository` |
| Quotas, `svc/cuotas_service.go` | Redis: provisioning lock (30 s), reservations (no TTL), capacity snapshot (10 s) | `AprovisionarInstancia`, `AmpliarInstancia`, `FinalizarReserva`, `LiberarReserva` | what is admitted fits on the node | `Cuotas`, `Capacidad` |
| Reconfiguration, `svc/configuracion_instancias.go` | none of its own | `Reconfigurar` (up to eight Proxmox calls) | as above; one operation per instance; nothing changed in between | `Cuotas`, `Exclusion`, `Instancias` |
| Exclusion, `svc/exclusion_instancias.go`, `http/middleware/instance_idle.go` | Redis: `lock:instance:{vmid}:operation` (60 s) | `Reservar`, `liberar` | one operation at a time per instance | `Exclusion` |
| Instance handlers, `http/instance_handler.go`, `http/snapshot_handler.go`, `svc/snapshot_service.go` | none | guards, read, order, `Seguir` | an order acts on what was read; permissions follow the instance | `Instancias` |
| Proxmox client, `src/internal/adapters/secondary/proxmox/client.go` | `aprovisionMu` | REST calls with a 10 s time-out, choice of the VMID | an error never means "it did not happen" | `Instancias`, environment of the others |
| Proxmox simulator, `src/cmd/proxmox-simulador` | instances, tasks, snapshots | accept an order, end a task | the environment the handlers assume | `Proxmox` |
| Key-value store, `src/internal/adapters/secondary/redis`, `.../memoria` | keys with TTL, windows | Get, Set, Del, GetDel, SetNX, INCR, windows, lock | the memory store answers as Redis | `AlmacenClaves`, `AlmacenMemoria` |
| Sessions, `svc/auth_service.go`, `svc/almacen_sesiones.go`, `svc/sesiones.go`, `pg/auth_repository.go` | PostgreSQL sessions, Redis copies, temporary tokens | login, refresh, verify, logout, revocations, purge | a closed session stays closed, and its copy goes | `Sesiones` |
| Users and accounts, `svc/user_service.go`, `svc/email_change.go`, `pg/user_repository.go` | users, second factor, codes, tokens | create, update, delete, change e-mail, recover | credentials reach their owner; one use per code and token | `Cuenta` |
| Events (SSE), `svc/eventos_service.go`, `svc/bus_eventos.go`, `http/events_handler.go` | tickets, subscriptions, channels of 16 | ticket, subscribe, publish, revoke | delivery without gaps; a revoked stream closes | `Eventos` |
| Live metrics (WebSocket), `svc/metricas_vivo_service.go`, `http/ws_metrics_handler.go` | tickets, places per user | as above | as above; places come back | `Eventos` |
| Alerts, `svc/alert_evaluator_worker.go` | Redis: counts, active marks, turn, last state | one evaluation per interval | an alert that silences the next ones was announced; who replaces a last state decides about the stop | `Alertas` |
| Rate limits, `http/middleware/ratelimit.go` | windows | take, give back | never more than N per window; only what counts is kept | `LimiteTasa` |
| Audit, `pg/audit_repository.go`, `http/audit_handler.go` | `auditoria`, partitioned by quarter | record, page, count, stream | a reader that reads to the end has read everything | `Auditoria` |
| Database, `pg/db.go`, `pg/migrar_usuarios.go`, `src/cmd/seed` | schema, partitions, indices | `InitDB`, seed | no start loses history or identity | `Arranque` |
| Node status, `svc/nodo_service.go`, `svc/inventario_service.go` | snapshot and last known value | read, refresh | one refresh at a time; stale data is marked | rounding only, in `Cuotas` |

Cryptography, instance references, topology, stateless middlewares and the
generated API documentation hold no concurrent state; they are listed in
`PROJECT.json` with the reason they are left out.

### How the components interact

A mutating request on an instance passes the guards of its route and
`RequireInstanceIdle` (`Exclusion`), which takes the Redis lock and looks for a
RUNNING row. The handler asks Proxmox (`Instancias`, `Proxmox`) and gets a UPID;
`Seguir` commits the RUNNING row, and only then is the lock let go: from there
on the row excludes the next request. The pool (`Seguimiento`) polls the UPID
and closes the row in one transaction with its permissions and audit records
(`TareaRepository`), then calls `OnTaskFinished`, which releases the reservation
of a creation (`Cuotas`) and publishes TASK_FINISHED (`Eventos`). A creation has
no instance to lock yet; it passes through `Cuotas` under the provisioning lock.
`PUT /config` passes through both locks and leaves no row.

Every request carries an access token that `Sesiones` checks, against the copy
in Redis or the row in PostgreSQL. Closing sessions, whoever asks for it
(`Cuenta`), closes rows, deletes copies and publishes a notice that cuts the
streams of `Eventos`. `LimiteTasa` stands before the routes that need no
session. All of them reach Redis, or the memory store, through one port
(`AlmacenClaves`), and the schema they rely on is made by `Arranque`.

### What is hard

* Copies: the reconciler reads `enCurso` in one critical section and enqueues in
  another, so a task may be in the pool twice, and be closed twice with
  different results (a TIMEOUT and an exit status).
* Forgetting: a full queue, a failed transaction or a crash must leave the row
  in somebody's hands.
* Unknown outcomes: a call that fails or times out may have been carried out.
* Locks with a TTL and no renewal, under holders that make slow calls.
* Two stores and no common transaction: a session closed in one and alive in the
  other, a token consumed in one before the write in the other.
* Read, check, write: what a handler checked may have changed when it writes.
* Reuse: Proxmox gives the VMID of a deleted instance to the next one.
* Deduplication before delivery: an alert is marked before it is announced.
* A migration of several statements that may stop anywhere, next to the previous
  version.

The complete list, with the line where each one bites, is under "hazards" in
`PROJECT.json`.

## 2. Modules

### TareaRepository

The tables. `fila[t]` is the row of a task, `auditoria[t]` its audit records in
order, `permisos` the pairs user/VMID. Each repository method is one
transaction, hence one step; a transaction that fails changes nothing and is an
alternative of the caller. `ActualizarEstado` is the `SELECT ... FOR UPDATE`
that returns without an error and without a change when the row is closed
already. What an exit status says is reduced to `OK`, `WARNINGS` and `ERROR`,
the three that `clasificarExitStatus` tells apart, and actions to creation,
deletion and the rest.

### Seguimiento

The pool. `cola` is `tareasChan`, `enCurso` the map of the same name,
`temporizador[t]` the number of pending `AfterFunc` timers, `recLista` and
`recTarea` the local state of the reconciler between its two critical sections,
`seguir` the requests between the commit of `Crear` and `encolar`, `reanudar`
what `recuperar` still has to enqueue. `hilo` says what each goroutine that
queries and closes tasks is doing; besides the workers there is one goroutine
per task at start-up, first for the reconciliation before the listener opens,
then for `verificarUnaVez`. `remoto` is the task in Proxmox and `edad` its age.

Each step ends where another goroutine can look: at a critical section, a channel
operation, a commit, an answer of Proxmox. `finalizar` is therefore two steps,
`GuardarCierre` (the commit) and `Publicar` (`OnTaskFinished` and the deferred
delete), or the single `FallaCierre`. `proceso` is the stage of `main`:
`reconciliando`, `recuperando`, `sirviendo`, `apagando`, `caido`. A kill
(`Caer`) can come at any step; an orderly shutdown (`Apagar`, `Salir`) comes
while serving. A SIGTERM during start-up adds nothing: before `Iniciar` it makes
queries fail, which they may do anyway, and `Iniciar` looks at the context only
after `recuperar`.

### CicloTarea

What a client of the API relies on: a task is registered as running, closed once
and for good, and announced only after that. `CumpleCiclo` states that
`Seguimiento` implements it, with the estado of the row and the set of announced
tasks as the refinement mapping.

### Cuotas and Capacidad

Requests compete for the RAM of one node. `fase[p]` follows a request through
`AprovisionarInstancia` or `AmpliarInstancia`, one phase per Proxmox call, so
that lock, reservations and snapshot can change while a call is under way.
`lista[p]` is the list of reservations it read and will write back, `foto[p]`
the inventory it decides on, `remoto[p]` what Proxmox did. An order is taken,
refused or lost whenever Proxmox likes. Its caller may stop waiting at any time,
with the order still on its way: the client of the API went away, the connection
was cut, or the time-out passed (`ConfigResponde`, `CreacionIncierta`). Time passes
in ticks: what the API does on its own or with Redis takes none, a call takes at
most `LimiteLlamada` for its caller. The lock expires, under a holder at work
too, and so does the snapshot; dropping the snapshot may fail (`Invalidar`). Disk is admitted by the same rule as RAM, and vCPUs are
bounded per instance only; both are left out of the arithmetic and kept as
possible refusals (`Rechazar`).

Two history variables, which no step reads, say how the code loses sight of RAM it
handed out. `perdidas` are the requests this happened to: a change of configuration
whose PUT ended for its caller (or its process) before Proxmox decided, one that
waits for a reboot, and what a snapshot stored from a stale reading, or one that
could not be dropped, fails to show. `vencido` says that the lock expired under a holder that
still worked. The properties of the node exclude exactly these.

`Capacidad` is the atomic decision all this stands for: a request is admitted if
everything admitted then fits. `CumpleCapacidad` checks that `Cuotas` implements
it, where a request counts as admitted when it is reserved, on its way or done,
and is in sight. `Descartar` drops a set of requests, the lost ones among them.

### Exclusion

Requests on one instance. Class `tarea` is power, deletion and snapshots; class
`config` is `PUT /config`. `Lecturas[p]` is the number of Proxmox reads before
the order. Redis may fail when the lock is taken (`SinRedis`: the code goes on
with the check in the database alone) and when it is let go (the lock then
expires). The order may fail for the caller whatever Proxmox does with it, and
`Seguir` may fail after Proxmox took the order. `CerrarTarea` and `Arrancar` are
the task pool as this component sees it: rows are closed when the task ends or
`UpidTimeout` passes, and a start-up closes ended ones and deletes the lock.

`ExclusionMutua` speaks of requests that had the lock, and leaves out an
operation that is `Perdida`: its handler is over and no RUNNING row is left,
because the answer or the row was lost or the row was closed with TIMEOUT.
Nobody could know of it.

### Proxmox and Instancias

`Proxmox` is the hypervisor as the simulator of the repository implements it:
instances by VMID, at most one task each, snapshots as a tree (the parent of
each and the current one), a configuration of which a part may wait for a
restart. An order is accepted or refused at once and takes effect when its task
ends.

`Instancias` is what a request does between its route and the closure of its
task: the guards (role, access, protected VMIDs, idle), the reads, the order,
the row. `paso` is the call it makes next. `vuelo` holds orders that got no
answer and may still arrive, `asig` an assignment of permissions (to a user of any
role, of any list of instances, the empty one included) between the reading of
the catalogue and the write, and the actions `Ajena...` are other
teams in Proxmox's own panel. The closure of a task, with its grant or its
purge, is one step here: `Seguimiento` has the rest.

Two ghosts make VMID reuse visible: `gen` counts the instances a VMID has named,
and a permission remembers for which of them it was written, and whether that
one was gone by then (`tarde`). `quitados` records whose row on a VMID an
assignment took away. `ajeno` marks a request under whose reads
something the API does not track changed.

### AlmacenClaves and AlmacenMemoria

`AlmacenClaves` is the port `ports.KeyValueStore` as Redis answers it: each
command is a step, `resp` its answer, and an entry is gone in the instant its
TTL ends. `AlmacenMemoria` is the store of the degraded mode: entries and
events that expired stay until somebody reads, writes or sweeps. `CumpleAlmacen`
is the refinement, with what has not expired as the mapping: every sequence of
calls gets the answers Redis would give.

### Sesiones

The sessions of one account in two stores. `fila` is `sesiones_activas`, `copia`
the key `auth:session:<id>` (the number of the access token it accepts),
`pre2fa` the temporary tokens, `proc` the handlers in flight: each call another
handler can observe is an action. The abstraction of a token is the number of
the rotation that made it (`jti`). `causa` is a ghost: the sessions whose copy
has a reason to outlive them (a failed DEL, a crash, a copy written by a handler
that had read the row before). The SET of a copy reaches Redis as late as its
handler does, after its TTL was computed: a copy may outlive its session by that
much (`VenceCopia`), and then opens nothing. `bajaEnCurso` is the transaction of
`EliminarLogicamente`, which holds rows while it deletes copies, and whose writes
nobody sees until it commits; an account without sessions is deleted as well.

### Cuenta

What administrators, owners and strangers do to accounts: fourteen kinds of
request, each one reading an account, checking it, mailing and writing back in
separate steps. Passwords, codes, secrets and tokens are named after the request
that made them. A new password equal to
the present one is refused, in the recovery too. `bloqueo` is the row lock of `SELECT ... FOR UPDATE`. `UPDATE`s
with and without their conditions are told apart, since several of the code's
are by id alone.

### LimiteTasa

The four limits and the second factor they protect, as requests that overlap:
`LimitarRafagas`, `LimitarLogin`, the two limits of the recovery, and
`LimitarVerificacion2FA`, with the places they take before the handler and give
back after it. A window is a set of requests with their time. Routes share no
key: a behaviour is about one route, and `AlmacenClaves` is its store. The recovery
keeps both its places whatever it answers (200, 400 or 500).

### Eventos

The two real-time channels of one user. A connection is a handler (`fase`) and
the goroutine that reads its subscription (`lector`); `cola` is the bounded
buffer of the subscription, `eventos` the bounded channel between both, `mano`
the event the goroutine holds. Checking the session and subscribing are two
steps, and so are closing a session and publishing its notice. The stream asks the
database whether the user may see an event; that query may fail (`PuedeVerFalla`):
the one of the user ends the stream, the one of the permission drops the event.
`omitidos` are the events lost to a fault, that query or a full buffer of the
bus; `excusa` records that the notice of its session was lost or came before the
subscription. Permissions, roles and accounts are taken away by the rest of the API
(`QuitarPermiso`, `Suspender` and so on) and not given back: that direction cuts
nothing.

### Alertas

The evaluator, in every replica. The turn, the counts, the active marks and the
last state are keys of Redis; `ev[r]` is the evaluation under way in replica
`r`. Taking the mark, publishing and auditing are three steps, and reading,
storing and deciding about a state are three more. One measurement (of the host
or of an instance) and one instance. `alerta` carries the ghosts of an
announcement: that it was published and audited (`pub`, `aud`), or that the call
failed or the process ended before it (`sinPub`, `sinAud`). `Registrar` only logs an
error of the database, so the evaluation goes on without the record.

### Arranque

`InitDB` statement by statement (`paso` is the next one) on a new base or on one
of the previous version, which may go on writing meanwhile, and the seed. The
process may stop between two statements and start again. Time is a quarter.
Each audit record says in which table and partition it is; `Volcar` is the one
transaction that copies the legacy records and drops their table.

### Auditoria

The audit log as a client reads it: `GET /api/admin/audit` is a COUNT and a
SELECT with an OFFSET, the download a cursor and a buffered response. Records
take their time before their INSERT, so they are committed out of order. The
client is not in the repository: it stops at the last page by the total, or at a
short page.

### Composites

`Cerrojos` (`Exclusion` and `Cuotas`) and `Persistencia` (`AlmacenMemoria`,
`Arranque` and `Auditoria`) put independent components side by side, each with
its own variables, and a behaviour moves only one of them (`parte`, `pieza`), so
TLC visits their state spaces one after the other. They say nothing about an
interaction; they are one specification because the question is one. Both are
parameterised like the modules they instantiate, whose assumptions on constants
(`Supuestos`) they assume; `MCCerrojos` and `MCPersistencia` only add the symmetry
and the constraint of their runs. The theorems about those components are
stated of `SpecPartes` and `SpecPiezas`.

## 3. Runs

| Run | Question | Bounds |
|---|---|---|
| `seguimiento` | Is the pool safe? | a deletion and a creation on one VMID, one worker, a queue of one, one kill, two copies per task |
| `seguimiento_vivo` | Is every task closed and announced, and does the pool implement `CicloTarea`? | one task, two workers, one kill, one shutdown, one failed database call |
| `cerrojos` | Is there one operation at a time per instance, and is the node over-committed only by RAM the code lost sight of? | instance: two power operations and a reconfiguration, one kill, ticks and calls of 5 s; node: three of two creations, an increase and a change of vCPUs, room for one of 4 units, ticks and calls of 10 s |
| `exclusion_config` | ... with calls of 10 s? (not with `PUT /config`) | one operation of each class, calls of at most 2 ticks |
| `instancias` | Do orders and permissions hit the instance they were meant for? | three requests, three VMIDs (one protected, one the API created, one free), one incident |
| `sesiones` | Does what is closed stay closed, in both stores? | two sessions, two handlers, two logins, two rotations, one fault |
| `cuenta` | Do overlapping requests leave accounts as their owners were told? | three requests of any kind, two identities, three e-mails, three attempts per code, one failed mail or call |
| `limites` | Do the limits limit, and only what counts? | three requests, two IPs, two addresses, one token, three units of time, one failed call |
| `eventos` | Is a connection without a session about to be cut, and does its place come back? | two connections of either kind, two tickets, two sessions, one place, buffers of one, one event, one fault |
| `eventos_vivo` | Is the stream complete, and does it end when it must? | one connection, three events, buffers of two and one, one fault |
| `alertas` | Is every alert announced, or known why not, and every stop decided? | two replicas, an alert after two cycles, one incident |
| `persistencia` | Is nothing lost that was kept? | migration: two users with two spellings, three quarters, two writes, one kill; store: two keys, one window, two processes, three instants; log: two organisations, three records, pages of one |

For an instance a tick is 5 s: its lock of 60 s is 12 ticks, and the longest call is
1 tick in `cerrojos` and 2 (the 10 s of the client) in `exclusion_config`. For
the node a tick is 10 s: its lock of 30 s is 3 ticks, the snapshot and a call are 1.
With up to five calls under that lock its expiry is reached, and `cerrojos` stops
there (`Corte`), as the properties of the node promise nothing afterwards; nor
does it follow behaviours in which all four requests of the node are made.

Why the bounds are enough for the questions. A queue of one is full as soon as
one task is in it, so each path of `encolar` is taken with two tasks or two
copies. Two copies are what it takes to close a row twice; `MaxCopias` only stops
the reconciler from starting a round when a task has that many copies already, and
a round in progress may still add one. Ages 0 and 1 are "within" and
"past" both limits. One kill is enough for each window between two steps, since
a start-up begins from the database alone. In `Cuotas` one request fits, so
any two of them collide, and a third can be misled by what they leave behind; one
replica per request is the worst case. In `Exclusion` the second power operation
distinguishes the lock from the row as the reason for refusal.

Two handlers in flight are what it takes to overtake a handler, and two sessions
what distinguishes "the others" from "all". Three requests on accounts are a
request and two that come between its reading and its write, or a code and two
that present it. The recovery code of the start has one wrong attempt left, so
that the limit is reached with two presentations. One place, one event in a
buffer and one unit of window make each limit bite at once; the limits of
`LimiteTasa` are below the number of requests. Incidents of different kinds
share one bound (`MaxIncidencias`, `MaxFallos`): each single fault at each
point, not each pair. Three quarters are one before, one of and one after a
start that prepares two.

Symmetry is declared only over sets of model values that no definition
distinguishes, and only in runs whose temporal properties are safety ones
(`cerrojos`, `sesiones`, `limites`, `persistencia`). Two runs have a constraint:
`cerrojos` has `Corte`, above, and `persistencia` has `ClienteEnCurso`, on the audit log alone: nothing is followed after
the client ended, and while it downloads, what its query saw has no write left
half done. `CHECK_DEADLOCK FALSE` appears where requests, tokens or instants run
out: the real system then waits for the next one.

### What the passing runs show

* `SinMarcasHuerfanas`: a mark in `enCurso` always belongs to something in the
  pool, so the reconciler never overlooks a row.
* `AuditoriaCorrelacionada`: duplicates, restarts and late answers leave one
  set of audit records per closing.
* `ResultadoReal`: what is stored or announced is what Proxmox said of that task;
  only TIMEOUT is invented, and a creation with warnings is no success.
* `TodaTareaSeCierra`, `CierreSePublicaSinCaidas`, `CumpleCiclo`.
* `SinSobreasignar`, `ReservaCubre`, `CumpleCapacidad`: while the lock outlives the
  work under it, admission control is as good as an atomic decision, but for what
  the code lost sight of. A creation keeps its reservation until Proxmox decides.
* `ExclusionMutua`, `UnaTareaRunning`: the lock hands over to the row without a
  gap.
* `OrdenSobreLoLeido`: an order meets the instance its handler read, in the state
  it validated, unless something outside the API's sight intervened.
  `ProtegidasIntactas`: protected VMIDs are changed by snapshots alone.
  `BorradoPurga`, `CreadorConserva`: permissions follow the instance although
  its VMID is reused and closures come late, and an author loses its row only to
  a replacement by an administrator or to such a closure.
* `CierreDefinitivo`: no refresh revives a session that a revocation closed.
  `CopiaCerradaConCausa`: the copy of a closed session that has not expired
  survives for three known reasons.
  `BajaRevoca`: a reported deletion left no access but what was in flight.
* `ClaveEntregada`: no account has a temporary password nobody received.
  `DesplazadoAvisado`: an address that loses its account through a token was warned.
  `CodigoAcotado`: no code is tried too often or used twice.
* `ComparacionesPorToken`, `FallidosAcotados`, `CupoConCausa`: limits hold with
  overlapping requests and store failures, and only what counts is kept.
* `CorteConCausa`, `CupoExacto`, `AvisoCorta`, `SinAccesoSeCorta`, `ApagadoCierra`:
  what a connection gets, and why it ends. `EntregaSinHuecos`: between bus and
  browser an event is lost to a full buffer or a failed query, and to nothing else.
* `ActivaAvisada`: a mark that silences an alert for 24 hours was published and
  audited, and each of the two that is missing failed itself or was cut by the end
  of its process: one failure costs one call, not both. `CaidaSeDecide`: who
  replaces the state "running" is on its way to decide about the stop. It may still
  end, or fail to take the mark, and then the stop is announced by nobody.
  `DisparoAntesQueResolucion`, `Histeresis`.
* `HistorialIntacto`, `CorreoUnico`, `ClasificacionFiel`, `TrabaConCausa`:
  the migration, interrupted anywhere. `LecturaEntera`: pages and downloads.
  `CumpleAlmacen`: the memory store behaves as Redis.

Several of these name an exception ("unless ..."). Each exception is something
the code really does, listed under "Known divergences" when a document or
comment says otherwise; the property says that there is no other.

Every property has a mutant, a plausible bug in a mapped definition, which makes
TLC find it violated.

### The violation

`exclusion_config` shows a disagreement with `exclusion_instancias.go:16` and
`docs/redis.md:74`: `PUT /config` makes up to eight calls of 10 s under a lock of
60 s, and leaves no RUNNING row. The lock expires before the order is sent, and
a power operation starts on the same instance.

### Known divergences

What else was met while modelling, where a comment or a document promises more
than the code does. The models follow the code.

* Task tracking. A copy of a task that closes late announces its own result
  (`seguimiento_tareas.go:588`). The start-up queries have their own semaphore, so
  there can be more than `Workers` of them (`:457`). A kill between the commit and
  `OnTaskFinished` loses the event (`:579`, `docs/eventos-tiempo-real.md:106`).
* Quotas. `docs/redis.md:75` keeps the lock "para impedir overbooking", and
  `cuotas_service.go:219` takes it for the same. Five ways remain. The 30 s lock is
  not renewed under up to five calls of 10 s (`cuotas_service.go:21`): a
  reservation is overwritten. A PUT that ends early for its caller, with its order
  on the way, drops snapshot and lock at once (`cuotas_service.go:253`, `:269-272`):
  the next request does not see the increase. Dropping the snapshot may fail. A
  memory increase that waits for a reboot is counted nowhere
  (`configuracion_instancias.go:34`). A vCPU-only increase stores an inventory it
  read without the lock (`cuotas_service.go:311`). The `cerrojos` run has all five.
  `MCCerrojosCorte.cfg` (`tlc -config MCCerrojosCorte.cfg MCCerrojos`) checks
  `NuncaSobreasigna`, which has no exception: TLC finds an increase and a creation
  that pass the limit although the lock held throughout and Redis answered, by
  the early end of the PUT alone.
* Instances. `FueCreadaPorCentinela` looks at the VMID alone. A deletion that
  ended with WARNINGS does not purge. A creation takes no instance lock: a deletion
  can slip in before its row exists. 502 PROXMOX_UNAVAILABLE says "la orden NO
  llegó a aplicarse" (`instance_handler.go:849`), which a connection cut after the
  delivery makes false. A rollback powers off protected infrastructure, while
  `main.go:411-413` says a snapshot does not. `AsignarPermisos` reads the
  catalogue and writes later, so a row can outlive the purge; two replacements
  at once give their union. It looks at no role, and an empty list is accepted
  (`user_service.go:274-307`): the author of an instance loses its row that way.
* Sessions. "nunca se informa una baja con el acceso todavía vivo"
  (`user_service.go:223-224`) has the exceptions `BajaRevoca` names. Logout drops
  the cookie first, so the retry of `auth_service.go:485` is impossible. A failed
  SET after a refresh leaves the previous copy. A SET that was delayed writes a copy
  with the TTL it was given before (`auth_service.go:574`). `purga_worker.go:39` ticks every
  hour whatever `intervalo` says.
* Accounts. A stale write can unlink the second factor without an administrator
  (`auth_service.go:161`). The anti-replay of codes reads and writes apart.
  `CambiarContrasena` can overwrite an administrator's reset. Codes and secrets are
  written by id alone, eliminated rows included. The document on recovery says
  15 minutes, the code 10.
* Limits. An infrastructure error, or a suspended account, on the last attempt is
  answered as TOKEN_REVOKED and revokes the session.
* Events. Buffered events are delivered after the permission is gone
  (`eventos_service.go:168-169`). An event the user may see is dropped when the
  permission cannot be read (`eventos_service.go:196-200`). Consuming the ticket of a WebSocket never looks at
  the session.
* Alerts. A failed database read counts as an explanation of the stop. The error of
  an audit record is logged and the alert stays without it
  (`audit_service.go:117-122`). The count
  expires a number of intervals after its last INCR, not after the first (`:227`).
* Database. Two quarter changes without a start block CREATE ... PARTITION OF at the
  next one. "sus datos son redundantes con legacy" (`db.go:239-240`) is false if
  the previous version wrote in the recreated table. Two replicas that migrate at
  once can lose history; two that seed at once seed twice.
* Audit. A user's record without an organisation, and an alert with no audience,
  are listed to every organisation (`audit_repository.go:112`, `:315`,
  `audit_port.go:218`). A total counted before its page can hide the oldest row.
* Memory store. Entries written by SetNX, INCR or the lock are swept only when a
  Set runs. In Redis, a window counts a member registered twice as two.

## 4. Fairness

`Seguimiento!SpecJusta` assumes that the Go scheduler runs every goroutine that is
ready (weak fairness of each worker, of each task's goroutines and timers, of the
reconciler and of the start-up sequence), that time passes, and that the service
manager starts a process that ended. `Salir` has strong fairness: a worker whose
`select` finds both `fin` and `tareasChan` ready chooses at random, so a shutdown
may be put off but not for ever. Nothing is assumed of Proxmox: a task may run
for ever and each query may fail, which is what `UpidTimeout` is for. Kills,
shutdowns and database failures are bounded, not fair: liveness speaks of what
happens once they stop.

`Eventos` assumes, per connection, that the handler that opens it, the goroutine
that reads its subscription, the loop that serves or ends it and the periodic
review of a WebSocket are scheduled. Nobody has to connect, publish or close:
those have no fairness, and the client may read or leave.

`Alertas` assumes that the tickers run and the turn expires (`Tic`), that some
replica takes it, that an evaluation under way goes on (each of its calls has a
time-out), and that a process that ended is started again. Which replica takes
the turn is not fair: `Histeresis` holds although one of them may never do.

## 5. Proofs

### SeguimientoProofs

For any tasks, workers, queue length, time-outs and numbers of failures (the
assumptions are those of `TareasAssumption` and `SeguimientoAssumption`):

* `TipoCorrecto`: `Spec => []TypeOK`. `TypeOK` alone is not inductive, because
  `GuardarCierre` stores the result its goroutine carries: the invariant
  adds `HilosCoherentes`, that a goroutine at a stage after the answer
  carries a task and a result.
* `AvisoTrasCierre`: `Spec => []PublicaTrasCerrar`. The invariant `Cierres` adds
  `CierreConfirmado`: a goroutine that is about to publish works for a closed row.
  It holds because a closed row stays closed (`CerradaEstable`) and because only
  `GuardarCierre` leads to publishing.
* `CierreUnico`: `Spec => CierreDefinitivo`, from the same facts.
* `ImplementaCiclo`: `Spec => CumpleCiclo`. Each step is a registration, a closing,
  an announcement or a stutter of `CicloTarea`; announcements need `Cierres`.
* `AuditoriaFiel`: `Spec => []AuditoriaCorrelacionada`. Inductive with the types: the
  two records of a row are written in the transactions that write the row, and a
  row closes once.
* `ResultadoDeProxmox`: `Spec => []ResultadoReal`. A result comes from an answer or
  is the time-out, and the exit status of a task that ended does not change
  (`FielEstable`).
* `MarcasConTarea`: `Spec => []SinMarcasHuerfanas`. It needs `Reposado`: before
  `Iniciar` nothing is marked, queued or waiting, so that the goroutines of the
  start-up cannot erase a mark.

### CompuestosProofs: one instance (Exclusion)

For any number of requests, reads, kills and any TTL:

* `TipoCorrecto`, with no assumption on time.
* `ElLockCubre`, `UnaSolaTarea`, `UnaSolaOperacion`: `LockCubre`,
  `UnaTareaRunning` and `ExclusionMutua`, assuming `Plazo`: the calls of a request
  (its reads, the order and, for a configuration, the second reading) times the
  longest call are less than the TTL. Power operations, deletions and snapshots
  satisfy it with the real constants (three calls of 10 s against 60 s).
  `PUT /config` does not (eight calls), which is what `exclusion_config` exhibits.

The inductive invariant `IInv` says why it works. `Turno`: who works under the
lock owns it, and the lock is no older than the calls its owner has completed
plus the age of the current one; with `Cuenta`, which bounds the calls, and
`Plazo`, the lock cannot expire. `Rastro`: nothing exists in Proxmox or in the
database before its time. `Vacante`: past the check of the database, no other
request has a RUNNING row, which is what closes the gap between lock and row.

### CompuestosProofs: the node (Cuotas)

For any finite set of requests of any classes and sizes, with any TTLs and time-outs,
and faults without a bound. No theorem here has a hypothesis beyond what the
constants are (`CuotasAssumption`):

* `TiposNodo`: `SpecPartes => []C!TypeOK`.
* `ReservaSiempre`: `SpecPartes => []ReservaCubre`.
* `NodoSinSobreasignar` and `NodoCumpleCapacidad`: `SinSobreasignar` and
  `CumpleCapacidad`.

All rest on `NodoInv`. Part of it holds always: `Huella` ties what a request did in
Proxmox to where it is, and `Cambios` says that a change of configuration which
Proxmox has not decided is waited for or lost. The rest, `Orden`, holds until a
lock expires under its holder. `Duenio`: who works under the lock owns it. Then
`ListaAlDia` holds (the list a request will write back is the one in Redis, so no
reservation is overwritten), hence `ReservaCubre`. `Caben` bounds the sum of what is
promised (reserved, on its way or done) and in sight. The decision looks at a
snapshot, so what has to be shown is that the snapshot lacks nothing of that:
`FotoCubre` for the one just read, `CacheCubre` for the one in Redis, which may
lack an increase only while its PUT is under way. Where a step of the code leaves a
snapshot that lacks something, that request is lost from sight in that very step.
`CumpleCapacidad` follows step by step: the promises change only by an admission
that fits or by some that are dropped.

`Suma` is a fold over a set, whose recursion the provers cannot follow by
induction over an operator; `SumaEsPeso` gets around it with the cardinality of the
units requested, by the theorems on finite sets and a minimal set on which the
two would differ.

### SesionesProofs

For any number of sessions, handlers, logins, rotations and faults:

* `TipoCorrecto`: `Spec => []TypeOK`, with `ConToken`, that a handler of the
  second factor carries a token.
* `CierreSinVuelta`: `Spec => CierreDefinitivo`. Of the steps that write
  `sesiones_activas` (`CambioDeFila`) only `RotarJtiAccess` touches a row it read
  earlier, and its WHERE reads it again (`CerradaEstable`).
* `CopiasConCausa` and `EliminadaRevocada`: `CopiaCerradaConCausa` and `BajaRevoca`.

The inductive invariant `IInv` says why. `Exclusiva` and `Retenidas`: one deletion
at a time, and while it holds the user's row every live session is one of those it
will close. `BorraCerradas`: what a handler is about to delete from Redis is closed
in PostgreSQL, so that no DEL takes the copy of a live session with it. `SinCopias`:
between the DEL of a deletion and its COMMIT a copy comes back only through a
replication, which is a cause. `Tardias`: a session alive on an eliminated account
was opened by a handler that had passed the check before. Two facts carry the
induction: a new copy is written only by `ReplicarSesion` (`CopiaNueva`), and a row
stops being alive only by a closing that leaves a DEL pending, by the COMMIT of a
deletion or by the purge of an expired row (`CierraFila`).

### CuentaProofs

For any number of accounts, addresses, requests, attempts and faults, with the
assumption that two accounts start with different addresses (the unique index):

* `CodigosAcotados`: `Spec => []CodigoAcotado`. `BajoBloqueo`: a request that
  presents a code holds the lock of the row, and nobody else writes its code, its
  count or its password meanwhile: the plain UPDATEs wait for the lock.
  `CodigoPropio` and `CodigoNuevo`: a code lives in one row and starts unused. With
  them `CuentaExacta` holds: the count of the row is the number of wrong
  presentations of its code.
* `ClavesEntregadas`: `Spec => []ClaveEntregada`. `PorEscribirEnviada`: who is about
  to write a temporary password has sent it.
* `DesplazadosAvisados`: `Spec => DesplazadoAvisado`. `SolicitudAvisada`,
  `TokenAvisado` and `ConfirmacionAvisada` carry the record and the warning from
  the request to the token and from the token to the confirmation. The warning
  is about the address the request started from, and the UPDATE of the
  confirmation asks for that one.

### EventosProofs

For any number of connections, tickets, sessions, events and closings and any size
of the buffers. Connections are numbered from 1, in the order of their arrival:

* `TipoCorrecto`: `Spec => []TypeOK`, in which the bounds matter: neither the buffer
  of the bus nor the channel of a stream passes its capacity.
* `StreamsSinHuecos`: `Spec => []EntregaSinHuecos`. `StreamsFieles` says of what was
  delivered, of what is in hand or in the channel, and of what the bus still
  holds, that one comes before the other, in the order of publication, and that
  nothing published since the subscription is missing but what a fault lost
  (`omitidos`) and what the user has no right to (`Vedados`). A right that was lost
  does not come back, so what was skipped for lack of it stays excused.
* `CortesConCausa`: `Spec => []CorteConCausa`, inductive with the coherence of
  connections: the notice is pending before its session is closed, and a
  subscriber gets it, or loses it with a reason.
* `CuposExactos`: `Spec => []CupoExacto`. The count is the cardinality of those that
  hold a place, so each step adds or takes away at most one of them.

`ConexionesCoherentes` says which fields go with each phase: a handler before its
subscription has nobody reading, only an event in hand makes a reader wait.

### AlertasProofs

For any number of replicas, of cycles before an alert and of incidents:

* `TipoCorrecto`: `Spec => []TypeOK`, with `Cuento`: a count that has not expired is
  younger than the cycles it takes.
* `ActivasConAviso`: `Spec => []ActivaAvisada`, by `ActivasAvisadas`, which adds that
  who goes on to audit has published or has failed to (`sinPub`).
* `ResolucionTrasDisparo`: `Spec => DisparoAntesQueResolucion`. It rests on
  `UnaEvaluacion`: while no evaluation outlived its cycle, one replica evaluates
  and the turn is taken. What it is about to resolve was published or is excused
  (`ResueltaAvisada`).
* `CaidasDecididas`: `Spec => CaidaSeDecide`, by `LecturaVigente`: between the reading
  of the last state and its replacement nobody else writes it.

The excuses are as narrow as the proofs allow: a process that ends in the middle
of one alert excuses that alert only, a failed publication excuses no missing audit
record, and a process that ends never replaces a state.

### InstanciasProofs

For any number of requests, VMIDs, names of snapshots, users of either role and
incidents:

* `PermisosPurgados`: `Spec => []BorradoPurga`.
* `AutorConPermiso`: `Spec => []CreadorConserva`. Rows are taken from an author by
  the replacement of its permissions, which `quitados` records until the row is
  written again, and by a late closure; by nothing else while the instance lives.
* `OrdenesSobreLoLeido`: `Spec => OrdenSobreLoLeido`.
* `ProtegidasASalvo`: `Spec => ProtegidasIntactas`.

The inductive invariant follows a request from its route to its closure.
`TurnoUnico`: of the requests that found an instance there one is being served,
and none while the task of another is tracked. `LecturaFiel` then holds: what a
handler read stays so, unless something the API does not track surprised it.
`TareasFieles`: the task of a VMID is about the instance that the VMID names now
and belongs to the request that asked for it, which is why the closure of a
deletion knows whom it destroyed. `SinFuturo`: no request acts on an instance that
has not been, and one whose deletion is closed as OK is gone: a permission of that
generation can only be written late. `SoloSnapshots`: nothing but snapshots is
asked of a protected instance, in flight or under way; a creation gets the least
suitable number that is free, which is never protected.

### LimiteTasaProofs

For any number of requests, addresses and failed calls and any windows and limits,
with the assumption that a temporary token lives no longer than the window of
its limit (`TTLPre2FA <= Ventana2FA`; both are five minutes in the code):

* `ComparacionesAcotadas`: `Spec => []ComparacionesPorToken`. While the session lives,
  the comparisons made plus the requests that may still make one or give their
  place back are at most the places of the window (`ComparacionesConLugar`), and
  the window holds at most its limit (`VentanasAcotadas`). No place leaves it by age
  while the session lives: that is what the assumption is for. When the session
  ends only the requests that are about to compare are left.
* `LoginsFallidosAcotados`: `Spec => []FallidosAcotados`. `LoginsConLugar`: a login that
  failed or is being tried has its place in the window of its address, and
  different logins have different places, so there are no more than places.
* `CuposConCausa`: `Spec => []CupoConCausa`, inductive with `LugaresPorIP`.

### CompuestosProofs: what is kept (Arranque, Auditoria, AlmacenMemoria)

For any users, spellings, quarters, records, organisations, page sizes, keys, values
and windows, with any number of crashes, and with `Supuestos` alone, of which
`Arranque` asks that time begin in a quarter with a fixed partition:

* `HistorialSiempre`, `CorreoSiempre`, `ClasificacionSiempre`, `TrabaSiempre`:
  `HistorialIntacto`, `CorreoUnico`, `ClasificacionFiel` and `TrabaConCausa`.
  `BaseInv` reads the migration from the statement that comes next (`paso`).
  `Esquema`: how far the audit table is. `Tablas`: a flat table next to a legacy
  one was made again, which is why the statement that drops it loses only
  records written since. `Indices`: once there are users one of the two unique
  indices is there, and what it keeps out is out. `Bajas`: a recorded deletion
  is still in force unless a later reactivation undid it or left no trace.
  `Particiones`: what the last complete start prepared was prepared for every
  record written since, so a record without a partition was written when its
  quarter was past that.
* `LecturaSiempre`: `LecturaEntera`. `Pagina` is the invariant of a client that
  pages: a record that was there when it began and that it has not met has, in the
  order of the listing, as many records before it as the pages already read hold
  (`Pendiente`). Commits in the middle only add records before it, so a page that
  does not have it leaves a full page more before it, and the last page leaves none
  (`PasoLeer`), unless the quarter changed or the total was exceeded. `Listado` says
  that what PostgreSQL answers is the set in order, with as many records before
  each as its place says; `Descarga` counts the rows of a download.
* `AlmacenSiempre`: `SpecPiezas => CumpleAlmacen`, the refinement of `AlmacenClaves`,
  command by command. `MemInv`: there is one entry of each key, expired or not.

### Model-checked only

* Liveness (`TodaTareaSeCierra`, `CierreSePublicaSinCaidas`, `AvisoCorta`,
  `SinAccesoSeCorta`, `ApagadoCierra`, `Histeresis`): fairness needs ENABLED, which
  is out of the prover's reach.

Every invariant and every safety property of a passing run is stated by a theorem.
`ExclusionMutua`, `LockCubre` and `UnaTareaRunning` alone have a hypothesis on time
(`Plazo`), and `exclusion_config` shows what happens without it. The properties of
the node have exceptions instead (`perdidas`, `vencido`), and `MCCerrojosCorte.cfg`
shows that without them the bound does not hold.

## 6. What is not modelled

* Texts, resource types and the length of the polling interval. The exponential
  backoff (`1 << (intentosFallo-1)` seconds) is listed as a numeric hazard.
* Failed listings of the reconciler: a round that fails is a round that does not
  happen.
* A commit whose answer is lost: `FallaCierre` is a transaction that did not
  commit. If it did, the row is closed and its event is missed as after a kill.
* Two replicas of the task pool, and two at `InitDB`. `Cuotas`, `Alertas` and
  `Eventos` do have replicas.
* Loss of Redis data, except in `Sesiones` (`ReiniciaRedis`).
  `docs/reservas-aprovisionamiento.md` names it as an open limit.
* In `Cuotas`, the delta of an increase is an input: the instance lock keeps
  two increases of one instance apart.
* The shared refresh of the node status (`nodo_service.go`) and the inventory
  snapshot: read paths whose errors only age a measurement.
* The bodies of handlers (validation, paging of listings, wording), the metrics,
  the storage half of the simulator, and the parsing of Proxmox's answers.
* Cryptography, references, topology, CORS, sanitising, generated documentation.

## 7. Plan

What is left, in order of what the system would lose if it were wrong.

1. Composition of `Exclusion`, `Seguimiento` and `Cuotas` through
   `OnTaskFinished`, with the residual lock at start-up under two replicas.
2. `NodoCache`: the shared refresh of the node status and its pause after failures.
3. The arithmetic of the backoff over int64, against a reference.
