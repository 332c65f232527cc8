------------------------------ MODULE Seguimiento ------------------------------
(***************************************************************************)
(* PoolSeguimiento: the worker pool that follows Proxmox tasks until they  *)
(* end and closes their rows.  Handlers, workers, timers, the reconciler   *)
(* and the start-up goroutines run concurrently; they share the bounded    *)
(* channel tareasChan and the map enCurso.  The process may be killed or   *)
(* stopped in order, and starts again from what the database holds.        *)
(***************************************************************************)
EXTENDS TareaRepository, FiniteSets

CONSTANTS
  Workers,              \* worker goroutines
  Buffer,               \* capacity of tareasChan
  MaxEdad,              \* bound: ages are 0 .. MaxEdad
  UpidTimeout,          \* age after which a worker gives a task up
  VentanaRecuperacion,  \* age after which a restart does not resume a task
  MaxCaidas,            \* bound: kills and fatal starts
  MaxReinicios,         \* bound: orderly shutdowns
  MaxFallosBD,          \* bound: failed database calls
  MaxCopias             \* bound: copies of a running task at which no round starts

ASSUME SeguimientoAssumption ==
  /\ Workers # {} /\ IsFiniteSet(Workers)
  /\ Workers \cap Tareas = {}
  /\ Buffer \in Nat \ {0}
  /\ {MaxEdad, UpidTimeout, VentanaRecuperacion} \subseteq Nat
  /\ {MaxCaidas, MaxReinicios, MaxFallosBD, MaxCopias} \subseteq Nat

VARIABLES
  proceso,       \* stage of the API process
  cola,          \* tareasChan
  enCurso,       \* the map enCurso
  hilo,          \* activity of each goroutine that queries and closes tasks
  temporizador,  \* pending AfterFunc timers of each task
  seguir,        \* requests between Crear and encolar
  reanudar,      \* tasks recuperar has still to enqueue
  recLista,      \* tasks left in the reconciler's round
  recTarea,      \* task the reconciler found untracked and is enqueueing
  lockResidual,  \* a residual instance lock could not be removed at start-up
  remoto,        \* state of each task in Proxmox
  edad,          \* age of each task
  publicados,    \* results announced by TASK_FINISHED for each task
  caidas, reinicios, fallosBD   \* how much of the bounds is spent

memoria == <<cola, enCurso, hilo, temporizador, seguir, reanudar, recLista, recTarea, lockResidual>>
gastos == <<caidas, reinicios, fallosBD>>
entorno == <<remoto, edad>>
vars == <<repoVars, proceso, memoria, entorno, publicados, gastos>>

Ninguna == 0   \* no task: identifiers are positive

(***************************************************************************)
(* Goroutines: the workers, and one goroutine per task at start-up (named  *)
(* after its task), which belongs to RecuperarYReconciliarAlArranque while *)
(* the process is reconciling and to verificarUnaVez afterwards.           *)
(***************************************************************************)
Hilos == Workers \cup Tareas
SinResultado == [estado |-> "ninguno", exitstatus |-> "null"]
Libre == [fase |-> "libre", tarea |-> Ninguna, res |-> SinResultado]
Haciendo(f, t, r) == [fase |-> f, tarea |-> t, res |-> r]
Fases == {"espera", "consulta", "guardar", "publicar", "lock"}
EstadosDeHilo ==
  {Libre} \cup [fase : Fases, tarea : Tareas, res : Resultados \cup {SinResultado}]

activo == proceso \in {"recuperando", "sirviendo"}

\* Everything in memory is gone.
SinMemoria ==
  /\ cola' = <<>>
  /\ enCurso' = {}
  /\ hilo' = [h \in Hilos |-> Libre]
  /\ temporizador' = [t \in Tareas |-> 0]
  /\ seguir' = {}
  /\ reanudar' = {}
  /\ recLista' = {}
  /\ recTarea' = Ninguna
  /\ lockResidual' = FALSE

Init ==
  /\ InitRepo
  /\ proceso = "caido"
  /\ cola = <<>>
  /\ enCurso = {}
  /\ hilo = [h \in Hilos |-> Libre]
  /\ temporizador = [t \in Tareas |-> 0]
  /\ seguir = {}
  /\ reanudar = {}
  /\ recLista = {}
  /\ recTarea = Ninguna
  /\ lockResidual = FALSE
  /\ remoto = [t \in Tareas |-> "ejecutando"]
  /\ edad = [t \in Tareas |-> 0]
  /\ publicados = [t \in Tareas |-> {}]
  /\ caidas = 0
  /\ reinicios = 0
  /\ fallosBD = 0

\* Mutant: a full queue keeps the mark, as if t were still being followed.
EncolarSinOlvidar(t) ==
  IF activo /\ Len(cola) < Buffer
  THEN /\ cola' = Append(cola, t)
       /\ enCurso' = enCurso \cup {t}
  ELSE UNCHANGED <<cola, enCurso>>

\* encolar: a send that never blocks.  When it fails it also forgets t.
Encolar(t) ==
  IF activo /\ Len(cola) < Buffer
  THEN /\ cola' = Append(cola, t)
       /\ enCurso' = enCurso \cup {t}
  ELSE /\ cola' = cola
       /\ enCurso' = enCurso \ {t}

-------------------------------------------------------------------------------
(* Proxmox and time, outside the program *)

ProxmoxTermina(t) ==
  /\ fila[t] # Ausente
  /\ remoto[t] = "ejecutando"
  /\ \E e \in ExitStatus : remoto' = [remoto EXCEPT ![t] = e]
  /\ UNCHANGED <<repoVars, proceso, memoria, edad, publicados, gastos>>

Envejecer(t) ==
  /\ fila[t] # Ausente
  /\ edad[t] < MaxEdad
  /\ edad' = [edad EXCEPT ![t] = @ + 1]
  /\ UNCHANGED <<repoVars, proceso, memoria, remoto, publicados, gastos>>

-------------------------------------------------------------------------------
(* Seguir: the row commits first, the task enters the pool afterwards *)

SeguirRegistra(t) ==
  /\ proceso \in {"sirviendo", "apagando"}
  /\ Crear(t)
  /\ seguir' = seguir \cup {t}
  /\ UNCHANGED <<proceso, cola, enCurso, hilo, temporizador, reanudar, recLista, recTarea,
                 lockResidual, entorno, publicados, gastos>>

SeguirEncola(t) ==
  /\ t \in seguir
  /\ seguir' = seguir \ {t}
  /\ Encolar(t)
  /\ UNCHANGED <<repoVars, proceso, hilo, temporizador, reanudar, recLista, recTarea,
                 lockResidual, entorno, publicados, gastos>>

-------------------------------------------------------------------------------
(* Workers and start-up goroutines: one query, then maybe a closing *)

\* worker: a closed fin does not win over a ready channel.
TomarTarea(w) ==
  /\ proceso \in {"recuperando", "sirviendo", "apagando"}
  /\ hilo[w] = Libre
  /\ cola # <<>>
  /\ hilo' = [hilo EXCEPT ![w] = Haciendo("consulta", Head(cola), SinResultado)]
  /\ cola' = Tail(cola)
  /\ UNCHANGED <<repoVars, proceso, enCurso, temporizador, seguir, reanudar, recLista, recTarea,
                 lockResidual, entorno, publicados, gastos>>

\* turnos: at most as many start-up goroutines work at once as there are workers.
TomarTurno(t) ==
  /\ hilo[t].fase = "espera"
  /\ Cardinality({u \in Tareas : hilo[u].fase \notin {"libre", "espera"}}) < Cardinality(Workers)
  /\ hilo' = [hilo EXCEPT ![t] = Haciendo("consulta", t, SinResultado)]
  /\ UNCHANGED <<repoVars, proceso, cola, enCurso, temporizador, seguir, reanudar, recLista,
                 recTarea, lockResidual, entorno, publicados, gastos>>

\* Mutant: warnings are good enough for a creation too.
ClasificarSinMirarAccion(t, e) ==
  IF e \in {"OK", "WARNINGS"} THEN Completada(e) ELSE FalloProxmox(e)

\* clasificarExitStatus: warnings are good enough except for a creation.
ClasificarExitStatus(t, e) ==
  IF e = "OK" \/ (e = "WARNINGS" /\ Accion[t] # "crear")
  THEN Completada(e) ELSE FalloProxmox(e)

\* EstadoTarea answered and the task has ended.
RespuestaTerminada(h) ==
  /\ hilo[h].fase = "consulta"
  /\ LET t == hilo[h].tarea IN
       /\ remoto[t] # "ejecutando"
       /\ hilo' = [hilo EXCEPT ![h] = Haciendo("guardar", t, ClasificarExitStatus(t, remoto[t]))]
  /\ UNCHANGED <<repoVars, proceso, cola, enCurso, temporizador, seguir, reanudar, recLista,
                 recTarea, lockResidual, entorno, publicados, gastos>>

(***************************************************************************)
(* EstadoTarea failed (which it may do whatever the task's state) or the   *)
(* task still runs.  A worker gives up past UpidTimeout and otherwise      *)
(* schedules a timer; the start-up query of an old task gives up at once;  *)
(* the reconciliation before the listener opens leaves the row alone.      *)
(***************************************************************************)
RespuestaPendiente(h) ==
  /\ hilo[h].fase = "consulta"
  /\ LET t == hilo[h].tarea IN
     \/ /\ IF h \in Workers THEN edad[t] > UpidTimeout ELSE proceso # "reconciliando"
        /\ hilo' = [hilo EXCEPT ![h] = Haciendo("guardar", t, Vencida)]
        /\ UNCHANGED temporizador
     \/ /\ h \in Workers
        /\ edad[t] <= UpidTimeout
        /\ hilo' = [hilo EXCEPT ![h] = Libre]
        /\ temporizador' = [temporizador EXCEPT ![t] = @ + 1]
     \/ /\ h \in Tareas
        /\ proceso = "reconciliando"
        /\ hilo' = [hilo EXCEPT ![h] = Libre]
        /\ UNCHANGED temporizador
  /\ UNCHANGED <<repoVars, proceso, cola, enCurso, seguir, reanudar, recLista, recTarea,
                 lockResidual, entorno, publicados, gastos>>

\* The AfterFunc of consultar.
VenceTemporizador(t) ==
  /\ temporizador[t] > 0
  /\ temporizador' = [temporizador EXCEPT ![t] = @ - 1]
  /\ Encolar(t)
  /\ UNCHANGED <<repoVars, proceso, hilo, seguir, reanudar, recLista, recTarea, lockResidual,
                 entorno, publicados, gastos>>

\* finalizar, the transaction commits (perhaps without anything to change).
GuardarCierre(h) ==
  /\ hilo[h].fase = "guardar"
  /\ ActualizarEstado(hilo[h].tarea, hilo[h].res)
  /\ hilo' = [hilo EXCEPT ![h] = [@ EXCEPT !.fase = "publicar"]]
  /\ UNCHANGED <<proceso, cola, enCurso, temporizador, seguir, reanudar, recLista, recTarea,
                 lockResidual, entorno, publicados, gastos>>

\* Mutant: the mark is deleted only when the closing succeeds.
FallaCierreConMarca(h) ==
  /\ hilo[h].fase = "guardar"
  /\ fallosBD < MaxFallosBD
  /\ fallosBD' = fallosBD + 1
  /\ hilo' = [hilo EXCEPT ![h] = Libre]
  /\ UNCHANGED <<repoVars, proceso, cola, enCurso, temporizador, seguir, reanudar, recLista,
                 recTarea, lockResidual, entorno, publicados, caidas, reinicios>>

\* finalizar, the transaction fails: the row stays RUNNING, the task leaves enCurso.
FallaCierre(h) ==
  /\ hilo[h].fase = "guardar"
  /\ fallosBD < MaxFallosBD
  /\ fallosBD' = fallosBD + 1
  /\ enCurso' = enCurso \ {hilo[h].tarea}
  /\ hilo' = [hilo EXCEPT ![h] = Libre]
  /\ UNCHANGED <<repoVars, proceso, cola, temporizador, seguir, reanudar, recLista, recTarea,
                 lockResidual, entorno, publicados, caidas, reinicios>>

\* finalizar, OnTaskFinished and the deferred delete; at start-up the lock follows.
Publicar(h) ==
  /\ hilo[h].fase = "publicar"
  /\ publicados' = [publicados EXCEPT ![hilo[h].tarea] = @ \cup {hilo[h].res}]
  /\ enCurso' = enCurso \ {hilo[h].tarea}
  /\ hilo' = [hilo EXCEPT ![h] = IF proceso = "reconciliando"
                                 THEN [@ EXCEPT !.fase = "lock"] ELSE Libre]
  /\ UNCHANGED <<repoVars, proceso, cola, temporizador, seguir, reanudar, recLista, recTarea,
                 lockResidual, entorno, gastos>>

\* eliminarLockResidualAlArranque: all its attempts fail, or one succeeds.
EliminarLockResidual(t) ==
  /\ hilo[t].fase = "lock"
  /\ hilo' = [hilo EXCEPT ![t] = Libre]
  /\ lockResidual' \in IF caidas < MaxCaidas THEN {lockResidual, TRUE} ELSE {lockResidual}
  /\ UNCHANGED <<repoVars, proceso, cola, enCurso, temporizador, seguir, reanudar, recLista,
                 recTarea, entorno, publicados, gastos>>

-------------------------------------------------------------------------------
(* The reconciler: reads the database, then for each row reads enCurso,    *)
(* lets go of the mutex, and enqueues in a second critical section.  As    *)
(* with the workers, a closed fin does not win over a ready ticker.        *)

Copias(t) ==
  Cardinality({i \in DOMAIN cola : cola[i] = t})
    + Cardinality({h \in Hilos : hilo[h].tarea = t}) + temporizador[t]

ReconciliarLista ==
  /\ proceso \in {"sirviendo", "apagando"}
  /\ recLista = {} /\ recTarea = Ninguna
  /\ \A t \in ListarEnCurso : Copias(t) < MaxCopias
  /\ recLista' = ListarEnCurso
  /\ UNCHANGED <<repoVars, proceso, cola, enCurso, hilo, temporizador, seguir, reanudar, recTarea,
                 lockResidual, entorno, publicados, gastos>>

ReconciliarMira ==
  /\ recTarea = Ninguna
  /\ \E t \in recLista :
       /\ \A u \in recLista : t <= u
       /\ IF t \in enCurso
          THEN recLista' = recLista \ {t} /\ UNCHANGED recTarea
          ELSE recTarea' = t /\ UNCHANGED recLista
  /\ UNCHANGED <<repoVars, proceso, cola, enCurso, hilo, temporizador, seguir, reanudar,
                 lockResidual, entorno, publicados, gastos>>

ReconciliarEncola ==
  /\ recTarea # Ninguna
  /\ Encolar(recTarea)
  /\ recTarea' = Ninguna
  /\ recLista' = IF activo /\ Len(cola) < Buffer THEN recLista \ {recTarea} ELSE {}
  /\ UNCHANGED <<repoVars, proceso, hilo, temporizador, seguir, reanudar, lockResidual, entorno,
                 publicados, gastos>>

-------------------------------------------------------------------------------
(* Start-up, shutdown and crash *)

\* main: RecuperarYReconciliarAlArranque lists the RUNNING rows (or cannot).
Arrancar ==
  /\ proceso = "caido"
  /\ proceso' = "reconciliando"
  /\ \/ /\ hilo' = [h \in Hilos |-> IF h \in ListarEnCurso
                                    THEN Haciendo("espera", h, SinResultado) ELSE Libre]
        /\ UNCHANGED fallosBD
     \/ /\ fallosBD < MaxFallosBD
        /\ fallosBD' = fallosBD + 1
        /\ UNCHANGED hilo
  /\ UNCHANGED <<repoVars, cola, enCurso, temporizador, seguir, reanudar, recLista, recTarea,
                 lockResidual, entorno, publicados, caidas, reinicios>>

Reconciliado == proceso = "reconciliando" /\ \A t \in Tareas : hilo[t] = Libre

\* main: a residual lock that could not be removed is fatal.
Abortar ==
  /\ Reconciliado /\ lockResidual
  /\ proceso' = "caido"
  /\ caidas' = caidas + 1
  /\ SinMemoria
  /\ UNCHANGED <<repoVars, entorno, publicados, reinicios, fallosBD>>

\* Iniciar: the pool is active and recuperar splits the RUNNING rows by age.
Iniciar ==
  /\ Reconciliado /\ ~lockResidual
  /\ proceso' = "recuperando"
  /\ \/ LET viejas == {t \in ListarEnCurso : edad[t] > VentanaRecuperacion} IN
        /\ enCurso' = enCurso \cup viejas
        /\ hilo' = [h \in Hilos |-> IF h \in viejas
                                    THEN Haciendo("espera", h, SinResultado) ELSE hilo[h]]
        /\ reanudar' = ListarEnCurso \ viejas
        /\ UNCHANGED fallosBD
     \/ /\ fallosBD < MaxFallosBD
        /\ fallosBD' = fallosBD + 1
        /\ UNCHANGED <<enCurso, hilo, reanudar>>
  /\ UNCHANGED <<repoVars, cola, temporizador, seguir, recLista, recTarea, lockResidual, entorno,
                 publicados, caidas, reinicios>>

Reanudar(t) ==
  /\ proceso = "recuperando"
  /\ t \in reanudar
  /\ reanudar' = reanudar \ {t}
  /\ Encolar(t)
  /\ UNCHANGED <<repoVars, proceso, hilo, temporizador, seguir, recLista, recTarea, lockResidual,
                 entorno, publicados, gastos>>

\* recuperar is done: the reconciler starts and the listener opens.
Servir ==
  /\ proceso = "recuperando"
  /\ reanudar = {}
  /\ proceso' = "sirviendo"
  /\ UNCHANGED <<repoVars, memoria, entorno, publicados, gastos>>

\* SIGTERM: ctx is cancelled, activo becomes false and fin is closed.
Apagar ==
  /\ proceso = "sirviendo"
  /\ reinicios < MaxReinicios
  /\ reinicios' = reinicios + 1
  /\ proceso' = "apagando"
  /\ UNCHANGED <<repoVars, memoria, entorno, publicados, caidas, fallosBD>>

\* Mutant: main ends without Esperar.
SalirSinEsperar ==
  /\ proceso = "apagando"
  /\ seguir = {}
  /\ proceso' = "caido"
  /\ SinMemoria
  /\ UNCHANGED <<repoVars, entorno, publicados, gastos>>

\* main ends after Shutdown and Esperar: no request, goroutine or round is left.
Salir ==
  /\ proceso = "apagando"
  /\ \A h \in Hilos : hilo[h] = Libre
  /\ seguir = {} /\ recLista = {} /\ recTarea = Ninguna
  /\ proceso' = "caido"
  /\ SinMemoria
  /\ UNCHANGED <<repoVars, entorno, publicados, gastos>>

\* kill -9, a power cut, or Esperar running out of time.
Caer ==
  /\ proceso # "caido"
  /\ caidas < MaxCaidas
  /\ caidas' = caidas + 1
  /\ proceso' = "caido"
  /\ SinMemoria
  /\ UNCHANGED <<repoVars, entorno, publicados, reinicios, fallosBD>>

-------------------------------------------------------------------------------
Arranque == Arrancar \/ Abortar \/ Iniciar \/ Servir
Reconciliar == ReconciliarLista \/ ReconciliarMira \/ ReconciliarEncola
PasoDeTarea(t) ==
  \/ SeguirEncola(t) \/ VenceTemporizador(t) \/ Reanudar(t)
  \/ TomarTurno(t) \/ EliminarLockResidual(t)
PasoDeHilo(h) ==
  RespuestaTerminada(h) \/ RespuestaPendiente(h) \/ GuardarCierre(h) \/ Publicar(h)

Next ==
  \/ Arranque \/ Apagar \/ Salir \/ Caer
  \/ Reconciliar
  \/ \E t \in Tareas : SeguirRegistra(t) \/ PasoDeTarea(t) \/ ProxmoxTermina(t) \/ Envejecer(t)
  \/ \E w \in Workers : TomarTarea(w)
  \/ \E h \in Hilos : PasoDeHilo(h) \/ FallaCierre(h)

Spec == Init /\ [][Next]_vars

(***************************************************************************)
(* The Go scheduler runs every goroutine that is ready, timers fire, time  *)
(* passes and the service manager starts the process again.  A select with *)
(* fin closed and other work ready chooses at random, so a shutdown ends   *)
(* (strong fairness).  Nothing is assumed of Proxmox: a task may run       *)
(* forever and every query may fail.                                       *)
(***************************************************************************)
Justicia ==
  /\ WF_vars(Arranque) /\ SF_vars(Salir)
  /\ WF_vars(Reconciliar)
  /\ \A t \in Tareas : WF_vars(PasoDeTarea(t)) /\ WF_vars(Envejecer(t))
  /\ \A w \in Workers : WF_vars(TomarTarea(w))
  /\ \A h \in Hilos : WF_vars(PasoDeHilo(h))

SpecJusta == Spec /\ Justicia

-------------------------------------------------------------------------------
(* Properties *)

\* Every variable stays in its range.
TypeOK ==
  /\ TypeOKRepo
  /\ proceso \in {"caido", "reconciliando", "recuperando", "sirviendo", "apagando"}
  /\ cola \in Seq(Tareas)
  /\ enCurso \subseteq Tareas
  /\ hilo \in [Hilos -> EstadosDeHilo]
  /\ temporizador \in [Tareas -> Nat]
  /\ seguir \subseteq Tareas /\ reanudar \subseteq Tareas /\ recLista \subseteq Tareas
  /\ recTarea \in Tareas \cup {Ninguna}
  /\ lockResidual \in BOOLEAN
  /\ remoto \in [Tareas -> {"ejecutando"} \cup ExitStatus]
  /\ edad \in [Tareas -> Nat]
  /\ publicados \in [Tareas -> SUBSET Resultados]
  /\ caidas \in Nat /\ reinicios \in Nat /\ fallosBD \in Nat

EnElPool(t) ==
  \/ \E i \in DOMAIN cola : cola[i] = t
  \/ \E h \in Hilos : hilo[h].tarea = t
  \/ temporizador[t] > 0

(***************************************************************************)
(* A task marked in enCurso is really somewhere in the pool.  A mark left  *)
(* behind would hide a RUNNING row from the reconciler for as long as the  *)
(* process lives: the deletes in encolar and finalizar are there for this, *)
(* also when several copies of a task are around.                          *)
(***************************************************************************)
SinMarcasHuerfanas == \A t \in enCurso : EnElPool(t)

\* A worker that comes late (a duplicate, a stale copy of the list) never
\* changes the outcome another one confirmed (tarea_repository.go:56).
CierreDefinitivo == [][\A t \in Tareas : Cerrada(t) => fila'[t] = fila[t]]_fila

(***************************************************************************)
(* Each row has exactly its dispatch record, and one closing record that   *)
(* agrees with the way it was closed, however many workers, restarts and   *)
(* failed transactions took part; a purge is recorded with the closing.    *)
(***************************************************************************)
AuditoriaCorrelacionada == \A t \in Tareas :
  auditoria[t] = CASE fila[t] = Ausente -> <<>>
                   [] fila[t] = EnCursoBD -> <<"PENDIENTE">>
                   [] OTHER -> <<"PENDIENTE">> \o RegistrosDeCierre(t, fila[t])

(***************************************************************************)
(* What Proxmox said is what is stored and announced: an exit status in    *)
(* the row, in flight or in an event is the one Proxmox ended that very    *)
(* task with, it is COMPLETED only if Proxmox reported no error, and a     *)
(* creation only if it reported OK (RF-07); only a TIMEOUT is invented.    *)
(***************************************************************************)
ResultadoReal == \A t \in Tareas :
  \A r \in {fila[t]} \cup publicados[t] \cup {hilo[h].res : h \in {g \in Hilos : hilo[g].tarea = t}} :
    /\ r.exitstatus \in {"null", remoto[t]}
    /\ r.estado = "COMPLETED" =>
         remoto[t] = "OK" \/ (remoto[t] = "WARNINGS" /\ Accion[t] # "crear")

\* TASK_FINISHED goes out only for a row whose closing and audit committed
\* (seguimiento_tareas.go:588), also when the first attempts to close fail.
PublicaTrasCerrar == \A t \in Tareas : publicados[t] # {} => Cerrada(t)

(***************************************************************************)
(* No task hangs: a RUNNING row is closed in the end, whether or not       *)
(* Proxmox ever answers, after crashes, full queues and failed             *)
(* transactions (docs/eventos-tiempo-real.md:106).                         *)
(***************************************************************************)
TodaTareaSeCierra == \A t \in Tareas : fila[t].estado = "RUNNING" ~> Cerrada(t)

\* The same of a process that is only ever stopped in order: shutdown waits
\* for the goroutine between the commit and OnTaskFinished.
CierreSePublicaSinCaidas ==
  \A t \in Tareas : Cerrada(t) ~> publicados[t] # {} \/ caidas > 0

(***************************************************************************)
(* The pool implements the life cycle a client relies on.                  *)
(***************************************************************************)
Ciclo == INSTANCE CicloTarea WITH
  estado <- [t \in Tareas |-> fila[t].estado],
  avisadas <- {t \in Tareas : publicados[t] # {}}

CumpleCiclo == Ciclo!CicloSpec
===============================================================================
