--------------------------- MODULE SeguimientoProofs ---------------------------
(***************************************************************************)
(* What holds of the tracking pool for every number of tasks, workers and  *)
(* places in the queue, however often it is killed or stopped.             *)
(***************************************************************************)
EXTENDS Seguimiento, TLAPS

(***************************************************************************)
(* The activity of a goroutine is well formed: what it is about to save or *)
(* announce is a result, and a goroutine that waits for its turn is the    *)
(* one named after its task.                                               *)
(***************************************************************************)
HilosCoherentes == \A h \in Hilos :
  /\ hilo[h].fase \in {"guardar", "publicar", "lock"} => hilo[h].res \in Resultados
  /\ hilo[h].fase = "espera" => hilo[h].tarea = h

Tipos == TypeOK /\ HilosCoherentes

USE DEF activo, Ninguna, memoria, entorno, gastos, repoVars

-------------------------------------------------------------------------------
(* Lemmas about the operators the actions are built from *)

\* Encolar keeps the queue and the marks well typed (encolar).
LEMMA EncolarTipo ==
  ASSUME TypeOK, NEW t \in Tareas, Encolar(t)
  PROVE  cola' \in Seq(Tareas) /\ enCurso' \in SUBSET Tareas
<1>1. cola \in Seq(Tareas) /\ enCurso \in SUBSET Tareas
  BY DEF TypeOK
<1>2. CASE activo /\ Len(cola) < Buffer
  BY <1>1, <1>2 DEF Encolar
<1>3. CASE ~(activo /\ Len(cola) < Buffer)
  BY <1>1, <1>3 DEF Encolar
<1>4. QED BY <1>2, <1>3

\* A goroutine that is not idle works on a task (hilo).
LEMMA HiloOcupado ==
  ASSUME TypeOK, NEW h \in Hilos, hilo[h].fase # "libre"
  PROVE  hilo[h] \in [fase : Fases, tarea : Tareas, res : Resultados \cup {SinResultado}]
BY DEF TypeOK, EstadosDeHilo, Libre

\* A state change of one goroutine keeps hilo well typed.
LEMMA HiloTipo ==
  ASSUME TypeOK, NEW h \in Hilos, NEW e \in EstadosDeHilo,
         hilo' = [hilo EXCEPT ![h] = e]
  PROVE  hilo' \in [Hilos -> EstadosDeHilo]
BY DEF TypeOK

\* What a worker or the recovery is doing is a state of a thread.
LEMMA HaciendoTipo ==
  ASSUME NEW f \in Fases, NEW t \in Tareas, NEW r \in Resultados \cup {SinResultado}
  PROVE  Haciendo(f, t, r) \in EstadosDeHilo
BY DEF Haciendo, EstadosDeHilo

\* An idle thread is one too.
LEMMA LibreTipo == Libre \in EstadosDeHilo
BY DEF EstadosDeHilo

\* A classified exit status is one of the outcomes (clasificarExitStatus).
LEMMA ClasificarTipo ==
  ASSUME NEW t, NEW e \in ExitStatus
  PROVE  ClasificarExitStatus(t, e) \in Resultados
BY DEF ClasificarExitStatus, Resultados, ExitStatus

\* The outcome of a task past UpidTimeout is one of the outcomes (vencida).
LEMMA VencidaTipo == Vencida \in Resultados
BY DEF Resultados

\* After a crash the memory is well typed.
LEMMA SinMemoriaTipo ==
  ASSUME SinMemoria
  PROVE  /\ cola' \in Seq(Tareas) /\ enCurso' = {}
         /\ hilo' \in [Hilos -> EstadosDeHilo]
         /\ \A h \in Hilos : hilo'[h] = Libre
         /\ temporizador' \in [Tareas -> Nat]
         /\ seguir' \subseteq Tareas /\ reanudar' \subseteq Tareas /\ recLista' \subseteq Tareas
         /\ recTarea' = Ninguna /\ lockResidual' \in BOOLEAN
<1>1. hilo' \in [Hilos -> EstadosDeHilo] /\ \A h \in Hilos : hilo'[h] = Libre
  BY LibreTipo, Zenon DEF SinMemoria
<1>2. temporizador' \in [Tareas -> Nat]
  BY DEF SinMemoria
<1>3. cola' \in Seq(Tareas)
  BY DEF SinMemoria
<1>4. QED BY <1>1, <1>2, <1>3 DEF SinMemoria

\* ActualizarEstado keeps the tables well typed.
LEMMA ActualizarTipo ==
  ASSUME TypeOKRepo, NEW t \in Tareas, NEW r \in Resultados, ActualizarEstado(t, r)
  PROVE  TypeOKRepo'
<1>1. RegistrosDeCierre(t, r) \in Seq({"PENDIENTE", "PURGA", "EXITO", "FALLA"})
  <2> DEFINE S == {"PENDIENTE", "PURGA", "EXITO", "FALLA"}
             purga == IF DebePurgarPermisosDestruccion(t, r) THEN <<"PURGA">> ELSE <<>>
  <2>1. <<ResultadoAuditoria(t, r)>> \in Seq(S)
    BY DEF ResultadoAuditoria
  <2>2. purga \in Seq(S)
    <3>1. <<"PURGA">> \in Seq(S) /\ <<>> \in Seq(S)
      OBVIOUS
    <3>2. QED BY <3>1, Zenon
  <2>3. RegistrosDeCierre(t, r) = purga \o <<ResultadoAuditoria(t, r)>>
    BY DEF RegistrosDeCierre
  <2> HIDE DEF purga, S
  <2>4. RegistrosDeCierre(t, r) \in Seq(S)
    BY <2>1, <2>2, <2>3
  <2>5. QED BY <2>4 DEF S
<1>2. <<Creador[t], VmidDe[t]>> \in Usuarios \X Vmids
  BY TareasAssumption
<1>3. CASE UNCHANGED repoVars
  BY <1>3 DEF TypeOKRepo
<1>4. CASE fila[t].estado = "RUNNING" /\ ~UNCHANGED repoVars
  <2>1. fila' \in [Tareas -> {Ausente, EnCursoBD} \cup Resultados]
    BY <1>4 DEF ActualizarEstado, TypeOKRepo
  <2>2. auditoria' \in [Tareas -> Seq({"PENDIENTE", "PURGA", "EXITO", "FALLA"})]
    <3> DEFINE S == Seq({"PENDIENTE", "PURGA", "EXITO", "FALLA"})
    <3>1. auditoria \in [Tareas -> S] /\ auditoria[t] \in S
      BY DEF TypeOKRepo
    <3>2. auditoria[t] \o RegistrosDeCierre(t, r) \in S
      BY <1>1, <3>1
    <3>3. auditoria' = [auditoria EXCEPT ![t] = auditoria[t] \o RegistrosDeCierre(t, r)]
      BY <1>4 DEF ActualizarEstado
    <3> HIDE DEF S
    <3>4. auditoria' \in [Tareas -> S]
      BY <3>1, <3>2, <3>3
    <3>5. QED BY <3>4 DEF S
  <2>3. permisos' \subseteq Usuarios \X Vmids
    BY <1>2, <1>4, Zenon DEF ActualizarEstado, TypeOKRepo
  <2>4. QED BY <2>1, <2>2, <2>3 DEF TypeOKRepo
<1>5. QED BY <1>3, <1>4 DEF ActualizarEstado

-------------------------------------------------------------------------------
(* Type correctness *)

\* The first start-up is well typed: no rows, an empty queue, idle threads.
LEMMA TiposInicial == Init => Tipos
<1> SUFFICES ASSUME Init PROVE Tipos
  OBVIOUS
<1>1. TypeOKRepo
  BY DEF Init, InitRepo, TypeOKRepo
<1>2. hilo \in [Hilos -> EstadosDeHilo] /\ HilosCoherentes
  BY LibreTipo, Zenon DEF Init, HilosCoherentes, Libre
<1>3. cola \in Seq(Tareas) /\ temporizador \in [Tareas -> Nat] /\ edad \in [Tareas -> Nat]
  BY DEF Init
<1>4. remoto \in [Tareas -> {"ejecutando"} \cup ExitStatus]
      /\ publicados \in [Tareas -> SUBSET Resultados]
  BY Zenon DEF Init
<1>5. caidas \in Nat /\ reinicios \in Nat /\ fallosBD \in Nat /\ recTarea \in Tareas \cup {Ninguna}
  BY DEF Init
<1>6. proceso \in {"caido", "reconciliando", "recuperando", "sirviendo", "apagando"}
      /\ lockResidual \in BOOLEAN
      /\ enCurso \subseteq Tareas /\ seguir \subseteq Tareas /\ reanudar \subseteq Tareas
      /\ recLista \subseteq Tareas
  BY DEF Init
<1>7. QED
  BY <1>1, <1>2, <1>3, <1>4, <1>5, <1>6, Zenon DEF TypeOK, Tipos

\* Steps of the environment and of Seguir, which touch no goroutine.
LEMMA TiposSinHilo ==
  ASSUME Tipos, NEW t \in Tareas,
         \/ ProxmoxTermina(t) \/ Envejecer(t) \/ SeguirRegistra(t) \/ SeguirEncola(t)
         \/ VenceTemporizador(t) \/ Reanudar(t)
  PROVE  Tipos'
<1> USE DEF Tipos
<1>0. hilo' = hilo
  BY DEF ProxmoxTermina, Envejecer, SeguirRegistra, SeguirEncola, VenceTemporizador, Reanudar
<1>1. HilosCoherentes'
  BY <1>0 DEF HilosCoherentes
<1>2. CASE ProxmoxTermina(t)
  BY <1>1, <1>2 DEF ProxmoxTermina, TypeOK, TypeOKRepo
<1>3. CASE Envejecer(t)
  BY <1>1, <1>3 DEF Envejecer, TypeOK, TypeOKRepo
<1>4. CASE SeguirRegistra(t)
  <2>1. fila' \in [Tareas -> {Ausente, EnCursoBD} \cup Resultados]
    BY <1>4 DEF SeguirRegistra, Crear, TypeOK, TypeOKRepo
  <2>2. auditoria' \in [Tareas -> Seq({"PENDIENTE", "PURGA", "EXITO", "FALLA"})]
    <3>1. <<"PENDIENTE">> \in Seq({"PENDIENTE", "PURGA", "EXITO", "FALLA"})
      OBVIOUS
    <3>2. QED BY <1>4, <3>1, Zenon DEF SeguirRegistra, Crear, TypeOK, TypeOKRepo
  <2>3. QED BY <1>1, <1>4, <2>1, <2>2 DEF SeguirRegistra, Crear, TypeOK, TypeOKRepo
<1>5. CASE SeguirEncola(t)
  BY <1>1, <1>5, EncolarTipo DEF SeguirEncola, TypeOK, TypeOKRepo
<1>6. CASE VenceTemporizador(t)
  <2>1. temporizador' \in [Tareas -> Nat]
    BY <1>6 DEF VenceTemporizador, TypeOK
  <2>2. QED BY <1>1, <1>6, <2>1, EncolarTipo DEF VenceTemporizador, TypeOK, TypeOKRepo
<1>7. CASE Reanudar(t)
  BY <1>1, <1>7, EncolarTipo DEF Reanudar, TypeOK, TypeOKRepo
<1>8. QED BY <1>2, <1>3, <1>4, <1>5, <1>6, <1>7

\* Steps of the workers and of the goroutines of start-up.
LEMMA TiposDeHilo ==
  ASSUME Tipos, NEW h \in Hilos,
         \/ h \in Workers /\ TomarTarea(h)
         \/ h \in Tareas /\ (TomarTurno(h) \/ EliminarLockResidual(h))
         \/ RespuestaTerminada(h) \/ RespuestaPendiente(h)
         \/ GuardarCierre(h) \/ FallaCierre(h) \/ Publicar(h)
  PROVE  Tipos'
<1> USE DEF Tipos
<1>1. CASE h \in Workers /\ TomarTarea(h)
  <2> DEFINE e == Haciendo("consulta", Head(cola), SinResultado)
  <2>1. Head(cola) \in Tareas /\ cola' \in Seq(Tareas)
    BY <1>1 DEF TomarTarea, TypeOK
  <2>2. e \in EstadosDeHilo
    BY <2>1, HaciendoTipo DEF Fases
  <2>3. hilo' = [hilo EXCEPT ![h] = e]
    BY <1>1 DEF TomarTarea
  <2>4. HilosCoherentes'
    BY <2>3 DEF HilosCoherentes, TypeOK, Haciendo
  <2>5. hilo' \in [Hilos -> EstadosDeHilo]
    BY <2>2, <2>3, HiloTipo
  <2>6. QED BY <1>1, <2>1, <2>4, <2>5 DEF TomarTarea, TypeOK, TypeOKRepo
<1>2. CASE h \in Tareas /\ TomarTurno(h)
  <2> DEFINE e == Haciendo("consulta", h, SinResultado)
  <2>1. e \in EstadosDeHilo
    BY <1>2, HaciendoTipo DEF Fases
  <2>2. hilo' = [hilo EXCEPT ![h] = e]
    BY <1>2 DEF TomarTurno
  <2>3. HilosCoherentes'
    BY <2>2 DEF HilosCoherentes, TypeOK, Haciendo
  <2>4. hilo' \in [Hilos -> EstadosDeHilo]
    BY <2>1, <2>2, HiloTipo
  <2>5. QED BY <1>2, <2>3, <2>4 DEF TomarTurno, TypeOK, TypeOKRepo
<1>3. CASE h \in Tareas /\ EliminarLockResidual(h)
  <2>1. hilo' = [hilo EXCEPT ![h] = Libre]
    BY <1>3 DEF EliminarLockResidual
  <2>2. HilosCoherentes'
    BY <2>1 DEF HilosCoherentes, TypeOK, Libre
  <2>3. hilo' \in [Hilos -> EstadosDeHilo]
    BY <2>1, HiloTipo, LibreTipo
  <2>4. lockResidual' \in BOOLEAN
    BY <1>3 DEF EliminarLockResidual, TypeOK
  <2>5. QED BY <1>3, <2>2, <2>3, <2>4 DEF EliminarLockResidual, TypeOK, TypeOKRepo
<1>4. CASE RespuestaTerminada(h)
  <2> DEFINE t == hilo[h].tarea
             r == ClasificarExitStatus(t, remoto[t])
             e == Haciendo("guardar", t, r)
  <2>1. t \in Tareas
    BY <1>4, HiloOcupado DEF RespuestaTerminada
  <2>2. remoto[t] \in ExitStatus
    BY <1>4, <2>1 DEF RespuestaTerminada, TypeOK
  <2>3. r \in Resultados
    BY <2>2, ClasificarTipo
  <2>4. hilo' = [hilo EXCEPT ![h] = e]
    BY <1>4 DEF RespuestaTerminada
  <2> HIDE DEF t, r
  <2>5. e \in EstadosDeHilo
    BY <2>1, <2>3, HaciendoTipo DEF Fases
  <2>6. HilosCoherentes'
    BY <2>3, <2>4 DEF HilosCoherentes, TypeOK, Haciendo
  <2>7. hilo' \in [Hilos -> EstadosDeHilo]
    BY <2>4, <2>5, HiloTipo
  <2>8. QED BY <1>4, <2>6, <2>7 DEF RespuestaTerminada, TypeOK, TypeOKRepo
<1>5. CASE RespuestaPendiente(h)
  <2> DEFINE t == hilo[h].tarea
             e == Haciendo("guardar", t, Vencida)
  <2>1. t \in Tareas
    BY <1>5, HiloOcupado DEF RespuestaPendiente
  <2>2. hilo' = [hilo EXCEPT ![h] = e] \/ hilo' = [hilo EXCEPT ![h] = Libre]
    BY <1>5, Zenon DEF RespuestaPendiente
  <2>3. temporizador' = temporizador \/ temporizador' = [temporizador EXCEPT ![t] = @ + 1]
    BY <1>5, Zenon DEF RespuestaPendiente
  <2> HIDE DEF t
  <2>4. e \in EstadosDeHilo
    BY <2>1, VencidaTipo, HaciendoTipo DEF Fases
  <2>5. HilosCoherentes'
    <3>1. e.fase = "guardar" /\ e.res \in Resultados
      BY VencidaTipo DEF Haciendo
    <3>2. Libre.fase = "libre"
      BY DEF Libre
    <3> HIDE DEF e
    <3>3. CASE hilo' = [hilo EXCEPT ![h] = e]
      BY <3>1, <3>3 DEF HilosCoherentes, TypeOK
    <3>4. CASE hilo' = [hilo EXCEPT ![h] = Libre]
      BY <3>2, <3>4 DEF HilosCoherentes, TypeOK
    <3>5. QED BY <2>2, <3>3, <3>4
  <2>6. hilo' \in [Hilos -> EstadosDeHilo]
    BY <2>2, <2>4, HiloTipo, LibreTipo
  <2>7. temporizador' \in [Tareas -> Nat]
    <3>1. temporizador \in [Tareas -> Nat]
      BY DEF TypeOK
    <3>2. temporizador[t] + 1 \in Nat
      BY <2>1, <3>1
    <3>3. QED BY <2>1, <2>3, <3>1, <3>2
  <2>8. UNCHANGED <<repoVars, proceso, cola, enCurso, seguir, reanudar, recLista, recTarea,
                    lockResidual, entorno, publicados, gastos>>
    BY <1>5, Zenon DEF RespuestaPendiente
  <2>9. QED BY <2>5, <2>6, <2>7, <2>8 DEF TypeOK, TypeOKRepo
<1>6. CASE GuardarCierre(h)
  <2> DEFINE e == [hilo[h] EXCEPT !.fase = "publicar"]
  <2>1. hilo[h].tarea \in Tareas /\ hilo[h].res \in Resultados
    BY <1>6, HiloOcupado DEF GuardarCierre, HilosCoherentes
  <2>2. e \in EstadosDeHilo /\ e.res = hilo[h].res /\ e.fase = "publicar"
    BY <1>6, HiloOcupado DEF GuardarCierre, EstadosDeHilo, Fases
  <2>3. hilo' = [hilo EXCEPT ![h] = e]
    BY <1>6 DEF GuardarCierre
  <2> HIDE DEF e
  <2>4. HilosCoherentes'
    BY <2>1, <2>2, <2>3 DEF HilosCoherentes, TypeOK
  <2>5. hilo' \in [Hilos -> EstadosDeHilo]
    BY <2>2, <2>3, HiloTipo
  <2>6. TypeOKRepo'
    BY <1>6, <2>1, ActualizarTipo DEF GuardarCierre, TypeOK
  <2>7. QED BY <1>6, <2>4, <2>5, <2>6 DEF GuardarCierre, TypeOK
<1>7. CASE FallaCierre(h)
  <2>1. hilo' = [hilo EXCEPT ![h] = Libre]
    BY <1>7 DEF FallaCierre
  <2>2. HilosCoherentes'
    BY <2>1 DEF HilosCoherentes, TypeOK, Libre
  <2>3. hilo' \in [Hilos -> EstadosDeHilo]
    BY <2>1, HiloTipo, LibreTipo
  <2>4. fallosBD' \in Nat
    BY <1>7 DEF FallaCierre, TypeOK
  <2>5. QED BY <1>7, <2>2, <2>3, <2>4 DEF FallaCierre, TypeOK, TypeOKRepo
<1>8. CASE Publicar(h)
  <2> DEFINE e == IF proceso = "reconciliando" THEN [hilo[h] EXCEPT !.fase = "lock"] ELSE Libre
  <2>1. hilo[h].tarea \in Tareas /\ hilo[h].res \in Resultados
    BY <1>8, HiloOcupado DEF Publicar, HilosCoherentes
  <2>2. e \in EstadosDeHilo /\ (e = Libre \/ (e.res = hilo[h].res /\ e.fase = "lock"))
    BY <1>8, HiloOcupado DEF Publicar, EstadosDeHilo, Fases
  <2>3. hilo' = [hilo EXCEPT ![h] = e]
    BY <1>8 DEF Publicar
  <2> HIDE DEF e
  <2>4. HilosCoherentes'
    BY <2>1, <2>2, <2>3 DEF HilosCoherentes, TypeOK, Libre
  <2>5. hilo' \in [Hilos -> EstadosDeHilo]
    BY <2>2, <2>3, HiloTipo
  <2>6. publicados' \in [Tareas -> SUBSET Resultados]
    BY <1>8, <2>1 DEF Publicar, TypeOK
  <2>7. QED BY <1>8, <2>4, <2>5, <2>6 DEF Publicar, TypeOK, TypeOKRepo
<1>9. QED BY <1>1, <1>2, <1>3, <1>4, <1>5, <1>6, <1>7, <1>8

\* Steps of the reconciler and of the process as a whole.
LEMMA TiposDeProceso ==
  ASSUME Tipos, Arranque \/ Apagar \/ Salir \/ Caer \/ Reconciliar
  PROVE  Tipos'
<1> USE DEF Tipos
<1>1. CASE Apagar \/ Servir
  BY <1>1 DEF Apagar, Servir, TypeOK, TypeOKRepo, HilosCoherentes
<1>2. CASE SinMemoria /\ (Abortar \/ Salir \/ Caer)
  <2>1. HilosCoherentes'
    <3>1. Libre.fase = "libre"
      BY DEF Libre
    <3>2. QED BY <1>2, <3>1, SinMemoriaTipo DEF HilosCoherentes
  <2>2. UNCHANGED <<repoVars, entorno, publicados>> /\ fallosBD' = fallosBD
    BY <1>2 DEF Abortar, Salir, Caer
  <2>3. caidas' \in Nat /\ reinicios' \in Nat /\ proceso' = "caido"
    BY <1>2 DEF Abortar, Salir, Caer, TypeOK
  <2>4. QED BY <1>2, <2>1, <2>2, <2>3, SinMemoriaTipo DEF TypeOK, TypeOKRepo
<1>3. CASE ReconciliarLista
  BY <1>3 DEF ReconciliarLista, ListarEnCurso, TypeOK, TypeOKRepo, HilosCoherentes
<1>4. CASE ReconciliarMira
  BY <1>4 DEF ReconciliarMira, TypeOK, TypeOKRepo, HilosCoherentes
<1>5. CASE ReconciliarEncola
  <2>1. cola' \in Seq(Tareas) /\ enCurso' \in SUBSET Tareas
    BY <1>5, EncolarTipo DEF ReconciliarEncola, TypeOK
  <2>2. QED BY <1>5, <2>1 DEF ReconciliarEncola, TypeOK, TypeOKRepo, HilosCoherentes
<1>6. CASE Arrancar
  <2> DEFINE e(h) == Haciendo("espera", h, SinResultado)
  <2>1. \/ hilo' = [h \in Hilos |-> IF h \in ListarEnCurso THEN e(h) ELSE Libre]
        \/ hilo' = hilo
    BY <1>6 DEF Arrancar
  <2>2. \A h \in ListarEnCurso : e(h) \in EstadosDeHilo
    BY HaciendoTipo DEF ListarEnCurso, Fases
  <2>3. hilo' \in [Hilos -> EstadosDeHilo]
    BY <2>1, <2>2, LibreTipo DEF TypeOK
  <2>4. HilosCoherentes'
    <3>1. \A h \in Hilos : hilo'[h] = e(h) \/ hilo'[h] = Libre \/ hilo' = hilo
      BY <2>1, Zenon
    <3>2. \A h \in Hilos : e(h).fase = "espera" /\ e(h).tarea = h /\ Libre.fase = "libre"
      BY DEF Haciendo, Libre
    <3>3. QED BY <3>1, <3>2 DEF HilosCoherentes
  <2>5. fallosBD' \in Nat
    BY <1>6 DEF Arrancar, TypeOK
  <2>6. QED BY <1>6, <2>3, <2>4, <2>5 DEF Arrancar, TypeOK, TypeOKRepo
<1>7. CASE Iniciar
  <2> DEFINE e(h) == Haciendo("espera", h, SinResultado)
             viejas == {t \in ListarEnCurso : edad[t] > VentanaRecuperacion}
  <2>1. \/ hilo' = [h \in Hilos |-> IF h \in viejas THEN e(h) ELSE hilo[h]]
        \/ hilo' = hilo
    BY <1>7 DEF Iniciar
  <2>2. viejas \in SUBSET Tareas
    BY DEF ListarEnCurso
  <2>3. enCurso' \in SUBSET Tareas /\ reanudar' \in SUBSET Tareas
    BY <1>7 DEF Iniciar, ListarEnCurso, TypeOK
  <2> HIDE DEF viejas
  <2>4. \A h \in viejas : e(h) \in EstadosDeHilo
    BY <2>2, HaciendoTipo DEF Fases
  <2>5. hilo' \in [Hilos -> EstadosDeHilo]
    BY <2>1, <2>4 DEF TypeOK
  <2>6. HilosCoherentes'
    BY <2>1 DEF HilosCoherentes, Haciendo
  <2>7. fallosBD' \in Nat
    BY <1>7 DEF Iniciar, TypeOK
  <2>8. QED BY <1>7, <2>3, <2>5, <2>6, <2>7 DEF Iniciar, TypeOK, TypeOKRepo
<1>8. QED
  BY <1>1, <1>2, <1>3, <1>4, <1>5, <1>6, <1>7
     DEF Arranque, Reconciliar, Abortar, Salir, Caer

\* Every variable stays in its range: seguimiento_tareas.go, whole pool.
THEOREM TipoCorrecto == Spec => []TypeOK
<1>1. Init => Tipos
  BY TiposInicial
<1>2. Tipos /\ [Next]_vars => Tipos'
  <2> SUFFICES ASSUME Tipos, [Next]_vars PROVE Tipos'
    OBVIOUS
  <2>1. CASE UNCHANGED vars
    BY <2>1 DEF vars, Tipos, TypeOK, TypeOKRepo, HilosCoherentes
  <2>2. CASE Next
    BY <2>2, TiposSinHilo, TiposDeHilo, TiposDeProceso
       DEF Next, PasoDeTarea, PasoDeHilo, Hilos
  <2>3. QED BY <2>1, <2>2
<1>3. Tipos => TypeOK
  BY DEF Tipos
<1>4. QED BY <1>1, <1>2, <1>3, PTL DEF Spec

-------------------------------------------------------------------------------
(* A task is closed once, and announced only after it was closed *)

(***************************************************************************)
(* A goroutine past the commit of finalizar works on a closed task: with   *)
(* it, PublicaTrasCerrar is inductive.                                     *)
(***************************************************************************)
CierreConfirmado == \A h \in Hilos :
  hilo[h].fase \in {"publicar", "lock"} => Cerrada(hilo[h].tarea)

Cierres == Tipos /\ CierreConfirmado /\ PublicaTrasCerrar

\* The type invariant survives a step, for the proofs below to cite.
LEMMA TiposPaso ==
  ASSUME Tipos, [Next]_vars
  PROVE  Tipos'
<1>1. CASE UNCHANGED vars
  BY <1>1 DEF vars, Tipos, TypeOK, TypeOKRepo, HilosCoherentes
<1>2. CASE Next
  BY <1>2, TiposSinHilo, TiposDeHilo, TiposDeProceso
     DEF Next, PasoDeTarea, PasoDeHilo, Hilos
<1>3. QED BY <1>1, <1>2

\* The tables change only in Seguir and when a closing commits (TareaRepository).
LEMMA FilaPaso ==
  ASSUME [Next]_vars
  PROVE  \/ UNCHANGED repoVars
         \/ \E t \in Tareas : SeguirRegistra(t)
         \/ \E h \in Hilos : GuardarCierre(h)
<1>1. CASE UNCHANGED vars
  BY <1>1 DEF vars
<1>2. CASE Arranque \/ Apagar \/ Salir \/ Caer \/ Reconciliar
  BY <1>2 DEF Arranque, Arrancar, Abortar, Iniciar, Servir, Apagar, Salir, Caer, Reconciliar,
              ReconciliarLista, ReconciliarMira, ReconciliarEncola
<1>3. CASE \E t \in Tareas : PasoDeTarea(t) \/ ProxmoxTermina(t) \/ Envejecer(t)
  BY <1>3 DEF PasoDeTarea, ProxmoxTermina, Envejecer, SeguirEncola, VenceTemporizador, Reanudar,
              TomarTurno, EliminarLockResidual
<1>4. CASE \/ \E w \in Workers : TomarTarea(w)
           \/ \E h \in Hilos : RespuestaTerminada(h) \/ RespuestaPendiente(h)
                               \/ Publicar(h) \/ FallaCierre(h)
  BY <1>4 DEF TomarTarea, RespuestaTerminada, RespuestaPendiente, Publicar, FallaCierre
<1>5. QED BY <1>1, <1>2, <1>3, <1>4 DEF Next, PasoDeHilo

\* Only the end of finalizar announces anything.
LEMMA PublicadosPaso ==
  ASSUME [Next]_vars
  PROVE  publicados' = publicados \/ \E h \in Hilos : Publicar(h)
<1>1. CASE UNCHANGED vars
  BY <1>1 DEF vars
<1>2. CASE Arranque \/ Apagar \/ Salir \/ Caer \/ Reconciliar
  BY <1>2 DEF Arranque, Arrancar, Abortar, Iniciar, Servir, Apagar, Salir, Caer, Reconciliar,
              ReconciliarLista, ReconciliarMira, ReconciliarEncola
<1>3. CASE \E t \in Tareas :
             SeguirRegistra(t) \/ PasoDeTarea(t) \/ ProxmoxTermina(t) \/ Envejecer(t)
  BY <1>3 DEF PasoDeTarea, ProxmoxTermina, Envejecer, SeguirRegistra, SeguirEncola,
              VenceTemporizador, Reanudar, TomarTurno, EliminarLockResidual
<1>4. CASE \/ \E w \in Workers : TomarTarea(w)
           \/ \E h \in Hilos : RespuestaTerminada(h) \/ RespuestaPendiente(h)
                               \/ GuardarCierre(h) \/ FallaCierre(h)
  BY <1>4 DEF TomarTarea, RespuestaTerminada, RespuestaPendiente, GuardarCierre, FallaCierre
<1>5. QED BY <1>1, <1>2, <1>3, <1>4 DEF Next, PasoDeHilo

\* A closed row never changes again (ActualizarEstado).
LEMMA CerradaEstable ==
  ASSUME Tipos, [Next]_vars, NEW t \in Tareas, Cerrada(t)
  PROVE  fila'[t] = fila[t]
<1>1. fila \in [Tareas -> {Ausente, EnCursoBD} \cup Resultados]
  BY DEF Tipos, TypeOK, TypeOKRepo
<1>2. ASSUME NEW u \in Tareas, SeguirRegistra(u)
      PROVE  fila'[t] = fila[t]
  <2>1. u # t
    BY <1>2 DEF SeguirRegistra, Crear, Cerrada, Ausente
  <2>2. QED BY <1>1, <1>2, <2>1 DEF SeguirRegistra, Crear
<1>3. ASSUME NEW h \in Hilos, GuardarCierre(h)
      PROVE  fila'[t] = fila[t]
  <2>1. hilo[h].tarea \in Tareas
    BY <1>3, HiloOcupado DEF GuardarCierre, Tipos
  <2>2. CASE UNCHANGED repoVars
    BY <2>2
  <2>3. CASE /\ fila[hilo[h].tarea].estado = "RUNNING"
             /\ fila' = [fila EXCEPT ![hilo[h].tarea] = hilo[h].res]
    BY <1>1, <2>1, <2>3 DEF Cerrada
  <2>4. QED BY <1>3, <2>2, <2>3 DEF GuardarCierre, ActualizarEstado
<1>4. QED BY <1>2, <1>3, FilaPaso

\* Only a goroutine that commits a closing, or that announces one, is past it
\* after a step in which its activity changed (finalizar).
LEMMA HiloPaso ==
  ASSUME Tipos, [Next]_vars, NEW h \in Hilos, hilo'[h].fase \in {"publicar", "lock"}
  PROVE  hilo'[h] = hilo[h] \/ GuardarCierre(h) \/ Publicar(h)
<1>0. hilo \in [Hilos -> EstadosDeHilo] /\ Libre.fase = "libre"
      /\ \A f, t, r : Haciendo(f, t, r).fase = f
  BY DEF Tipos, TypeOK, Libre, Haciendo
<1>1. CASE UNCHANGED vars
  BY <1>1 DEF vars
<1>2. CASE Arranque \/ Apagar \/ Salir \/ Caer
  <2>1. CASE Arrancar
    BY <1>0, <2>1 DEF Arrancar
  <2>2. CASE Iniciar
    BY <1>0, <2>2 DEF Iniciar
  <2>3. CASE Servir \/ Apagar
    BY <2>3 DEF Servir, Apagar
  <2>4. CASE Abortar \/ Salir \/ Caer
    BY <1>0, <2>4, SinMemoriaTipo DEF Abortar, Salir, Caer
  <2>5. QED BY <1>2, <2>1, <2>2, <2>3, <2>4 DEF Arranque
<1>3. CASE Reconciliar
  BY <1>3 DEF Reconciliar, ReconciliarLista, ReconciliarMira, ReconciliarEncola
<1>4. ASSUME NEW t \in Tareas,
             SeguirRegistra(t) \/ PasoDeTarea(t) \/ ProxmoxTermina(t) \/ Envejecer(t)
      PROVE  hilo'[h] = hilo[h]
  <2>1. CASE TomarTurno(t)
    BY <1>0, <2>1 DEF TomarTurno, Hilos, Fases
  <2>2. CASE EliminarLockResidual(t)
    BY <1>0, <2>2 DEF EliminarLockResidual, Hilos
  <2>3. CASE UNCHANGED hilo
    BY <2>3
  <2>4. QED
    BY <1>4, <2>1, <2>2, <2>3
       DEF SeguirRegistra, PasoDeTarea, ProxmoxTermina, Envejecer, SeguirEncola,
           VenceTemporizador, Reanudar
<1>5. ASSUME NEW w \in Workers, TomarTarea(w)
      PROVE  hilo'[h] = hilo[h]
  BY <1>0, <1>5 DEF TomarTarea, Hilos
<1>6. ASSUME NEW g \in Hilos, RespuestaTerminada(g) \/ RespuestaPendiente(g) \/ FallaCierre(g)
      PROVE  hilo'[h] = hilo[h]
  BY <1>0, <1>6 DEF RespuestaTerminada, RespuestaPendiente, FallaCierre
<1>7. ASSUME NEW g \in Hilos, GuardarCierre(g) \/ Publicar(g)
      PROVE  hilo'[h] = hilo[h] \/ g = h
  BY <1>0, <1>7 DEF GuardarCierre, Publicar
<1>8. QED BY <1>1, <1>2, <1>3, <1>4, <1>5, <1>6, <1>7 DEF Next, PasoDeHilo

(***************************************************************************)
(* A closing survives: the row of a task that was announced, or is about   *)
(* to be, stays closed.                                                    *)
(***************************************************************************)
LEMMA CierresPaso ==
  ASSUME Cierres, [Next]_vars
  PROVE  Cierres'
<1> USE DEF Cierres
<1>1. Tipos'
  BY TiposPaso
<1>2. \A t \in Tareas : Cerrada(t) => Cerrada(t)'
  BY CerradaEstable DEF Cerrada
<1>3. ASSUME NEW h \in Hilos, hilo'[h].fase \in {"publicar", "lock"}
      PROVE  Cerrada(hilo[h].tarea)'
  <2>0. hilo \in [Hilos -> EstadosDeHilo]
    BY DEF Tipos, TypeOK
  <2>1. CASE hilo'[h] = hilo[h]
    <3>1. hilo[h].tarea \in Tareas /\ Cerrada(hilo[h].tarea)
      BY <1>3, <2>1, HiloOcupado DEF Tipos, CierreConfirmado
    <3>2. QED BY <1>2, <2>1, <3>1 DEF Cerrada
  <2>2. CASE GuardarCierre(h)
    <3>1. hilo[h].tarea \in Tareas /\ hilo[h].res \in Resultados
      BY <2>2, HiloOcupado DEF GuardarCierre, Tipos, HilosCoherentes
    <3>2. hilo'[h].tarea = hilo[h].tarea
      BY <2>0, <2>2 DEF GuardarCierre
    <3>3. CASE UNCHANGED repoVars /\ Cerrada(hilo[h].tarea)
      BY <3>2, <3>3 DEF Cerrada
    <3>4. CASE fila' = [fila EXCEPT ![hilo[h].tarea] = hilo[h].res]
      <4>1. fila'[hilo[h].tarea] = hilo[h].res
        BY <3>1, <3>4 DEF Tipos, TypeOK, TypeOKRepo
      <4>2. \A r \in Resultados : r.estado \in {"COMPLETED", "FAILED"}
        BY DEF Resultados, Vencida, Completada, FalloProxmox
      <4>3. QED BY <3>1, <3>2, <4>1, <4>2 DEF Cerrada
    <3>5. QED BY <2>2, <3>3, <3>4 DEF GuardarCierre, ActualizarEstado
  <2>3. CASE Publicar(h)
    <3>1. hilo[h].tarea \in Tareas /\ Cerrada(hilo[h].tarea)
      BY <2>3, HiloOcupado DEF Publicar, Tipos, CierreConfirmado
    <3>2. hilo'[h].tarea = hilo[h].tarea
      BY <1>3, <2>0, <2>3 DEF Publicar, Libre
    <3>3. QED BY <1>2, <3>1, <3>2 DEF Cerrada
  <2>4. QED BY <1>3, <2>1, <2>2, <2>3, HiloPaso
<1>4. PublicaTrasCerrar'
  <2>1. ASSUME NEW h \in Hilos, Publicar(h)
        PROVE  PublicaTrasCerrar'
    <3>1. hilo[h].tarea \in Tareas /\ Cerrada(hilo[h].tarea)
      BY <2>1, HiloOcupado DEF Publicar, Tipos, CierreConfirmado
    <3>2. \A t \in Tareas : publicados'[t] = publicados[t] \/ t = hilo[h].tarea
      BY <2>1 DEF Publicar, Tipos, TypeOK
    <3>3. QED BY <1>2, <3>1, <3>2 DEF PublicaTrasCerrar
  <2>2. CASE UNCHANGED publicados
    BY <1>2, <2>2 DEF PublicaTrasCerrar
  <2>3. QED BY <2>1, <2>2, PublicadosPaso
<1>5. QED BY <1>1, <1>3, <1>4 DEF CierreConfirmado

\* TASK_FINISHED goes out only for a row that was closed
\* (seguimiento_tareas.go:588, "Recién entonces se publica TASK_FINISHED").
THEOREM AvisoTrasCierre == Spec => []PublicaTrasCerrar
<1>1. Init => Cierres
  <2> SUFFICES ASSUME Init PROVE Cierres
    OBVIOUS
  <2>1. Tipos
    BY TiposInicial
  <2>2. CierreConfirmado
    BY DEF Init, CierreConfirmado, Libre
  <2>3. PublicaTrasCerrar
    BY DEF Init, PublicaTrasCerrar
  <2>4. QED BY <2>1, <2>2, <2>3 DEF Cierres
<1>2. Cierres /\ [Next]_vars => Cierres'
  BY CierresPaso
<1>3. Cierres => PublicaTrasCerrar
  BY DEF Cierres
<1>4. QED BY <1>1, <1>2, <1>3, PTL DEF Spec

\* A confirmed outcome never changes, whoever closes the task again
\* (tarea_repository.go:56, the row is no longer RUNNING).
THEOREM CierreUnico == Spec => CierreDefinitivo
<1>1. Init => Tipos
  BY TiposInicial
<1>2. Tipos /\ [Next]_vars => Tipos'
  BY TiposPaso
<1>3. Tipos /\ [Next]_vars => [\A t \in Tareas : Cerrada(t) => fila'[t] = fila[t]]_fila
  BY CerradaEstable
<1>4. QED BY <1>1, <1>2, <1>3, PTL DEF Spec, CierreDefinitivo

(***************************************************************************)
(* The pool implements CicloTarea: Seguir registers, a committed closing   *)
(* closes, OnTaskFinished announces, and every other step is a stutter.    *)
(***************************************************************************)
THEOREM ImplementaCiclo == Spec => CumpleCiclo
<1> DEFINE avisadas == {t \in Tareas : publicados[t] # {}}
           estado == [t \in Tareas |-> fila[t].estado]
<1> USE DEF Ciclo!cicloVars
<1>1. Init => Cierres
  <2> SUFFICES ASSUME Init PROVE Cierres
    OBVIOUS
  <2>1. Tipos
    BY TiposInicial
  <2>2. CierreConfirmado /\ PublicaTrasCerrar
    BY DEF Init, CierreConfirmado, PublicaTrasCerrar, Libre
  <2>3. QED BY <2>1, <2>2 DEF Cierres
<1>2. Cierres /\ [Next]_vars => Cierres'
  BY CierresPaso
<1>3. Init => Ciclo!CicloInit
  BY DEF Init, InitRepo, Ausente, Ciclo!CicloInit
<1>4. Cierres /\ [Next]_vars => [Ciclo!CicloNext]_Ciclo!cicloVars
  <2> SUFFICES ASSUME Cierres, [Next]_vars PROVE [Ciclo!CicloNext]_Ciclo!cicloVars
    OBVIOUS
  <2>0. fila \in [Tareas -> {Ausente, EnCursoBD} \cup Resultados]
        /\ publicados \in [Tareas -> SUBSET Resultados]
    BY DEF Cierres, Tipos, TypeOK, TypeOKRepo
  <2>1. CASE fila' = fila /\ publicados' = publicados
    BY <2>1
  <2>2. ASSUME NEW t \in Tareas, SeguirRegistra(t)
        PROVE  Ciclo!Registrar(t)
    <3>1. fila[t] = Ausente /\ fila' = [fila EXCEPT ![t] = EnCursoBD] /\ publicados' = publicados
      BY <2>2 DEF SeguirRegistra, Crear
    <3>2. estado' = [estado EXCEPT ![t] = "RUNNING"] /\ estado[t] = "ausente"
      <4>1. EnCursoBD.estado = "RUNNING" /\ Ausente.estado = "ausente"
        BY DEF EnCursoBD, Ausente
      <4>2. QED BY <2>0, <3>1, <4>1
    <3>3. QED BY <3>1, <3>2 DEF Ciclo!Registrar
  <2>3. ASSUME NEW h \in Hilos, GuardarCierre(h)
        PROVE  [Ciclo!CicloNext]_Ciclo!cicloVars
    <3>0. PICK t \in Tareas, r \in Resultados : t = hilo[h].tarea /\ r = hilo[h].res
      BY <2>3, HiloOcupado DEF GuardarCierre, Cierres, Tipos, HilosCoherentes
    <3>1. publicados' = publicados
      BY <2>3 DEF GuardarCierre
    <3>2. CASE fila' = fila
      BY <3>1, <3>2
    <3>3. CASE fila[t].estado = "RUNNING" /\ fila' = [fila EXCEPT ![t] = r]
      <4>1. r.estado \in {"COMPLETED", "FAILED"}
        BY DEF Resultados, Vencida, Completada, FalloProxmox
      <4>2. estado' = [estado EXCEPT ![t] = r.estado] /\ estado[t] = "RUNNING"
        BY <2>0, <3>3
      <4>3. Ciclo!Cerrar(t)
        BY <3>1, <4>1, <4>2 DEF Ciclo!Cerrar
      <4>4. QED BY <4>3 DEF Ciclo!CicloNext
    <3>4. QED BY <2>3, <3>0, <3>2, <3>3 DEF GuardarCierre, ActualizarEstado
  <2>4. ASSUME NEW h \in Hilos, Publicar(h)
        PROVE  [Ciclo!CicloNext]_Ciclo!cicloVars
    <3>0. PICK t \in Tareas : t = hilo[h].tarea
      BY <2>4, HiloOcupado DEF Publicar, Cierres, Tipos
    <3>1. fila' = fila /\ Cerrada(t)
      BY <2>4, <3>0 DEF Publicar, Cierres, CierreConfirmado
    <3>2. publicados' = [publicados EXCEPT ![t] = @ \cup {hilo[h].res}]
      BY <2>4, <3>0 DEF Publicar
    <3>3. avisadas' = avisadas \cup {t}
      BY <2>0, <3>1, <3>2
    <3>4. Ciclo!Avisar(t)
      BY <3>1, <3>3 DEF Ciclo!Avisar, Cerrada
    <3>5. QED BY <3>4 DEF Ciclo!CicloNext
  <2>5. QED
    BY <2>1, <2>2, <2>3, <2>4, FilaPaso, PublicadosPaso DEF Ciclo!CicloNext
<1>5. QED BY <1>1, <1>2, <1>3, <1>4, PTL DEF Spec, CumpleCiclo, Ciclo!CicloSpec

-------------------------------------------------------------------------------
(* What the audit and the events say *)

\* The audit of a task is decided by its row.
Correlacion(f, t) ==
  CASE f = Ausente -> <<>>
    [] f = EnCursoBD -> <<"PENDIENTE">>
    [] OTHER -> <<"PENDIENTE">> \o RegistrosDeCierre(t, f)

\* A row and its audit change together (Crear, ActualizarEstado).
LEMMA AuditoriaPaso ==
  ASSUME Tipos, AuditoriaCorrelacionada, [Next]_vars
  PROVE  AuditoriaCorrelacionada'
<1>0. /\ fila \in [Tareas -> {Ausente, EnCursoBD} \cup Resultados]
      /\ auditoria \in [Tareas -> Seq({"PENDIENTE", "PURGA", "EXITO", "FALLA"})]
  BY DEF Tipos, TypeOK, TypeOKRepo
<1>a. AuditoriaCorrelacionada <=> \A t \in Tareas : auditoria[t] = Correlacion(fila[t], t)
  BY Zenon DEF AuditoriaCorrelacionada, Correlacion
<1>b. AuditoriaCorrelacionada' <=> \A t \in Tareas : auditoria'[t] = Correlacion(fila'[t], t)
  BY Zenon DEF AuditoriaCorrelacionada, Correlacion
<1>1. CASE UNCHANGED repoVars
  BY <1>1, <1>a, <1>b
<1>2. ASSUME NEW u \in Tareas, SeguirRegistra(u), NEW t \in Tareas
      PROVE  auditoria'[t] = Correlacion(fila'[t], t)
  <2>1. Correlacion(EnCursoBD, u) = <<"PENDIENTE">>
    BY DEF Correlacion, EnCursoBD, Ausente
  <2>2. /\ fila' = [fila EXCEPT ![u] = EnCursoBD]
        /\ auditoria' = [auditoria EXCEPT ![u] = <<"PENDIENTE">>]
    BY <1>2 DEF SeguirRegistra, Crear
  <2>3. QED BY <1>0, <1>a, <2>1, <2>2
<1>3. ASSUME NEW h \in Hilos, GuardarCierre(h), ~UNCHANGED repoVars, NEW t \in Tareas
      PROVE  auditoria'[t] = Correlacion(fila'[t], t)
  <2>0. PICK u \in Tareas, r \in Resultados : u = hilo[h].tarea /\ r = hilo[h].res
    BY <1>3, HiloOcupado DEF GuardarCierre, Tipos, HilosCoherentes
  <2>1. /\ fila[u].estado = "RUNNING"
        /\ fila' = [fila EXCEPT ![u] = r]
        /\ auditoria' = [auditoria EXCEPT ![u] = auditoria[u] \o RegistrosDeCierre(u, r)]
    BY <1>3, <2>0 DEF GuardarCierre, ActualizarEstado
  <2>2. \A q \in Resultados : q.estado \in {"COMPLETED", "FAILED"}
    BY DEF Resultados, Vencida, Completada, FalloProxmox
  <2>3. fila[u] = EnCursoBD
    <3>1. Ausente.estado = "ausente"
      BY DEF Ausente
    <3>2. fila[u] \in {Ausente, EnCursoBD} \cup Resultados
      BY <1>0
    <3>3. QED BY <2>1, <2>2, <3>1, <3>2
  <2>4. auditoria[u] = <<"PENDIENTE">>
    BY <1>a, <2>3 DEF Correlacion, EnCursoBD, Ausente
  <2>5. r # Ausente /\ r # EnCursoBD
    BY <2>2 DEF EnCursoBD, Ausente
  <2>6. Correlacion(r, u) = <<"PENDIENTE">> \o RegistrosDeCierre(u, r)
    BY <2>5, Zenon DEF Correlacion
  <2>7. QED BY <1>0, <1>a, <2>1, <2>4, <2>6, Zenon
<1>4. QED BY <1>1, <1>2, <1>3, <1>b, FilaPaso

\* Each row has exactly its dispatch record and one closing record that agrees
\* with the way it was closed (tarea_repository.go:44, ActualizarEstado).
THEOREM AuditoriaFiel == Spec => []AuditoriaCorrelacionada
<1>1. Init => Tipos /\ AuditoriaCorrelacionada
  <2>1. ASSUME Init, NEW t \in Tareas PROVE fila[t] = Ausente /\ auditoria[t] = <<>>
    BY <2>1 DEF Init, InitRepo
  <2>2. \A t : Correlacion(Ausente, t) = <<>>
    BY DEF Correlacion, Ausente, EnCursoBD
  <2>3. AuditoriaCorrelacionada <=> \A t \in Tareas : auditoria[t] = Correlacion(fila[t], t)
    BY Zenon DEF AuditoriaCorrelacionada, Correlacion
  <2>4. QED BY <2>1, <2>2, <2>3, TiposInicial
<1>2. Tipos /\ AuditoriaCorrelacionada /\ [Next]_vars => (Tipos /\ AuditoriaCorrelacionada)'
  BY TiposPaso, AuditoriaPaso
<1>3. QED BY <1>1, <1>2, PTL DEF Spec

\* What a result may say of a task that Proxmox ended with m.
Fiel(m, t, r) ==
  /\ r.exitstatus \in {"null", m}
  /\ r.estado = "COMPLETED" => m = "OK" \/ (m = "WARNINGS" /\ Accion[t] # "crear")

\* Everything that is a result in some place.
Rastros == Resultados \cup {SinResultado, Ausente, EnCursoBD}

\* What was announced, stored or carried is one of those.
LEMMA RastrosTipo ==
  ASSUME Tipos
  PROVE  /\ \A t \in Tareas : fila[t] \in Rastros /\ publicados[t] \subseteq Rastros
         /\ \A h \in Hilos : hilo[h].res \in Rastros
BY DEF Tipos, TypeOK, TypeOKRepo, EstadosDeHilo, Rastros, Libre

\* An exit status never changes once Proxmox reported it, and before that no
\* result can claim one.
LEMMA FielEstable ==
  ASSUME Tipos, [Next]_vars, NEW t \in Tareas, NEW r \in Rastros, Fiel(remoto[t], t, r)
  PROVE  Fiel(remoto'[t], t, r)
<1>1. r.exitstatus \in {"null"} \cup ExitStatus
  BY DEF Rastros, Resultados, Vencida, Completada, FalloProxmox, SinResultado, Ausente, EnCursoBD, ExitStatus
<1>2. remoto' = remoto \/ \E u \in Tareas : ProxmoxTermina(u)
  <2>1. CASE UNCHANGED vars
    BY <2>1 DEF vars
  <2>2. CASE Arranque \/ Apagar \/ Salir \/ Caer \/ Reconciliar
    BY <2>2 DEF Arranque, Arrancar, Abortar, Iniciar, Servir, Apagar, Salir, Caer, Reconciliar,
                ReconciliarLista, ReconciliarMira, ReconciliarEncola
  <2>3. CASE \E u \in Tareas : SeguirRegistra(u) \/ PasoDeTarea(u) \/ Envejecer(u)
    BY <2>3 DEF PasoDeTarea, Envejecer, SeguirRegistra, SeguirEncola, VenceTemporizador, Reanudar,
                TomarTurno, EliminarLockResidual
  <2>4. CASE \/ \E w \in Workers : TomarTarea(w)
             \/ \E h \in Hilos : RespuestaTerminada(h) \/ RespuestaPendiente(h)
                                 \/ GuardarCierre(h) \/ Publicar(h) \/ FallaCierre(h)
    BY <2>4 DEF TomarTarea, RespuestaTerminada, RespuestaPendiente, GuardarCierre, Publicar, FallaCierre
  <2>5. QED BY <2>1, <2>2, <2>3, <2>4 DEF Next, PasoDeHilo
<1>3. ASSUME NEW u \in Tareas, ProxmoxTermina(u) PROVE Fiel(remoto'[t], t, r)
  <2>1. remoto[u] = "ejecutando" /\ \A v \in Tareas \ {u} : remoto'[v] = remoto[v]
    BY <1>3 DEF ProxmoxTermina, Tipos, TypeOK
  <2>2. u = t => r.exitstatus = "null" /\ r.estado # "COMPLETED"
    BY <1>1, <2>1 DEF Fiel, ExitStatus
  <2>3. QED BY <2>1, <2>2 DEF Fiel
<1>4. QED BY <1>2, <1>3

\* A goroutine keeps the task and the result it carries, drops them, gives the
\* task up or hears from Proxmox that it ended (consultar).
LEMMA ResultadoPaso ==
  ASSUME Tipos, [Next]_vars, NEW h \in Hilos
  PROVE  \/ hilo'[h].tarea = hilo[h].tarea /\ hilo'[h].res = hilo[h].res
         \/ hilo'[h].res \in {SinResultado, Vencida}
         \/ RespuestaTerminada(h)
<1> DEFINE G == \/ hilo'[h].tarea = hilo[h].tarea /\ hilo'[h].res = hilo[h].res
                \/ hilo'[h].res \in {SinResultado, Vencida}
<1>0. /\ hilo \in [Hilos -> EstadosDeHilo] /\ Libre.res = SinResultado
      /\ \A f, t, r : Haciendo(f, t, r).res = r
  BY DEF Tipos, TypeOK, Libre, Haciendo
<1>1. CASE UNCHANGED vars
  BY <1>1 DEF vars
<1>2. CASE Arranque \/ Apagar \/ Salir \/ Caer
  <2>1. CASE Arrancar
    BY <1>0, <2>1 DEF Arrancar
  <2>2. CASE Iniciar
    BY <1>0, <2>2 DEF Iniciar
  <2>3. CASE Servir \/ Apagar
    BY <2>3 DEF Servir, Apagar
  <2>4. CASE Abortar \/ Salir \/ Caer
    BY <1>0, <2>4, SinMemoriaTipo DEF Abortar, Salir, Caer
  <2>5. QED BY <1>2, <2>1, <2>2, <2>3, <2>4 DEF Arranque
<1>3. CASE Reconciliar
  BY <1>3 DEF Reconciliar, ReconciliarLista, ReconciliarMira, ReconciliarEncola
<1>4. ASSUME NEW t \in Tareas,
             SeguirRegistra(t) \/ PasoDeTarea(t) \/ ProxmoxTermina(t) \/ Envejecer(t)
      PROVE  G
  <2>1. CASE TomarTurno(t)
    BY <1>0, <2>1 DEF TomarTurno, Hilos
  <2>2. CASE EliminarLockResidual(t)
    BY <1>0, <2>2 DEF EliminarLockResidual, Hilos
  <2>3. CASE UNCHANGED hilo
    BY <2>3
  <2>4. QED
    BY <1>4, <2>1, <2>2, <2>3
       DEF SeguirRegistra, PasoDeTarea, ProxmoxTermina, Envejecer, SeguirEncola,
           VenceTemporizador, Reanudar
<1>5. ASSUME NEW w \in Workers, TomarTarea(w)
      PROVE  G
  BY <1>0, <1>5 DEF TomarTarea, Hilos
<1>6. ASSUME NEW g \in Hilos, RespuestaPendiente(g) \/ FallaCierre(g)
      PROVE  G
  BY <1>0, <1>6 DEF RespuestaPendiente, FallaCierre
<1>7. ASSUME NEW g \in Hilos, GuardarCierre(g) \/ Publicar(g)
      PROVE  G
  <2>1. hilo[g] \in [fase : Fases, tarea : Tareas, res : Resultados \cup {SinResultado}]
    BY <1>7, HiloOcupado DEF GuardarCierre, Publicar, Tipos
  <2> DEFINE Pasa(f) == [hilo[g] EXCEPT !.fase = f]
  <2>2. /\ Pasa("publicar").tarea = hilo[g].tarea /\ Pasa("publicar").res = hilo[g].res
        /\ Pasa("lock").tarea = hilo[g].tarea /\ Pasa("lock").res = hilo[g].res
    BY <2>1
  <2>3. \/ hilo' = [hilo EXCEPT ![g] = Libre]
        \/ hilo' = [hilo EXCEPT ![g] = Pasa("publicar")]
        \/ hilo' = [hilo EXCEPT ![g] = Pasa("lock")]
    BY <1>7 DEF GuardarCierre, Publicar
  <2> HIDE DEF Pasa
  <2>4. QED BY <1>0, <2>2, <2>3
<1>8. ASSUME NEW g \in Hilos, RespuestaTerminada(g)
      PROVE  hilo'[h] = hilo[h] \/ g = h
  BY <1>0, <1>8 DEF RespuestaTerminada
<1>9. QED BY <1>1, <1>2, <1>3, <1>4, <1>5, <1>6, <1>7, <1>8 DEF Next, PasoDeHilo

\* A result comes from Proxmox's answer about that very task, and is only copied
\* afterwards.
LEMMA ResultadoRealPaso ==
  ASSUME Tipos, ResultadoReal, [Next]_vars
  PROVE  ResultadoReal'
<1>0. /\ fila \in [Tareas -> {Ausente, EnCursoBD} \cup Resultados]
      /\ publicados \in [Tareas -> SUBSET Resultados]
      /\ hilo \in [Hilos -> EstadosDeHilo]
  BY DEF Tipos, TypeOK, TypeOKRepo
<1>a. \A t \in Tareas : /\ Fiel(remoto[t], t, fila[t])
                        /\ \A r \in publicados[t] : Fiel(remoto[t], t, r)
                        /\ \A h \in Hilos : hilo[h].tarea = t => Fiel(remoto[t], t, hilo[h].res)
  BY Zenon DEF ResultadoReal, Fiel
<1>b. ASSUME \A t \in Tareas : /\ Fiel(remoto'[t], t, fila'[t])
                               /\ \A r \in publicados'[t] : Fiel(remoto'[t], t, r)
                               /\ \A h \in Hilos : hilo'[h].tarea = t => Fiel(remoto'[t], t, hilo'[h].res)
      PROVE  ResultadoReal'
  <2> SUFFICES ASSUME NEW t \in Tareas,
                      NEW r \in {fila'[t]} \cup publicados'[t]
                                  \cup {hilo'[h].res : h \in {g \in Hilos : hilo'[g].tarea = t}}
               PROVE  Fiel(remoto'[t], t, r)
    BY Zenon DEF ResultadoReal, Fiel
  <2>1. QED BY <1>b, Zenon
<1>c. \A t \in Tareas, r \in Rastros : Fiel(remoto[t], t, r) => Fiel(remoto'[t], t, r)
  BY FielEstable
<1>1. ASSUME NEW t \in Tareas PROVE Fiel(remoto'[t], t, fila'[t])
  <2>1. CASE fila'[t] = fila[t]
    BY <1>a, <1>c, <2>1, RastrosTipo
  <2>2. ASSUME NEW u \in Tareas, SeguirRegistra(u), fila'[t] # fila[t] PROVE Fiel(remoto'[t], t, fila'[t])
    <3>1. fila'[t] = EnCursoBD
      BY <1>0, <2>2 DEF SeguirRegistra, Crear
    <3>2. QED BY <3>1 DEF Fiel, EnCursoBD
  <2>3. ASSUME NEW h \in Hilos, GuardarCierre(h), fila'[t] # fila[t] PROVE Fiel(remoto'[t], t, fila'[t])
    <3>1. t = hilo[h].tarea /\ fila'[t] = hilo[h].res
      BY <1>0, <2>3 DEF GuardarCierre, ActualizarEstado
    <3>2. QED BY <1>a, <1>c, <3>1, RastrosTipo
  <2>4. QED BY <2>1, <2>2, <2>3, FilaPaso
<1>2. ASSUME NEW t \in Tareas, NEW r \in publicados'[t] PROVE Fiel(remoto'[t], t, r)
  <2>1. CASE r \in publicados[t]
    BY <1>a, <1>c, <2>1, RastrosTipo
  <2>2. ASSUME NEW h \in Hilos, Publicar(h), r \notin publicados[t] PROVE Fiel(remoto'[t], t, r)
    <3>1. t = hilo[h].tarea /\ r = hilo[h].res
      BY <1>0, <1>2, <2>2 DEF Publicar
    <3>2. QED BY <1>a, <1>c, <3>1, RastrosTipo
  <2>3. QED BY <1>2, <2>1, <2>2, PublicadosPaso
<1>3. ASSUME NEW t \in Tareas, NEW h \in Hilos, hilo'[h].tarea = t PROVE Fiel(remoto'[t], t, hilo'[h].res)
  <2>1. CASE hilo'[h].tarea = hilo[h].tarea /\ hilo'[h].res = hilo[h].res
    BY <1>3, <1>a, <1>c, <2>1, RastrosTipo
  <2>2. CASE hilo'[h].res \in {SinResultado, Vencida}
    BY <2>2 DEF Fiel, SinResultado, Vencida
  <2>3. CASE RespuestaTerminada(h)
    <3> DEFINE u == hilo[h].tarea
               e == ClasificarExitStatus(u, remoto[u])
    <3>1. hilo'[h] = Haciendo("guardar", u, e) /\ remoto' = remoto /\ u \in Tareas /\ remoto[u] \in ExitStatus
      <4>1. hilo[h].tarea \in Tareas
        BY <2>3, HiloOcupado DEF RespuestaTerminada, Tipos
      <4>2. QED BY <1>0, <2>3, <4>1 DEF RespuestaTerminada, Tipos, TypeOK
    <3>2. hilo'[h].res = e /\ u = t
      BY <1>3, <3>1 DEF Haciendo
    <3>3. Fiel(remoto[u], u, e)
      BY <3>1 DEF ClasificarExitStatus, Completada, FalloProxmox, Fiel, ExitStatus
    <3>4. QED BY <3>1, <3>2, <3>3
  <2>4. QED BY <2>1, <2>2, <2>3, ResultadoPaso
<1>4. QED BY <1>b, <1>1, <1>2, <1>3

\* What is stored and announced is what Proxmox said of that task
\* (seguimiento_tareas.go, clasificarExitStatus and finalizar).
THEOREM ResultadoDeProxmox == Spec => []ResultadoReal
<1>1. Init => Tipos /\ ResultadoReal
  <2>1. ASSUME Init PROVE ResultadoReal
    <3>1. \A t \in Tareas : fila[t] = Ausente /\ publicados[t] = {}
      BY <2>1, Zenon DEF Init, InitRepo
    <3>2. \A h \in Hilos : hilo[h].res = SinResultado
      BY <2>1 DEF Init, Libre
    <3>3. QED BY <3>1, <3>2 DEF ResultadoReal, Ausente, SinResultado
  <2>2. QED BY <2>1, TiposInicial
<1>2. Tipos /\ ResultadoReal /\ [Next]_vars => (Tipos /\ ResultadoReal)'
  BY TiposPaso, ResultadoRealPaso
<1>3. QED BY <1>1, <1>2, PTL DEF Spec

-------------------------------------------------------------------------------
(* No mark without its task *)

(***************************************************************************)
(* Until Iniciar the pool is empty and only the goroutines of start-up     *)
(* work: they may drop a task without looking at enCurso.  Once the        *)
(* process serves, none of them is still busy with a residual lock.        *)
(***************************************************************************)
SinIniciar == proceso \in {"caido", "reconciliando"}
Vacio ==
  /\ enCurso = {} /\ cola = <<>> /\ seguir = {} /\ reanudar = {} /\ recLista = {} /\ recTarea = Ninguna
  /\ \A t \in Tareas : temporizador[t] = 0
  /\ \A w \in Workers : hilo[w] = Libre
Reposado ==
  /\ SinIniciar => Vacio
  /\ \A h \in Hilos : hilo[h].fase = "lock" => proceso = "reconciliando"

\* The guards of start-up and shutdown keep the pool empty until Iniciar.
LEMMA VacioPaso ==
  ASSUME Tipos, Reposado, [Next]_vars, SinIniciar'
  PROVE  Vacio'
<1>0. /\ hilo \in [Hilos -> EstadosDeHilo] /\ Libre.fase = "libre"
      /\ \A w \in Workers : w \in Hilos /\ w \notin Tareas
      /\ \A t \in Tareas : t # 0
  BY SeguimientoAssumption, TareasAssumption DEF Tipos, TypeOK, Libre, Hilos
<1>1. CASE Abortar \/ Salir \/ Caer
  <2>1. SinMemoria
    BY <1>1 DEF Abortar, Salir, Caer
  <2>2. QED BY <1>0, <2>1 DEF SinMemoria, Vacio
<1>2. CASE Arrancar
  <2>1. Vacio
    BY <1>2 DEF Arrancar, Reposado, SinIniciar
  <2>2. \A w \in Workers : hilo'[w] = Libre
    BY <1>0, <1>2, <2>1 DEF Arrancar, ListarEnCurso, Vacio
  <2>3. QED BY <1>2, <2>1, <2>2 DEF Arrancar, Vacio
<1>3. CASE Iniciar \/ Servir \/ Apagar
  BY <1>3 DEF Iniciar, Servir, Apagar, SinIniciar
<1>4. CASE proceso' = proceso
  <2>0. SinIniciar /\ Vacio
    BY <1>4 DEF Reposado, SinIniciar
  <2>1. CASE UNCHANGED vars
    BY <2>0, <2>1 DEF vars, Vacio
  <2>2. CASE Reconciliar
    BY <2>0, <2>2 DEF Reconciliar, ReconciliarLista, ReconciliarMira, ReconciliarEncola, Vacio, SinIniciar
  <2>3. ASSUME NEW t \in Tareas, SeguirRegistra(t) \/ SeguirEncola(t) \/ VenceTemporizador(t) \/ Reanudar(t)
        PROVE  FALSE
    BY <2>0, <2>3 DEF SeguirRegistra, SeguirEncola, VenceTemporizador, Reanudar, Vacio, SinIniciar
  <2>4. ASSUME NEW t \in Tareas, TomarTurno(t) \/ EliminarLockResidual(t)
        PROVE  Vacio'
    <3>1. \A w \in Workers : hilo'[w] = hilo[w]
      BY <1>0, <2>4 DEF TomarTurno, EliminarLockResidual
    <3>2. QED BY <2>0, <2>4, <3>1 DEF TomarTurno, EliminarLockResidual, Vacio
  <2>5. ASSUME NEW t \in Tareas, ProxmoxTermina(t) \/ Envejecer(t)
        PROVE  Vacio'
    BY <2>0, <2>5 DEF ProxmoxTermina, Envejecer, Vacio
  <2>6. ASSUME NEW w \in Workers, TomarTarea(w)
        PROVE  FALSE
    BY <2>0, <2>6 DEF TomarTarea, Vacio
  <2>7. ASSUME NEW h \in Hilos, PasoDeHilo(h) \/ FallaCierre(h)
        PROVE  Vacio'
    <3>1. h \notin Workers
      BY <1>0, <2>0, <2>7 DEF PasoDeHilo, RespuestaTerminada, RespuestaPendiente, GuardarCierre, Publicar,
                              FallaCierre, Vacio
    <3>2. \A w \in Workers : hilo'[w] = hilo[w]
      BY <1>0, <2>7, <3>1 DEF PasoDeHilo, RespuestaTerminada, RespuestaPendiente, GuardarCierre, Publicar,
                              FallaCierre
    <3>3. QED BY <2>0, <2>7, <3>1, <3>2 DEF PasoDeHilo, RespuestaTerminada, RespuestaPendiente, GuardarCierre,
                                            Publicar, FallaCierre, Vacio
  <2>8. QED BY <1>4, <1>1, <1>2, <1>3, <2>1, <2>2, <2>3, <2>4, <2>5, <2>6, <2>7 DEF Next, Arranque, PasoDeTarea
<1>5. proceso' = proceso \/ Arranque \/ Apagar \/ Salir \/ Caer
  <2>1. CASE UNCHANGED vars
    BY <2>1 DEF vars
  <2>2. CASE Reconciliar
    BY <2>2 DEF Reconciliar, ReconciliarLista, ReconciliarMira, ReconciliarEncola
  <2>3. CASE \E t \in Tareas : SeguirRegistra(t) \/ PasoDeTarea(t) \/ ProxmoxTermina(t) \/ Envejecer(t)
    BY <2>3 DEF PasoDeTarea, ProxmoxTermina, Envejecer, SeguirRegistra, SeguirEncola, VenceTemporizador, Reanudar,
                TomarTurno, EliminarLockResidual
  <2>4. CASE \/ \E w \in Workers : TomarTarea(w)
             \/ \E h \in Hilos : PasoDeHilo(h) \/ FallaCierre(h)
    BY <2>4 DEF TomarTarea, PasoDeHilo, RespuestaTerminada, RespuestaPendiente, GuardarCierre, Publicar, FallaCierre
  <2>5. QED BY <2>1, <2>2, <2>3, <2>4 DEF Next
<1>6. QED BY <1>1, <1>2, <1>3, <1>4, <1>5 DEF Arranque

\* main leaves start-up only when its goroutines are done.
LEMMA ReposadoPaso ==
  ASSUME Tipos, Reposado, [Next]_vars
  PROVE  Reposado'
<1>0. hilo \in [Hilos -> EstadosDeHilo] /\ Libre.fase = "libre"
      /\ \A f, t, r : Haciendo(f, t, r).fase = f
  BY DEF Tipos, TypeOK, Libre, Haciendo
<1>1. ASSUME NEW h \in Hilos, hilo'[h].fase = "lock"
      PROVE  proceso' = "reconciliando"
  <2>1. CASE GuardarCierre(h)
    <3>1. hilo[h] \in [fase : Fases, tarea : Tareas, res : Resultados \cup {SinResultado}]
      BY <2>1, HiloOcupado DEF GuardarCierre, Tipos
    <3>2. QED BY <1>0, <1>1, <2>1, <3>1 DEF GuardarCierre
  <2>2. CASE Publicar(h)
    BY <1>0, <1>1, <2>2 DEF Publicar
  <2>3. CASE hilo'[h] = hilo[h]
    <3>1. proceso = "reconciliando" /\ hilo[h] # Libre
      BY <1>0, <1>1, <2>3 DEF Reposado
    <3>2. CASE Abortar \/ Salir \/ Caer
      BY <1>0, <1>1, <3>2, SinMemoriaTipo DEF Abortar, Salir, Caer
    <3>3. ~Iniciar
      BY <3>1 DEF Iniciar, Reconciliado, Reposado, SinIniciar, Vacio, Hilos
    <3>4. ~(Arrancar \/ Servir \/ Apagar)
      BY <3>1 DEF Arrancar, Servir, Apagar
    <3>5. CASE Reconciliar
      BY <3>1, <3>5 DEF Reconciliar, ReconciliarLista, ReconciliarMira, ReconciliarEncola
    <3>6. CASE \E t \in Tareas : SeguirRegistra(t) \/ PasoDeTarea(t) \/ ProxmoxTermina(t) \/ Envejecer(t)
      BY <3>1, <3>6 DEF PasoDeTarea, ProxmoxTermina, Envejecer, SeguirRegistra, SeguirEncola, VenceTemporizador,
                  Reanudar, TomarTurno, EliminarLockResidual
    <3>7. CASE \/ \E w \in Workers : TomarTarea(w)
               \/ \E g \in Hilos : PasoDeHilo(g) \/ FallaCierre(g)
      BY <3>1, <3>7 DEF TomarTarea, PasoDeHilo, RespuestaTerminada, RespuestaPendiente, GuardarCierre, Publicar,
                        FallaCierre
    <3>8. CASE UNCHANGED vars
      BY <3>1, <3>8 DEF vars
    <3>9. QED BY <3>2, <3>3, <3>4, <3>5, <3>6, <3>7, <3>8 DEF Next, Arranque
  <2>4. QED BY <1>1, <2>1, <2>2, <2>3, HiloPaso
<1>2. QED BY <1>1, VacioPaso DEF Reposado

EnCola(c, t) == \E i \in DOMAIN c : c[i] = t

\* What Encolar does to the queue and to the marks (encolar).
LEMMA EncolarPool ==
  ASSUME Tipos, NEW t \in Tareas, Encolar(t)
  PROVE  /\ \A u : EnCola(cola, u) => EnCola(cola', u)
         /\ \A u \in enCurso' : EnCola(cola', u) \/ (u \in enCurso /\ u # t)
<1>0. cola \in Seq(Tareas)
  BY DEF Tipos, TypeOK
<1>1. CASE activo /\ Len(cola) < Buffer
  <2>1. cola' = Append(cola, t) /\ enCurso' = enCurso \cup {t}
    BY <1>1 DEF Encolar
  <2>2. /\ Len(cola') = Len(cola) + 1 /\ DOMAIN cola' = 1..(Len(cola) + 1) /\ DOMAIN cola = 1..Len(cola)
        /\ cola'[Len(cola) + 1] = t /\ \A i \in 1..Len(cola) : cola'[i] = cola[i]
        /\ Len(cola) \in Nat
    BY <1>0, <2>1
  <2>3. QED BY <2>1, <2>2 DEF EnCola
<1>2. CASE ~(activo /\ Len(cola) < Buffer)
  BY <1>2 DEF Encolar
<1>3. QED BY <1>1, <1>2

\* TomarTarea moves the head and keeps the rest (worker).
LEMMA SacarDeCola ==
  ASSUME NEW c \in Seq(Tareas), c # <<>>
  PROVE  \A u : EnCola(c, u) => u = Head(c) \/ EnCola(Tail(c), u)
<1> SUFFICES ASSUME NEW i \in DOMAIN c, c[i] # Head(c) PROVE EnCola(Tail(c), c[i])
  BY DEF EnCola
<1>1. i \in 1..Len(c) /\ Head(c) = c[1] /\ Len(c) \in Nat /\ i \in Nat
  OBVIOUS
<1>2. i # 1
  BY <1>1
<1>3. i - 1 \in 1..(Len(c) - 1)
  BY <1>1, <1>2
<1>4. DOMAIN Tail(c) = 1..(Len(c) - 1)
  OBVIOUS
<1>5. Tail(c)[i - 1] = c[(i - 1) + 1]
  BY <1>3
<1>6. Tail(c)[i - 1] = c[i]
  BY <1>1, <1>5
<1>7. QED BY <1>3, <1>4, <1>6 DEF EnCola

\* A mark goes with its task through every step, or is deleted with it.
LEMMA MarcasPaso ==
  ASSUME Tipos, Reposado, SinMarcasHuerfanas, [Next]_vars
  PROVE  SinMarcasHuerfanas'
<1> DEFINE EnHilo(u) == \E h \in Hilos : hilo[h].tarea = u
<1>0. /\ hilo \in [Hilos -> EstadosDeHilo] /\ cola \in Seq(Tareas) /\ enCurso \subseteq Tareas
      /\ temporizador \in [Tareas -> Nat]
      /\ Libre.fase = "libre" /\ Libre.tarea = 0 /\ \A t \in Tareas : t \in Hilos /\ t # 0
      /\ \A f, t, r : Haciendo(f, t, r).tarea = t
  BY TareasAssumption DEF Tipos, TypeOK, Libre, Haciendo, Hilos
<1>a. \A u : EnElPool(u) <=> EnCola(cola, u) \/ EnHilo(u) \/ temporizador[u] > 0
  BY Zenon DEF EnElPool, EnCola
<1>b. \A u : EnElPool(u)' <=> EnCola(cola', u) \/ EnHilo(u)' \/ temporizador'[u] > 0
  BY Zenon DEF EnElPool, EnCola
\* Steps that leave alone everything EnElPool reads.
<1>d. ASSUME UNCHANGED <<cola, hilo, temporizador, enCurso>>
      PROVE  SinMarcasHuerfanas'
  BY <1>a, <1>b, <1>d DEF SinMarcasHuerfanas
<1>1. CASE UNCHANGED vars
  BY <1>1, <1>d DEF vars
<1>2. CASE Arranque \/ Apagar \/ Salir \/ Caer
  <2>1. CASE Arrancar
    BY <2>1 DEF Arrancar, Reposado, SinIniciar, Vacio, SinMarcasHuerfanas
  <2>2. CASE Iniciar
    <3>1. enCurso = {}
      BY <2>2 DEF Iniciar, Reconciliado, Reposado, SinIniciar, Vacio
    <3>2. ASSUME NEW u \in enCurso' PROVE u \in Tareas /\ hilo'[u].tarea = u
      BY <1>0, <2>2, <3>1, <3>2 DEF Iniciar, ListarEnCurso
    <3>3. QED BY <1>0, <1>b, <3>2 DEF SinMarcasHuerfanas
  <2>3. CASE Servir \/ Apagar
    BY <1>d, <2>3 DEF Servir, Apagar
  <2>4. CASE Abortar \/ Salir \/ Caer
    BY <2>4, SinMemoriaTipo DEF Abortar, Salir, Caer, SinMarcasHuerfanas
  <2>5. QED BY <1>2, <2>1, <2>2, <2>3, <2>4 DEF Arranque
\* Steps of one goroutine.
<1>h. ASSUME NEW h \in Hilos, NEW e, hilo' = [hilo EXCEPT ![h] = e], NEW u,
             \/ e.tarea = hilo[h].tarea
             \/ hilo[h].tarea # u
      PROVE  EnHilo(u) => EnHilo(u)'
  BY <1>0, <1>h
<1>3. ASSUME NEW t \in Tareas, Encolar(t), hilo' = hilo,
             \A u \in Tareas \ {t} : temporizador'[u] = temporizador[u]
      PROVE  SinMarcasHuerfanas'
  <2>1. ASSUME NEW u \in enCurso' PROVE EnElPool(u)'
    <3>1. CASE EnCola(cola', u)
      BY <1>b, <3>1
    <3>2. CASE u \in enCurso /\ u # t
      <4>1. u \in Tareas /\ EnElPool(u)
        BY <1>0, <3>2 DEF SinMarcasHuerfanas
      <4>2. QED BY <1>3, <1>a, <1>b, <3>2, <4>1, EncolarPool
    <3>3. QED BY <1>3, <2>1, <3>1, <3>2, EncolarPool
  <2>2. QED BY <2>1 DEF SinMarcasHuerfanas
<1>4. CASE Reconciliar
  <2>1. CASE ReconciliarEncola
    <3>1. recTarea \in Tareas /\ Encolar(recTarea) /\ hilo' = hilo /\ temporizador' = temporizador
      BY <2>1 DEF ReconciliarEncola, Tipos, TypeOK
    <3>2. QED BY <1>3, <3>1
  <2>2. QED BY <1>4, <1>d, <2>1 DEF Reconciliar, ReconciliarLista, ReconciliarMira
<1>5. ASSUME NEW t \in Tareas,
             SeguirRegistra(t) \/ PasoDeTarea(t) \/ ProxmoxTermina(t) \/ Envejecer(t)
      PROVE  SinMarcasHuerfanas'
  <2>1. CASE SeguirRegistra(t) \/ ProxmoxTermina(t) \/ Envejecer(t)
    BY <1>d, <2>1 DEF SeguirRegistra, ProxmoxTermina, Envejecer
  <2>2. CASE SeguirEncola(t) \/ Reanudar(t)
    <3>1. Encolar(t) /\ hilo' = hilo /\ temporizador' = temporizador
      BY <2>2 DEF SeguirEncola, Reanudar
    <3>2. QED BY <1>3, <3>1
  <2>3. CASE VenceTemporizador(t)
    <3>1. Encolar(t) /\ hilo' = hilo /\ \A u \in Tareas \ {t} : temporizador'[u] = temporizador[u]
      BY <1>0, <2>3 DEF VenceTemporizador
    <3>2. QED BY <1>3, <3>1
  <2>4. CASE TomarTurno(t)
    <3>1. hilo[t].tarea = t
      BY <1>0, <2>4 DEF TomarTurno, Tipos, HilosCoherentes
    <3>2. hilo' = [hilo EXCEPT ![t] = Haciendo("consulta", t, SinResultado)]
          /\ UNCHANGED <<cola, temporizador, enCurso>>
      BY <2>4 DEF TomarTurno
    <3>3. \A u : EnHilo(u) => EnHilo(u)'
      BY <1>0, <1>h, <3>1, <3>2
    <3>4. QED BY <1>a, <1>b, <3>2, <3>3 DEF SinMarcasHuerfanas
  <2>5. CASE EliminarLockResidual(t)
    <3>1. enCurso = {} /\ enCurso' = enCurso
      BY <1>0, <2>5 DEF EliminarLockResidual, Reposado, SinIniciar, Vacio
    <3>2. QED BY <3>1 DEF SinMarcasHuerfanas
  <2>6. QED BY <1>5, <2>1, <2>2, <2>3, <2>4, <2>5 DEF PasoDeTarea
<1>6. ASSUME NEW w \in Workers, TomarTarea(w)
      PROVE  SinMarcasHuerfanas'
  <2> DEFINE e == Haciendo("consulta", Head(cola), SinResultado)
  <2>1. /\ w \in Hilos /\ hilo[w].tarea = 0 /\ hilo' = [hilo EXCEPT ![w] = e] /\ e.tarea = Head(cola)
        /\ cola # <<>> /\ cola' = Tail(cola) /\ UNCHANGED <<temporizador, enCurso>>
    BY <1>0, <1>6 DEF TomarTarea, Hilos
  <2> HIDE DEF e
  <2>2. \A u : u = Head(cola) => EnHilo(u)'
    <3>1. hilo'[w] = e
      BY <1>0, <2>1
    <3>2. hilo'[w].tarea = Head(cola)
      BY <2>1, <3>1
    <3>3. QED BY <2>1, <3>2
  <2>3. \A u \in Tareas : EnHilo(u) => EnHilo(u)'
    BY <1>0, <1>h, <2>1
  <2>4. \A u \in Tareas : EnCola(cola, u) => EnCola(cola', u) \/ EnHilo(u)'
    BY <1>0, <2>1, <2>2, SacarDeCola
  <2>5. QED BY <1>0, <1>a, <1>b, <2>1, <2>3, <2>4 DEF SinMarcasHuerfanas
<1>7. ASSUME NEW h \in Hilos, PasoDeHilo(h) \/ FallaCierre(h)
      PROVE  SinMarcasHuerfanas'
  <2>0. /\ hilo[h] \in [fase : Fases, tarea : Tareas, res : Resultados \cup {SinResultado}]
        /\ cola' = cola
    BY <1>7, HiloOcupado DEF PasoDeHilo, RespuestaTerminada, RespuestaPendiente, GuardarCierre, Publicar,
                             FallaCierre, Tipos
  <2> DEFINE t == hilo[h].tarea
  \* The goroutine keeps its task.
  <2>1. ASSUME NEW e, e.tarea = t, hilo' = [hilo EXCEPT ![h] = e], UNCHANGED <<temporizador, enCurso>>
        PROVE  SinMarcasHuerfanas'
    <3>1. \A u : EnHilo(u) => EnHilo(u)'
      BY <1>h, <2>1
    <3>2. QED BY <1>a, <1>b, <2>0, <2>1, <3>1 DEF SinMarcasHuerfanas
  \* It deletes the mark with the task.
  <2>2. ASSUME NEW e, hilo' = [hilo EXCEPT ![h] = e], enCurso' = enCurso \ {t}, UNCHANGED temporizador
        PROVE  SinMarcasHuerfanas'
    <3>1. \A u : u # t => (EnHilo(u) => EnHilo(u)')
      BY <1>h, <2>2
    <3>2. QED BY <1>a, <1>b, <2>0, <2>2, <3>1 DEF SinMarcasHuerfanas
  <2>3. CASE RespuestaTerminada(h)
    <3>1. hilo' = [hilo EXCEPT ![h] = Haciendo("guardar", t, ClasificarExitStatus(t, remoto[t]))]
          /\ UNCHANGED <<temporizador, enCurso>>
      BY <2>3 DEF RespuestaTerminada
    <3>2. Haciendo("guardar", t, ClasificarExitStatus(t, remoto[t])).tarea = t
      BY <1>0
    <3>3. QED BY <2>1, <3>1, <3>2
  <2>4. CASE RespuestaPendiente(h)
    <3>1. CASE hilo' = [hilo EXCEPT ![h] = Haciendo("guardar", t, Vencida)] /\ UNCHANGED temporizador
      <4>1. enCurso' = enCurso
        BY <2>4 DEF RespuestaPendiente
      <4>2. Haciendo("guardar", t, Vencida).tarea = t
        BY <1>0
      <4>3. QED BY <2>1, <3>1, <4>1, <4>2
    <3>2. CASE /\ hilo' = [hilo EXCEPT ![h] = Libre]
               /\ temporizador' = [temporizador EXCEPT ![t] = @ + 1]
      <4>1. enCurso' = enCurso /\ t \in Tareas
        BY <2>0, <2>4 DEF RespuestaPendiente
      <4>2. temporizador'[t] > 0 /\ \A u \in Tareas \ {t} : temporizador'[u] = temporizador[u]
        BY <1>0, <3>2, <4>1
      <4>3. \A u : u # t => (EnHilo(u) => EnHilo(u)')
        BY <1>h, <3>2
      <4>4. QED BY <1>0, <1>a, <1>b, <2>0, <4>1, <4>2, <4>3 DEF SinMarcasHuerfanas
    <3>3. CASE proceso = "reconciliando" /\ enCurso' = enCurso
      BY <3>3 DEF Reposado, SinIniciar, Vacio, SinMarcasHuerfanas
    <3>4. QED BY <2>4, <3>1, <3>2, <3>3 DEF RespuestaPendiente
  <2>5. CASE GuardarCierre(h)
    <3>1. [hilo[h] EXCEPT !.fase = "publicar"].tarea = t
      BY <2>0
    <3>2. hilo' = [hilo EXCEPT ![h] = [hilo[h] EXCEPT !.fase = "publicar"]] /\ UNCHANGED <<temporizador, enCurso>>
      BY <2>5 DEF GuardarCierre
    <3>3. QED BY <2>1, <3>1, <3>2
  <2>6. CASE FallaCierre(h)
    BY <2>2, <2>6 DEF FallaCierre
  <2>7. CASE Publicar(h)
    BY <2>2, <2>7 DEF Publicar
  <2>8. QED BY <1>7, <2>3, <2>4, <2>5, <2>6, <2>7 DEF PasoDeHilo
<1>8. QED BY <1>1, <1>2, <1>4, <1>5, <1>6, <1>7 DEF Next

\* A task marked in enCurso is somewhere in the pool, so that the reconciler
\* never overlooks a RUNNING row (seguimiento_tareas.go, encolar and finalizar).
THEOREM MarcasConTarea == Spec => []SinMarcasHuerfanas
<1>1. Init => Tipos /\ Reposado /\ SinMarcasHuerfanas
  <2>1. ASSUME Init PROVE Reposado
    <3>1. \A h \in Hilos : hilo[h] = Libre
      BY <2>1, Zenon DEF Init
    <3>2. Libre.fase = "libre" /\ Workers \subseteq Hilos
      BY DEF Libre, Hilos
    <3>3. QED BY <2>1, <3>1, <3>2 DEF Init, Reposado, Vacio
  <2>2. QED BY <2>1, TiposInicial DEF Init, SinMarcasHuerfanas
<1>2. Tipos /\ Reposado /\ SinMarcasHuerfanas /\ [Next]_vars => (Tipos /\ Reposado /\ SinMarcasHuerfanas)'
  BY TiposPaso, ReposadoPaso, MarcasPaso
<1>3. QED BY <1>1, <1>2, PTL DEF Spec
================================================================================
