------------------------------ MODULE Alertas ------------------------------
(***************************************************************************)
(* The alert evaluator: every replica of the API runs it, a turn taken in  *)
(* Redis lets one of them evaluate each cycle, and everything it remembers *)
(* between cycles lives in Redis: the count of cycles over the threshold,  *)
(* the alerts already announced and the last state of each instance.       *)
(*                                                                         *)
(* One measurement (of the host or of the instance: recurso) and one       *)
(* instance.  An alert is "sat" (saturation) or "down".  Taking the alert  *)
(* key, publishing and auditing are three steps, and so are reading the    *)
(* state of the previous cycle, writing the new one and deciding.          *)
(*                                                                         *)
(* Tic is one turn of the lock.  MaxIncidencias bounds, together, the      *)
(* evaluations that outlive their cycle (demoras), the failed calls        *)
(* (fallos), the crashes (caidas) and the keys that reach their 24 hours   *)
(* (vencidas).                                                             *)
(***************************************************************************)
EXTENDS Naturals

CONSTANTS Replicas, CiclosParaAlertar, MaxIncidencias

ASSUME AlertasAssumption ==
    /\ CiclosParaAlertar \in Nat \ {0} /\ MaxIncidencias \in Nat

VARIABLES
    recurso,    \* what the measurement is of
    turno,      \* alert:evaluator:turn is taken
    pend,       \* alert:pending: the count and the cycles since it was written
    activa,     \* alert:active of each kind of alert
    anterior,   \* alert:state:instances
    ev,         \* the evaluation of each replica
    cuentas     \* delays, faults, crashes and expiries spent

vars == <<recurso, turno, pend, activa, anterior, ev, cuentas>>

Claves == {"sat", "down"}
\* Over the threshold, between both thresholds, under the recovery threshold.
Valores == {"alto", "medio", "bajo"}
\* ausente: not in the inventory.
Estados == {"running", "stopped", "ausente"}
\* Beside what was done for an alert, why it was not: sinPub and sinAud record
\* that its publication or its audit entry failed, or its announcer ended first.
\* No step reads them.
SinAlerta == [hay |-> FALSE, pub |-> FALSE, aud |-> FALSE, sinPub |-> FALSE, sinAud |-> FALSE, de |-> "nadie"]
Reposo == [pc |-> "reposo", val |-> "bajo", est |-> "ausente", antes |-> "nada", clave |-> "sat",
           alerta |-> SinAlerta, vieja |-> FALSE]
Muerta == [Reposo EXCEPT !.pc = "muerta"]

TypeOK ==
    /\ recurso \in {"HOST", "VM"} /\ turno \in BOOLEAN
    /\ pend \in [n : 0..CiclosParaAlertar, edad : 0..CiclosParaAlertar]
    /\ pend.n > 0 => pend.edad < CiclosParaAlertar
    /\ \A k \in Claves : activa[k].hay \in BOOLEAN /\ activa[k].de \in Replicas \cup {"nadie"}
    /\ anterior \in Estados \cup {"nada"}
    /\ \A r \in Replicas : ev[r].pc \in {"reposo", "muerta", "host", "mide", "dispara", "publica",
           "audita", "resuelve", "publicaRes", "auditaRes", "lista", "compara", "guarda", "decide"}

Init ==
    /\ recurso \in {"HOST", "VM"}
    /\ turno = FALSE /\ pend = [n |-> 0, edad |-> 0]
    /\ activa = [k \in Claves |-> SinAlerta] /\ anterior = "nada"
    /\ ev = [r \in Replicas |-> Reposo]
    /\ cuentas = [demoras |-> 0, fallos |-> 0, caidas |-> 0, vencidas |-> 0]

-----------------------------------------------------------------------------
\* Vocabulary

En(r, pc) == ev[r].pc = pc
Va(r, pc) == ev' = [ev EXCEPT ![r].pc = pc]
Evaluando(r) == ev[r].pc \notin {"reposo", "muerta"}
Cuenta(c) ==
    /\ cuentas.demoras + cuentas.fallos + cuentas.caidas + cuentas.vencidas < MaxIncidencias
    /\ cuentas' = [cuentas EXCEPT ![c] = @ + 1]
Falla == Cuenta("fallos")

\* The host is measured before the inventory is read, an instance after it.
TrasMedir == IF recurso = "HOST" THEN "lista" ELSE "compara"
Luego(r) == IF ev[r].clave = "sat" THEN TrasMedir ELSE "reposo"

TrasLeer(r, pc) == ev' = [ev EXCEPT ![r].pc = pc, ![r].val = "bajo"]

\* What an evaluation leaves when it ends.
Fin(r, e) == IF e.pc = "reposo" THEN Reposo ELSE e

-----------------------------------------------------------------------------
\* Time and the environment

\* The turn of the cycle expires; a count not written for
\* CiclosParaAlertar cycles expires with it.
Tic ==
    /\ turno
    /\ IF \E r \in Replicas : Evaluando(r) THEN Cuenta("demoras") ELSE UNCHANGED cuentas
    /\ turno' = FALSE
    /\ pend' = IF pend.n = 0 \/ pend.edad + 1 >= CiclosParaAlertar THEN [n |-> 0, edad |-> 0]
               ELSE [pend EXCEPT !.edad = @ + 1]
    /\ ev' = [r \in Replicas |-> [ev[r] EXCEPT !.vieja = Evaluando(r)]]
    /\ UNCHANGED <<recurso, activa, anterior>>

\* 24 hours without being written.
VenceActiva(k) ==
    /\ activa[k].hay /\ Cuenta("vencidas")
    /\ activa' = [activa EXCEPT ![k] = SinAlerta]
    /\ UNCHANGED <<recurso, turno, pend, anterior, ev>>

\* The process ends with the mails it was sending; another one takes its place.
Caer(r) ==
    /\ Cuenta("caidas")
    /\ ev' = [ev EXCEPT ![r] = Muerta]
    /\ activa' = [k \in Claves |-> [activa[k] EXCEPT !.sinPub = @ \/ activa[k].de = r,
                                                   !.sinAud = @ \/ activa[k].de = r]]
    /\ UNCHANGED <<recurso, turno, pend, anterior>>

Iniciar(r) ==
    /\ En(r, "muerta") /\ ev' = [ev EXCEPT ![r] = Reposo]
    /\ UNCHANGED <<recurso, turno, pend, activa, anterior, cuentas>>

-----------------------------------------------------------------------------
\* One evaluation

\* Mutant of Tomar: every replica evaluates every cycle.
TomarSinTurno(r) ==
    /\ En(r, "reposo") /\ turno' = TRUE /\ Va(r, "host")
    /\ UNCHANGED <<recurso, pend, activa, anterior, cuentas>>
\* SET NX of the turn; the replicas that do not take it wait for the next one.
Tomar(r) ==
    /\ En(r, "reposo") /\ ~turno
    /\ turno' = TRUE /\ Va(r, "host")
    /\ UNCHANGED <<recurso, pend, activa, anterior, cuentas>>

\* A host without a fresh state is not measured.
LeerHost(r) ==
    /\ En(r, "host")
    /\ \/ recurso = "HOST" /\ (\E v \in Valores : ev' = [ev EXCEPT ![r].pc = "mide", ![r].val = v])
          /\ UNCHANGED cuentas
       \/ recurso = "HOST" /\ Falla /\ Va(r, "lista")
       \/ recurso = "VM" /\ Va(r, "lista") /\ UNCHANGED cuentas
    /\ UNCHANGED <<recurso, turno, pend, activa, anterior>>

\* An instance is measured if it is running.
Listar(r) ==
    /\ En(r, "lista")
    /\ \/ /\ \E e \in Estados :
               IF recurso = "VM" /\ e = "running"
               THEN \E v \in Valores : ev' = [ev EXCEPT ![r].pc = "mide", ![r].est = e, ![r].val = v]
               ELSE ev' = [ev EXCEPT ![r].pc = "compara", ![r].est = e]
          /\ UNCHANGED cuentas
       \/ Falla /\ ev' = [ev EXCEPT ![r] = Reposo]
    /\ UNCHANGED <<recurso, turno, pend, activa, anterior>>

\* INCR and PEXPIRE: over the threshold.
Contar(r) ==
    /\ En(r, "mide") /\ ev[r].val = "alto"
    /\ \/ LET n == IF pend.n < CiclosParaAlertar THEN pend.n + 1 ELSE pend.n
          IN /\ pend' = [n |-> n, edad |-> 0]
             /\ TrasLeer(r, IF n < CiclosParaAlertar THEN TrasMedir ELSE "dispara")
             /\ UNCHANGED cuentas
       \/ Falla /\ TrasLeer(r, TrasMedir) /\ UNCHANGED pend
    /\ UNCHANGED <<recurso, turno, activa, anterior>>

\* Under the threshold the streak is lost; under recovery the alert ends.
Limpiar(r) ==
    /\ En(r, "mide") /\ ev[r].val # "alto"
    /\ \/ pend' = [n |-> 0, edad |-> 0] /\ UNCHANGED cuentas
       \/ Falla /\ UNCHANGED pend
    /\ TrasLeer(r, IF ev[r].val = "bajo" THEN "resuelve" ELSE TrasMedir)
    /\ UNCHANGED <<recurso, turno, activa, anterior>>

\* SET NX of the alert: who takes it announces it.
Disparar(r) ==
    /\ En(r, "dispara")
    /\ LET k == ev[r].clave
           e(pc) == Fin(r, [ev[r] EXCEPT !.pc = pc])
       IN \/ /\ ~activa[k].hay
             /\ activa' = [activa EXCEPT ![k] = [SinAlerta EXCEPT !.hay = TRUE, !.de = r]]
             /\ ev' = [ev EXCEPT ![r] = e("publica")] /\ UNCHANGED cuentas
          \/ activa[k].hay /\ ev' = [ev EXCEPT ![r] = e(Luego(r))] /\ UNCHANGED <<activa, cuentas>>
          \/ Falla /\ ev' = [ev EXCEPT ![r] = e(Luego(r))] /\ UNCHANGED activa
    /\ UNCHANGED <<recurso, turno, pend, anterior>>

\* The alert r announces: under its key, or in the hands of who resolves it.
Anotada(a, r, campo) == IF a.de = r THEN [a EXCEPT ![campo] = TRUE] ELSE a
Anotar(r, campo, pc) ==
    /\ activa' = [k \in Claves |-> IF k = ev[r].clave THEN Anotada(activa[k], r, campo) ELSE activa[k]]
    /\ ev' = [x \in Replicas |->
                IF x = r THEN Fin(r, [ev[r] EXCEPT !.pc = pc])
                ELSE IF ev[x].clave = ev[r].clave
                     THEN [ev[x] EXCEPT !.alerta = Anotada(@, r, campo)] ELSE ev[x]]

\* Mutant of Publicar: an event that could not be published ends the cycle.
PublicarOSalir(r) ==
    /\ En(r, "publica")
    /\ \/ Anotar(r, "pub", "audita") /\ UNCHANGED cuentas
       \/ Falla /\ Anotar(r, "sinPub", Luego(r))
    /\ UNCHANGED <<recurso, turno, pend, anterior>>
\* ALERT_TRIGGERED; an event that could not be published is only logged.
Publicar(r) ==
    /\ En(r, "publica")
    /\ \/ Anotar(r, "pub", "audita") /\ UNCHANGED cuentas
       \/ Falla /\ Anotar(r, "sinPub", "audita")
    /\ UNCHANGED <<recurso, turno, pend, anterior>>

\* The audit entry, or the error of the database that Registrar only logs; then
\* the mail, sent by a goroutine: no step waits for it or looks at its result.
Auditar(r) ==
    /\ En(r, "audita")
    /\ \/ Anotar(r, "aud", Luego(r)) /\ UNCHANGED cuentas
       \/ Falla /\ Anotar(r, "sinAud", Luego(r))
    /\ UNCHANGED <<recurso, turno, pend, anterior>>

\* Mutant of Resolver: the key is read, and deleted by nobody.
ResolverConGet(r) ==
    /\ En(r, "resuelve")
    /\ LET a == activa[ev[r].clave]
       IN IF a.hay THEN ev' = [ev EXCEPT ![r].pc = "publicaRes", ![r].alerta = a]
          ELSE ev' = [ev EXCEPT ![r] = Fin(r, [@ EXCEPT !.pc = Luego(r)])]
    /\ UNCHANGED <<recurso, turno, pend, activa, anterior, cuentas>>
\* GETDEL of the alert.
Resolver(r) ==
    /\ En(r, "resuelve")
    /\ LET k == ev[r].clave
           sigue == ev' = [ev EXCEPT ![r] = Fin(r, [@ EXCEPT !.pc = Luego(r)])]
       IN \/ /\ activa[k].hay
             /\ ev' = [ev EXCEPT ![r].pc = "publicaRes", ![r].alerta = activa[k]]
             /\ activa' = [activa EXCEPT ![k] = SinAlerta] /\ UNCHANGED cuentas
          \/ ~activa[k].hay /\ sigue /\ UNCHANGED <<activa, cuentas>>
          \/ Falla /\ sigue /\ UNCHANGED activa
    /\ UNCHANGED <<recurso, turno, pend, anterior>>

PublicarResuelta(r) ==
    /\ En(r, "publicaRes")
    /\ \/ UNCHANGED cuentas
       \/ Falla
    /\ Va(r, "auditaRes")
    /\ UNCHANGED <<recurso, turno, pend, activa, anterior>>

AuditarResuelta(r) ==
    /\ En(r, "auditaRes")
    /\ \/ UNCHANGED cuentas
       \/ Falla
    /\ ev' = [ev EXCEPT ![r] = Fin(r, [@ EXCEPT !.pc = Luego(r), !.alerta = SinAlerta])]
    /\ UNCHANGED <<recurso, turno, pend, activa, anterior>>

\* Mutant of Comparar: a failed read is taken for a first cycle.
CompararSinSalir(r) ==
    /\ En(r, "compara")
    /\ \/ ev' = [ev EXCEPT ![r].pc = "guarda", ![r].antes = anterior] /\ UNCHANGED cuentas
       \/ Falla /\ ev' = [ev EXCEPT ![r].pc = "guarda", ![r].antes = "nada"]
    /\ UNCHANGED <<recurso, turno, pend, activa, anterior>>
\* GET of the previous state; a failed read ends the cycle, and the state
\* stays as it was.
Comparar(r) ==
    /\ En(r, "compara")
    /\ \/ ev' = [ev EXCEPT ![r].pc = "guarda", ![r].antes = anterior] /\ UNCHANGED cuentas
       \/ Falla /\ ev' = [ev EXCEPT ![r] = Reposo]
    /\ UNCHANGED <<recurso, turno, pend, activa, anterior>>

\* SET of the state just listed; a first cycle has nothing to compare with.
Guardar(r) ==
    /\ En(r, "guarda")
    /\ \/ anterior' = ev[r].est /\ UNCHANGED cuentas
       \/ Falla /\ UNCHANGED anterior
    /\ ev' = [ev EXCEPT ![r] = Fin(r, [@ EXCEPT
                !.pc = IF ev[r].antes = "nada" THEN "reposo" ELSE "decide",
                !.clave = "down"])]
    /\ UNCHANGED <<recurso, turno, pend, activa>>

\* Running: the alert ends.  It was running and no longer is: an alert, unless
\* a task of Centinela explains it (or the database does not answer), or one
\* of Proxmox if the instance is only stopped.
Decidir(r) ==
    /\ En(r, "decide")
    /\ LET cayo == ev[r].est # "running" /\ ev[r].antes = "running"
           sigue(pc) == ev' = [ev EXCEPT ![r] = Fin(r, [@ EXCEPT !.pc = pc, !.antes = "nada", !.est = "ausente"])]
       IN \/ ev[r].est = "running" /\ sigue("resuelve")
          \/ ev[r].est # "running" /\ sigue("reposo")
          \/ cayo /\ sigue("dispara")
    /\ UNCHANGED <<recurso, turno, pend, activa, anterior, cuentas>>

Paso(r) ==
    \/ LeerHost(r) \/ Listar(r) \/ Contar(r) \/ Limpiar(r) \/ Disparar(r) \/ Publicar(r)
    \/ Auditar(r) \/ Resolver(r) \/ PublicarResuelta(r) \/ AuditarResuelta(r)
    \/ Comparar(r) \/ Guardar(r) \/ Decidir(r)

Next ==
    \/ Tic
    \/ \E k \in Claves : VenceActiva(k)
    \/ \E r \in Replicas : Tomar(r) \/ Paso(r) \/ Caer(r) \/ Iniciar(r)

\* The tickers never stop, an evaluation in progress goes on (its calls have
\* timeouts), and a process that ended is started again.
Fairness ==
    /\ WF_vars(Tic)
    /\ \A r \in Replicas : WF_vars(Paso(r)) /\ WF_vars(Iniciar(r))
    /\ WF_vars(\E r \in Replicas : Tomar(r))

Spec == Init /\ [][Next]_vars /\ Fairness

-----------------------------------------------------------------------------
\* Properties

\* An alert that blocks the ones after it for 24 hours was published and left
\* its audit entry, or its announcer is on its way to do so, or what is missing
\* failed itself or was cut by the end of the process: a publication that fails
\* costs no audit entry.  (disparar: SET NX first, everything else after it.)
Anunciando(k, pc) == \E r \in Replicas : activa[k].de = r /\ ev[r].clave = k /\ En(r, pc)
ActivaAvisada ==
    \A k \in Claves : activa[k].hay =>
        \/ Anunciando(k, "publica")
        \/ /\ activa[k].pub \/ activa[k].sinPub
           /\ activa[k].aud \/ activa[k].sinAud \/ Anunciando(k, "audita")

\* Subscribers never get ALERT_RESOLVED before ALERT_TRIGGERED, unless the
\* announcer failed, ended, or outlived its cycle: the turn keeps two replicas
\* from evaluating one cycle.  (turno, alert_evaluator_worker.go:156-158.)
DisparoAntesQueResolucion ==
    [][\A r \in Replicas :
         En(r, "publicaRes") /\ ev'[r].pc = "auditaRes" =>
             ev[r].alerta.pub \/ ev[r].alerta.sinPub \/ cuentas.demoras > 0]_vars

\* A stop is forgotten only by who was to decide about it: the step that
\* replaces "running" in Redis belongs to an evaluation that read "running" and
\* goes on to decide, unless it outlived its cycle.  If that one ends before it
\* takes the alert, or Redis fails it then, nobody announces the stop.
\* (evaluarCaidas: GET, SET, decide.)
CaidaSeDecide ==
    [][\A r \in Replicas :
         En(r, "guarda") /\ ~En(r, "guarda")' /\ anterior = "running" /\ anterior' # "running" =>
             \/ ev[r].antes = "running" /\ ev'[r].pc = "decide"
             \/ cuentas.demoras > 0]_vars

SiempreLee(v) == \A r \in Replicas : En(r, "mide") => ev[r].val = v

\* A value that stays over the threshold ends in an active alert, and one that
\* stays under recovery ends without one, however the cycles were taken.
Histeresis ==
    /\ recurso = "HOST" /\ <>[]SiempreLee("alto") => <>[](activa["sat"].hay)
    /\ recurso = "HOST" /\ <>[]SiempreLee("bajo") => <>[](~activa["sat"].hay)
=============================================================================
