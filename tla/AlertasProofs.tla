---------------------------- MODULE AlertasProofs ----------------------------
(***************************************************************************)
(* Proofs about Alertas, for any number of replicas and of cycles before   *)
(* an alert: an alert that blocks the next ones was announced, nobody      *)
(* learns of an end before the beginning, and a stop is decided by who     *)
(* replaced the state it was seen in.                                      *)
(***************************************************************************)
EXTENDS Alertas, TLAPS

\* What each variable can hold.
Alarmas == [hay : BOOLEAN, pub : BOOLEAN, aud : BOOLEAN, sinPub : BOOLEAN,
            sinAud : BOOLEAN, de : Replicas \cup {"nadie"}]
Pasos == {"reposo", "muerta", "host", "mide", "dispara", "publica", "audita", "resuelve", "publicaRes",
          "auditaRes", "lista", "compara", "guarda", "decide"}
Evaluaciones == [pc : Pasos, val : Valores, est : Estados, antes : Estados \cup {"nada"}, clave : Claves,
                 alerta : Alarmas, vieja : BOOLEAN]
Tipos ==
    /\ recurso \in {"HOST", "VM"} /\ turno \in BOOLEAN
    /\ activa \in [Claves -> Alarmas] /\ ev \in [Replicas -> Evaluaciones]
    /\ anterior \in Estados \cup {"nada"}
    /\ cuentas \in [demoras : Nat, fallos : Nat, caidas : Nat, vencidas : Nat]

\* While no evaluation outlives its cycle, one replica evaluates, in its turn.
UnaEvaluacion ==
    cuentas.demoras = 0 =>
        /\ \A r \in Replicas : Evaluando(r) => turno
        /\ \A r, x \in Replicas : Evaluando(r) /\ Evaluando(x) => r = x

\* Who took the alert is about to publish it, or tried and is about to audit it.
EnCamino(k, r) ==
    /\ activa[k].de = r /\ ev[r].clave = k
    /\ \/ En(r, "publica")
       \/ En(r, "audita") /\ (activa[k].pub \/ activa[k].sinPub)
Hecha(k) == (activa[k].pub \/ activa[k].sinPub) /\ (activa[k].aud \/ activa[k].sinAud)
Avisada(k) == Hecha(k) \/ \E r \in Replicas : EnCamino(k, r)
ActivasAvisadas == \A k \in Claves : activa[k].hay => Avisada(k)

\* What is resolved was announced, or its announcement failed.
ResueltaAvisada ==
    \A r \in Replicas : En(r, "publicaRes") =>
        ev[r].alerta.pub \/ ev[r].alerta.sinPub \/ cuentas.demoras > 0

\* The state read is still the one that is about to be replaced.
LecturaVigente ==
    \A r \in Replicas : En(r, "guarda") => ev[r].antes = anterior \/ cuentas.demoras > 0

\* The inductive invariant.
IInv == Tipos /\ UnaEvaluacion /\ ActivasAvisadas /\ ResueltaAvisada /\ LecturaVigente

-----------------------------------------------------------------------------
(* The steps of the system, by what they do to the alerts *)

\* The counts of faults only grow.
Crecen == cuentas'.demoras >= cuentas.demoras

\* r goes on with its evaluation: it announces nothing, and the alerts stay.
Sigue(r, n) ==
    /\ ev[r].pc \notin {"publica", "audita"} /\ n.pc \notin {"publica", "audita", "publicaRes"}
    /\ n.pc \notin {"reposo", "muerta"} => Evaluando(r)
    /\ ev' = [ev EXCEPT ![r] = n]
    /\ UNCHANGED <<turno, activa>>
    /\ n.pc = "guarda" => n.antes = anterior
    /\ anterior' # anterior => En(r, "guarda") /\ n.pc # "guarda" /\ (ev[r].antes = "running" => n.pc = "decide")

\* r takes the turn, or the alert of its key, or what was announced under it.
TomaTurno(r) ==
    /\ ~turno /\ turno' = TRUE /\ En(r, "reposo") /\ ev' = [ev EXCEPT ![r].pc = "host"]
    /\ UNCHANGED <<activa, anterior>>
TomaAlerta(r) ==
    LET k == ev[r].clave IN
    /\ En(r, "dispara") /\ ~activa[k].hay
    /\ activa' = [activa EXCEPT ![k] = [SinAlerta EXCEPT !.hay = TRUE, !.de = r]]
    /\ ev' = [ev EXCEPT ![r].pc = "publica"]
    /\ UNCHANGED <<turno, anterior>>
TomaResuelta(r) ==
    LET k == ev[r].clave IN
    /\ En(r, "resuelve") /\ activa[k].hay
    /\ activa' = [activa EXCEPT ![k] = SinAlerta]
    /\ ev' = [ev EXCEPT ![r].pc = "publicaRes", ![r].alerta = activa[k]]
    /\ UNCHANGED <<turno, anterior>>

\* r publishes or audits, or fails to.
Anuncia(r) ==
    /\ \/ En(r, "publica") /\ (Anotar(r, "pub", "audita") \/ Anotar(r, "sinPub", "audita"))
       \/ En(r, "audita") /\ (Anotar(r, "aud", Luego(r)) \/ Anotar(r, "sinAud", Luego(r)))
    /\ UNCHANGED <<turno, anterior>>

\* The environment.
Vence(k) == activa' = [activa EXCEPT ![k] = SinAlerta] /\ UNCHANGED <<turno, anterior, ev>>
Muere(r) ==
    /\ ev' = [ev EXCEPT ![r] = Muerta]
    /\ activa' = [k \in Claves |-> [activa[k] EXCEPT !.sinPub = @ \/ activa[k].de = r,
                                                   !.sinAud = @ \/ activa[k].de = r]]
    /\ UNCHANGED <<turno, anterior>>
Gira ==
    /\ (\E r \in Replicas : Evaluando(r)) => cuentas'.demoras > 0
    /\ ev' = [r \in Replicas |-> [ev[r] EXCEPT !.vieja = Evaluando(r)]]
    /\ UNCHANGED <<activa, anterior>>

\* Spending an incident.
LEMMA CuentaTipo ==
    ASSUME NEW c \in {"demoras", "fallos", "caidas", "vencidas"}, Cuenta(c),
           cuentas \in [demoras : Nat, fallos : Nat, caidas : Nat, vencidas : Nat]
    PROVE  /\ cuentas' \in [demoras : Nat, fallos : Nat, caidas : Nat, vencidas : Nat] /\ Crecen
           /\ c = "demoras" => cuentas'.demoras > 0
<1>1. CASE c = "demoras"
  BY <1>1 DEF Cuenta, Crecen
<1>2. CASE c = "fallos"
  BY <1>2 DEF Cuenta, Crecen
<1>3. CASE c = "caidas"
  BY <1>3 DEF Cuenta, Crecen
<1>4. CASE c = "vencidas"
  BY <1>4 DEF Cuenta, Crecen
<1> QED BY <1>1, <1>2, <1>3, <1>4

\* The values an alert and an evaluation start from.
LEMMA Constantes ==
    /\ SinAlerta \in Alarmas /\ ~SinAlerta.hay /\ ~SinAlerta.pub /\ ~SinAlerta.sinPub
    /\ Reposo \in Evaluaciones /\ Reposo.pc = "reposo"
    /\ Muerta \in Evaluaciones /\ Muerta.pc = "muerta"
<1>1. SinAlerta \in Alarmas /\ ~SinAlerta.hay /\ ~SinAlerta.pub /\ ~SinAlerta.sinPub
  BY DEF SinAlerta, Alarmas
<1>2. Reposo \in Evaluaciones /\ Reposo.pc = "reposo"
  BY <1>1 DEF Reposo, Evaluaciones, Pasos, Valores, Estados, Claves
<1>3. Muerta \in Evaluaciones /\ Muerta.pc = "muerta"
  BY <1>2 DEF Muerta, Evaluaciones, Pasos
<1> QED BY <1>1, <1>2, <1>3

\* Where an evaluation goes on.
LEMMA Adelante ==
    ASSUME NEW r, NEW k
    PROVE  TrasMedir \in {"lista", "compara"} /\ Luego(r) \in {"lista", "compara", "reposo"}
BY DEF TrasMedir, Luego

\* What ends an evaluation, or goes on with it.
LEMMA FinTipo ==
    ASSUME NEW r, NEW e \in Evaluaciones
    PROVE  /\ Fin(r, e) \in Evaluaciones /\ Fin(r, e).pc = e.pc
           /\ (Fin(r, e).antes = e.antes /\ Fin(r, e).clave = e.clave) \/ e.pc = "reposo"
BY Constantes DEF Fin

\* A step that goes on, with its type.
Marcha(r) == \E n \in Evaluaciones : Sigue(r, n)

\* The calls of an evaluation that announce nothing.
LEMMA Marchas ==
    ASSUME Tipos, NEW r \in Replicas,
           \/ LeerHost(r) \/ Listar(r) \/ Contar(r) \/ Limpiar(r) \/ PublicarResuelta(r) \/ AuditarResuelta(r)
           \/ Comparar(r) \/ Guardar(r) \/ Decidir(r) \/ Iniciar(r)
    PROVE  Marcha(r)
<1> DEFINE e == ev[r]
<1>t. e \in Evaluaciones /\ anterior \in Estados \cup {"nada"} /\ TrasMedir \in {"lista", "compara"}
      /\ Luego(r) \in {"lista", "compara", "reposo"}
  BY Adelante DEF Tipos
<1>1. ASSUME NEW n \in Evaluaciones, ev' = [ev EXCEPT ![r] = n],
             e.pc \notin {"publica", "audita", "reposo", "muerta"},
             n.pc \notin {"publica", "audita", "publicaRes", "guarda"}, UNCHANGED <<turno, activa, anterior>>
      PROVE  Marcha(r)
  BY <1>1 DEF Marcha, Sigue, Evaluando
<1>2. CASE LeerHost(r)
  <2>1. PICK n \in Evaluaciones : ev' = [ev EXCEPT ![r] = n] /\ n.pc \in {"mide", "lista"}
    <3>1. ASSUME NEW v \in Valores, ev' = [ev EXCEPT ![r].pc = "mide", ![r].val = v]
          PROVE  \E n \in Evaluaciones : ev' = [ev EXCEPT ![r] = n] /\ n.pc \in {"mide", "lista"}
      <4>1. [e EXCEPT !.pc = "mide", !.val = v] \in Evaluaciones /\ [e EXCEPT !.pc = "mide", !.val = v].pc = "mide"
        BY <1>t DEF Evaluaciones, Pasos
      <4>2. ev' = [ev EXCEPT ![r] = [e EXCEPT !.pc = "mide", !.val = v]]
        BY <3>1
      <4> QED BY <4>1, <4>2
    <3>2. CASE Va(r, "lista")
      <4>1. [e EXCEPT !.pc = "lista"] \in Evaluaciones /\ [e EXCEPT !.pc = "lista"].pc = "lista"
        BY <1>t DEF Evaluaciones, Pasos
      <4>2. ev' = [ev EXCEPT ![r] = [e EXCEPT !.pc = "lista"]]
        BY <3>2 DEF Va
      <4> QED BY <4>1, <4>2
    <3> QED BY <1>2, <3>1, <3>2 DEF LeerHost
  <2> QED BY <1>1, <1>2, <2>1 DEF LeerHost, En
<1>3. CASE Listar(r)
  <2>1. PICK n \in Evaluaciones : ev' = [ev EXCEPT ![r] = n] /\ n.pc \in {"mide", "compara", "reposo"}
    <3>1. ASSUME NEW s \in Estados, NEW v \in Valores, ev' = [ev EXCEPT ![r].pc = "mide", ![r].est = s, ![r].val = v]
          PROVE  \E n \in Evaluaciones : ev' = [ev EXCEPT ![r] = n] /\ n.pc \in {"mide", "compara", "reposo"}
      <4> DEFINE n == [e EXCEPT !.pc = "mide", !.est = s, !.val = v]
      <4>1. n \in Evaluaciones /\ n.pc = "mide"
        BY <1>t DEF Evaluaciones, Pasos
      <4>2. ev' = [ev EXCEPT ![r] = n]
        BY <3>1
      <4> HIDE DEF n
      <4> QED BY <4>1, <4>2
    <3>2. ASSUME NEW s \in Estados, ev' = [ev EXCEPT ![r].pc = "compara", ![r].est = s]
          PROVE  \E n \in Evaluaciones : ev' = [ev EXCEPT ![r] = n] /\ n.pc \in {"mide", "compara", "reposo"}
      <4> DEFINE n == [e EXCEPT !.pc = "compara", !.est = s]
      <4>1. n \in Evaluaciones /\ n.pc = "compara"
        BY <1>t DEF Evaluaciones, Pasos
      <4>2. ev' = [ev EXCEPT ![r] = n]
        BY <3>2
      <4> HIDE DEF n
      <4> QED BY <4>1, <4>2
    <3>3. CASE ev' = [ev EXCEPT ![r] = Reposo]
      BY <3>3, Constantes
    <3>4. \/ \E s \in Estados, v \in Valores : ev' = [ev EXCEPT ![r].pc = "mide", ![r].est = s, ![r].val = v]
          \/ \E s \in Estados : ev' = [ev EXCEPT ![r].pc = "compara", ![r].est = s]
          \/ ev' = [ev EXCEPT ![r] = Reposo]
      BY <1>3 DEF Listar
    <3> QED BY <3>1, <3>2, <3>3, <3>4
  <2> QED BY <1>1, <1>3, <2>1 DEF Listar, En
<1>4. CASE Contar(r) \/ Limpiar(r)
  <2>1. PICK pc \in {"lista", "compara", "dispara", "resuelve"} : TrasLeer(r, pc)
    BY <1>t, <1>4 DEF Contar, Limpiar
  <2>2. [e EXCEPT !.pc = pc, !.val = "bajo"] \in Evaluaciones /\ [e EXCEPT !.pc = pc, !.val = "bajo"].pc = pc
    BY <1>t, <2>1 DEF Evaluaciones, Pasos, Valores
  <2>3. ev' = [ev EXCEPT ![r] = [e EXCEPT !.pc = pc, !.val = "bajo"]]
    BY <2>1 DEF TrasLeer
  <2> QED BY <1>1, <1>4, <2>1, <2>2, <2>3 DEF Contar, Limpiar, En
<1>5. CASE PublicarResuelta(r)
  <2>1. [e EXCEPT !.pc = "auditaRes"] \in Evaluaciones /\ [e EXCEPT !.pc = "auditaRes"].pc = "auditaRes"
    BY <1>t DEF Evaluaciones, Pasos
  <2>2. ev' = [ev EXCEPT ![r] = [e EXCEPT !.pc = "auditaRes"]]
    BY <1>5 DEF PublicarResuelta, Va
  <2> QED BY <1>1, <1>5, <2>1, <2>2 DEF PublicarResuelta, En
<1>6. CASE AuditarResuelta(r)
  <2> DEFINE n == [e EXCEPT !.pc = Luego(r), !.alerta = SinAlerta]
  <2>1. n \in Evaluaciones /\ n.pc = Luego(r)
    BY <1>t, Constantes DEF Evaluaciones, Pasos
  <2>2. ev' = [ev EXCEPT ![r] = Fin(r, n)]
    BY <1>6 DEF AuditarResuelta
  <2> HIDE DEF n
  <2> QED BY <1>t, <1>1, <1>6, <2>1, <2>2, FinTipo DEF AuditarResuelta, En
<1>7. CASE Comparar(r)
  <2>1. CASE ev' = [ev EXCEPT ![r] = Reposo]
    BY <1>1, <1>7, <2>1, Constantes DEF Comparar, En
  <2>2. CASE ev' = [ev EXCEPT ![r].pc = "guarda", ![r].antes = anterior]
    <3> DEFINE n == [e EXCEPT !.pc = "guarda", !.antes = anterior]
    <3>1. n \in Evaluaciones /\ n.pc = "guarda" /\ n.antes = anterior
      BY <1>t DEF Evaluaciones, Pasos
    <3>2. ev' = [ev EXCEPT ![r] = n]
      BY <2>2
    <3> HIDE DEF n
    <3> QED BY <1>7, <3>1, <3>2 DEF Comparar, En, Marcha, Sigue, Evaluando
  <2> QED BY <1>7, <2>1, <2>2 DEF Comparar
<1>8. CASE Guardar(r)
  <2> DEFINE n == [e EXCEPT !.pc = IF e.antes = "nada" THEN "reposo" ELSE "decide", !.clave = "down"]
  <2>1. n \in Evaluaciones /\ n.pc \in {"reposo", "decide"} /\ (e.antes = "running" => n.pc = "decide")
    BY <1>t DEF Evaluaciones, Pasos, Claves
  <2>2. ev' = [ev EXCEPT ![r] = Fin(r, n)] /\ En(r, "guarda") /\ UNCHANGED <<turno, activa>>
    BY <1>8 DEF Guardar
  <2> HIDE DEF n
  <2>3. Fin(r, n) \in Evaluaciones /\ Fin(r, n).pc = n.pc
    BY <2>1, FinTipo
  <2> QED BY <2>1, <2>2, <2>3 DEF Marcha, Sigue, En, Evaluando
<1>9. CASE Decidir(r)
  <2>1. PICK pc \in {"resuelve", "reposo", "dispara"} :
           ev' = [ev EXCEPT ![r] = Fin(r, [@ EXCEPT !.pc = pc, !.antes = "nada", !.est = "ausente"])]
    BY <1>9 DEF Decidir
  <2> DEFINE n == [e EXCEPT !.pc = pc, !.antes = "nada", !.est = "ausente"]
  <2>2. n \in Evaluaciones /\ n.pc = pc
    BY <1>t, <2>1 DEF Evaluaciones, Pasos, Estados
  <2>3. ev' = [ev EXCEPT ![r] = Fin(r, n)]
    BY <2>1
  <2> HIDE DEF n
  <2> QED BY <1>1, <1>9, <2>1, <2>2, <2>3, FinTipo DEF Decidir, En
<1>10. CASE Iniciar(r)
  BY <1>10, Constantes DEF Iniciar, Marcha, Sigue, En
<1> QED BY <1>2, <1>3, <1>4, <1>5, <1>6, <1>7, <1>8, <1>9, <1>10

\* Every step of the system is one of these.
LEMMA CadaPaso ==
    ASSUME Tipos, Next
    PROVE  /\ cuentas' \in [demoras : Nat, fallos : Nat, caidas : Nat, vencidas : Nat] /\ Crecen
           /\ UNCHANGED recurso /\ anterior' \in Estados \cup {"nada"}
           /\ \/ Gira /\ turno' = FALSE
              \/ \E k \in Claves : Vence(k)
              \/ \E r \in Replicas : TomaTurno(r) \/ Marcha(r) \/ TomaAlerta(r) \/ TomaResuelta(r)
                                     \/ Anuncia(r) \/ Muere(r)
<1> DEFINE G == \/ Gira /\ turno' = FALSE
                \/ \E k \in Claves : Vence(k)
                \/ \E r \in Replicas : TomaTurno(r) \/ Marcha(r) \/ TomaAlerta(r) \/ TomaResuelta(r)
                                       \/ Anuncia(r) \/ Muere(r)
           C == /\ cuentas' \in [demoras : Nat, fallos : Nat, caidas : Nat, vencidas : Nat] /\ Crecen
                /\ UNCHANGED recurso /\ anterior' \in Estados \cup {"nada"}
<1>t. cuentas \in [demoras : Nat, fallos : Nat, caidas : Nat, vencidas : Nat] /\ ev \in [Replicas -> Evaluaciones]
      /\ anterior \in Estados \cup {"nada"}
  BY DEF Tipos
<1>f. (Falla \/ UNCHANGED cuentas) => cuentas' \in [demoras : Nat, fallos : Nat, caidas : Nat, vencidas : Nat] /\ Crecen
  BY <1>t, CuentaTipo DEF Falla, Crecen
<1>1. CASE Tic
  <2>1. cuentas' \in [demoras : Nat, fallos : Nat, caidas : Nat, vencidas : Nat] /\ Crecen
        /\ ((\E r \in Replicas : Evaluando(r)) => cuentas'.demoras > 0)
    BY <1>t, <1>f, <1>1, CuentaTipo DEF Tic
  <2> QED BY <1>t, <1>1, <2>1 DEF Tic, Gira
<1>2. ASSUME NEW k \in Claves, VenceActiva(k) PROVE C /\ G
  BY <1>t, <1>2, CuentaTipo DEF VenceActiva, Vence
<1>3. ASSUME NEW r \in Replicas, Tomar(r) PROVE C /\ G
  BY <1>t, <1>f, <1>3 DEF Tomar, Va, TomaTurno
<1>4. ASSUME NEW r \in Replicas, Caer(r) PROVE C /\ G
  BY <1>t, <1>4, CuentaTipo DEF Caer, Muere
<1>5. ASSUME NEW r \in Replicas,
             \/ LeerHost(r) \/ Listar(r) \/ Contar(r) \/ Limpiar(r) \/ PublicarResuelta(r) \/ AuditarResuelta(r)
             \/ Comparar(r) \/ Guardar(r) \/ Decidir(r) \/ Iniciar(r)
      PROVE  C /\ G
  <2>1. (Falla \/ UNCHANGED cuentas) /\ UNCHANGED recurso /\ anterior' \in {anterior, ev[r].est}
    BY <1>5 DEF LeerHost, Listar, Contar, Limpiar, PublicarResuelta, AuditarResuelta, Comparar, Guardar, Decidir, Iniciar
  <2>2. ev[r].est \in Estados
    BY <1>t DEF Evaluaciones
  <2> QED BY <1>t, <1>f, <1>5, <2>1, <2>2, Marchas
<1>6. ASSUME NEW r \in Replicas, Publicar(r) \/ Auditar(r) PROVE C /\ G
  BY <1>t, <1>f, <1>6 DEF Publicar, Auditar, Anuncia
<1>7. ASSUME NEW r \in Replicas, Disparar(r) PROVE C /\ G
  <2> DEFINE k == ev[r].clave
             e(pc) == Fin(r, [ev[r] EXCEPT !.pc = pc])
  <2>1. (Falla \/ UNCHANGED cuentas) /\ UNCHANGED <<recurso, anterior, turno>> /\ En(r, "dispara")
        /\ \/ /\ ~activa[k].hay /\ activa' = [activa EXCEPT ![k] = [SinAlerta EXCEPT !.hay = TRUE, !.de = r]]
              /\ ev' = [ev EXCEPT ![r] = e("publica")]
           \/ ev' = [ev EXCEPT ![r] = e(Luego(r))] /\ UNCHANGED activa
    BY <1>7 DEF Disparar
  <2>2. e("publica") = [ev[r] EXCEPT !.pc = "publica"]
    BY <1>t DEF Fin, Evaluaciones
  <2>3. [ev[r] EXCEPT !.pc = Luego(r)] \in Evaluaciones /\ [ev[r] EXCEPT !.pc = Luego(r)].pc = Luego(r)
        /\ Luego(r) \in {"lista", "compara", "reposo"}
    BY <1>t, Adelante DEF Evaluaciones, Pasos
  <2>4. e(Luego(r)) \in Evaluaciones /\ e(Luego(r)).pc \in {"lista", "compara", "reposo"}
    BY <2>3, FinTipo
  <2> HIDE DEF e
  <2>5. CASE ev' = [ev EXCEPT ![r] = e(Luego(r))] /\ UNCHANGED activa
    <3>1. Sigue(r, e(Luego(r)))
      BY <2>1, <2>4, <2>5 DEF Sigue, En, Evaluando
    <3> QED BY <1>t, <1>f, <2>1, <2>4, <3>1 DEF Marcha
  <2>6. CASE ev' = [ev EXCEPT ![r] = e("publica")] /\ ~activa[k].hay
             /\ activa' = [activa EXCEPT ![k] = [SinAlerta EXCEPT !.hay = TRUE, !.de = r]]
    <3>1. TomaAlerta(r)
      BY <2>1, <2>2, <2>6 DEF TomaAlerta
    <3> QED BY <1>t, <1>f, <2>1, <3>1
  <2> QED BY <2>1, <2>5, <2>6
<1>8. ASSUME NEW r \in Replicas, Resolver(r) PROVE C /\ G
  <2> DEFINE k == ev[r].clave
             n == [ev[r] EXCEPT !.pc = Luego(r)]
  <2>1. (Falla \/ UNCHANGED cuentas) /\ UNCHANGED <<recurso, anterior, turno>> /\ En(r, "resuelve")
        /\ \/ TomaResuelta(r)
           \/ ev' = [ev EXCEPT ![r] = Fin(r, n)] /\ UNCHANGED activa
    BY <1>8 DEF Resolver, TomaResuelta
  <2>2. n \in Evaluaciones /\ n.pc = Luego(r) /\ Luego(r) \in {"lista", "compara", "reposo"}
    BY <1>t, Adelante DEF Evaluaciones, Pasos
  <2> HIDE DEF n
  <2>3. CASE ev' = [ev EXCEPT ![r] = Fin(r, n)] /\ UNCHANGED activa
    <3>1. Fin(r, n) \in Evaluaciones /\ Fin(r, n).pc = n.pc
      BY <2>2, FinTipo
    <3>2. Sigue(r, Fin(r, n))
      BY <2>1, <2>2, <2>3, <3>1 DEF Sigue, En, Evaluando
    <3> QED BY <1>t, <1>f, <2>1, <3>1, <3>2 DEF Marcha
  <2> QED BY <1>t, <1>f, <2>1, <2>3
<1> HIDE DEF C, G
<1>9. ASSUME NEW r \in Replicas, Tomar(r) \/ Paso(r) \/ Caer(r) \/ Iniciar(r) PROVE C /\ G
  BY <1>3, <1>4, <1>5, <1>6, <1>7, <1>8, <1>9 DEF Paso
<1>10. C /\ G
  <2>1. CASE Tic
    BY <1>1, <2>1 DEF C, G
  <2> QED BY <1>2, <1>9, <2>1 DEF Next
<1> QED BY <1>10 DEF C, G

-----------------------------------------------------------------------------
(* Types, and the announcements *)

\* What is written down of an alert.
Campos == {"pub", "aud", "sinPub", "sinAud"}

\* Writing down what r did changes only the alert r announces.
LEMMA AnotadaTipo ==
    ASSUME NEW a \in Alarmas, NEW r, NEW campo \in Campos
    PROVE  LET b == Anotada(a, r, campo)
           IN /\ b \in Alarmas /\ (b.hay <=> a.hay) /\ b.de = a.de
              /\ \A c \in Campos : a[c] => b[c]
              /\ a.de = r => b[campo]
<1>1. CASE a.de = r /\ campo = "pub"
  BY <1>1 DEF Anotada, Alarmas, Campos
<1>2. CASE a.de = r /\ campo = "aud"
  BY <1>2 DEF Anotada, Alarmas, Campos
<1>3. CASE a.de = r /\ campo = "sinPub"
  BY <1>3 DEF Anotada, Alarmas, Campos
<1>4. CASE a.de = r /\ campo = "sinAud"
  BY <1>4 DEF Anotada, Alarmas, Campos
<1>5. CASE a.de # r
  BY <1>5 DEF Anotada
<1> QED BY <1>1, <1>2, <1>3, <1>4, <1>5 DEF Campos

\* What an announcement does to the alerts and to every evaluation.
LEMMA AnotarTipo ==
    ASSUME Tipos, NEW r \in Replicas, NEW campo \in Campos,
           NEW pc \in {"audita", "lista", "compara", "reposo"}, Anotar(r, campo, pc)
    PROVE  /\ activa' \in [Claves -> Alarmas] /\ ev' \in [Replicas -> Evaluaciones]
           /\ \A k \in Claves :
                /\ (activa'[k].hay <=> activa[k].hay) /\ activa'[k].de = activa[k].de
                /\ \A c \in Campos : activa[k][c] => activa'[k][c]
                /\ k = ev[r].clave /\ activa[k].de = r => activa'[k][campo]
           /\ ev'[r].pc = pc /\ (pc = "audita" => ev'[r].clave = ev[r].clave)
           /\ \A x \in Replicas \ {r} :
                /\ ev'[x].pc = ev[x].pc /\ ev'[x].clave = ev[x].clave /\ ev'[x].antes = ev[x].antes
                /\ \A c \in Campos : ev[x].alerta[c] => ev'[x].alerta[c]
<1>t. activa \in [Claves -> Alarmas] /\ ev \in [Replicas -> Evaluaciones]
  BY DEF Tipos
<1>1. \A k \in Claves : activa'[k] = activa[k] \/ (k = ev[r].clave /\ activa'[k] = Anotada(activa[k], r, campo))
  BY DEF Anotar
<1>2. \A k \in Claves : Anotada(activa[k], r, campo) \in Alarmas
  BY <1>t, AnotadaTipo
<1>3. activa' \in [Claves -> Alarmas]
  BY <1>t, <1>2 DEF Anotar
<1>4. ASSUME NEW k \in Claves
      PROVE  /\ (activa'[k].hay <=> activa[k].hay) /\ activa'[k].de = activa[k].de
             /\ \A c \in Campos : activa[k][c] => activa'[k][c]
  BY <1>t, <1>1, AnotadaTipo
<1>5. ASSUME NEW k \in Claves, k = ev[r].clave, activa[k].de = r
      PROVE  activa'[k][campo]
  <2>1. activa'[k] = Anotada(activa[k], r, campo)
    BY <1>5 DEF Anotar
  <2> QED BY <1>t, <1>5, <2>1, AnotadaTipo
<1> DEFINE n == [ev[r] EXCEPT !.pc = pc]
<1>6. n \in Evaluaciones /\ n.pc = pc /\ n.clave = ev[r].clave
  BY <1>t DEF Evaluaciones, Pasos
<1>7. ev'[r] = Fin(r, n)
  BY DEF Anotar
<1> HIDE DEF n
<1>8. ev'[r] \in Evaluaciones /\ ev'[r].pc = pc /\ (pc = "audita" => ev'[r].clave = ev[r].clave)
  BY <1>6, <1>7, FinTipo
<1>9. ASSUME NEW x \in Replicas \ {r}
      PROVE  /\ ev'[x] \in Evaluaciones
             /\ ev'[x].pc = ev[x].pc /\ ev'[x].clave = ev[x].clave /\ ev'[x].antes = ev[x].antes
             /\ \A c \in Campos : ev[x].alerta[c] => ev'[x].alerta[c]
  <2> DEFINE b == Anotada(ev[x].alerta, r, campo)
  <2>1. ev[x] \in Evaluaciones /\ ev[x].alerta \in Alarmas
    BY <1>t DEF Evaluaciones
  <2>2. b \in Alarmas /\ \A c \in Campos : ev[x].alerta[c] => b[c]
    BY <2>1, AnotadaTipo
  <2>3. ev'[x] = ev[x] \/ ev'[x] = [ev[x] EXCEPT !.alerta = b]
    BY DEF Anotar
  <2> HIDE DEF b
  <2>4. CASE ev'[x] = [ev[x] EXCEPT !.alerta = b]
    <3>1. /\ ev'[x] \in Evaluaciones /\ ev'[x].alerta = b
          /\ ev'[x].pc = ev[x].pc /\ ev'[x].clave = ev[x].clave /\ ev'[x].antes = ev[x].antes
      BY <2>1, <2>2, <2>4 DEF Evaluaciones
    <3> QED BY <2>2, <3>1
  <2> QED BY <2>1, <2>3, <2>4
<1>10. ev' \in [Replicas -> Evaluaciones]
  <2>1. \A x \in Replicas : ev'[x] \in Evaluaciones
    BY <1>8, <1>9
  <2> QED BY <2>1 DEF Anotar
<1> QED BY <1>3, <1>4, <1>5, <1>8, <1>9, <1>10

\* The fields of an announcement, for each of its outcomes.
LEMMA AnunciaTipo ==
    ASSUME Tipos, NEW r \in Replicas, Anuncia(r)
    PROVE  \E campo \in Campos, pc \in {"audita", "lista", "compara", "reposo"} :
              /\ Anotar(r, campo, pc)
              /\ \/ En(r, "publica") /\ pc = "audita" /\ campo \in {"pub", "sinPub"}
                 \/ En(r, "audita") /\ pc # "audita" /\ campo \in {"aud", "sinAud"}
<1>1. Luego(r) \in {"lista", "compara", "reposo"}
  BY Adelante
<1> QED BY <1>1 DEF Anuncia, Campos

\* What a crash, a turn of the lock and the taking of an alert leave.
LEMMA MuereTipo ==
    ASSUME Tipos, NEW r \in Replicas, Muere(r)
    PROVE  /\ activa' \in [Claves -> Alarmas] /\ ev' \in [Replicas -> Evaluaciones] /\ ev'[r].pc = "muerta"
           /\ \A x \in Replicas \ {r} : ev'[x] = ev[x]
           /\ \A k \in Claves :
                /\ (activa'[k].hay <=> activa[k].hay) /\ activa'[k].de = activa[k].de
                /\ \A c \in Campos : activa[k][c] => activa'[k][c]
                /\ activa[k].de = r => activa'[k].sinPub /\ activa'[k].sinAud
<1> DEFINE x(k) == activa[k].sinPub \/ activa[k].de = r
           y(k) == activa[k].sinAud \/ activa[k].de = r
<1>t. activa \in [Claves -> Alarmas] /\ ev \in [Replicas -> Evaluaciones]
      /\ \A k \in Claves : x(k) \in BOOLEAN /\ y(k) \in BOOLEAN
  BY DEF Tipos
<1>1. activa' = [k \in Claves |-> [activa[k] EXCEPT !.sinPub = x(k), !.sinAud = y(k)]] /\ ev' = [ev EXCEPT ![r] = Muerta]
  BY DEF Muere
<1>2. \A k \in Claves : (x(k) <=> activa[k].sinPub \/ activa[k].de = r) /\ (y(k) <=> activa[k].sinAud \/ activa[k].de = r)
  OBVIOUS
<1> HIDE DEF x, y
<1>3. ASSUME NEW k \in Claves
      PROVE  /\ activa'[k] \in Alarmas
             /\ (activa'[k].hay <=> activa[k].hay) /\ activa'[k].de = activa[k].de
             /\ activa'[k].pub = activa[k].pub /\ activa'[k].aud = activa[k].aud
             /\ activa'[k].sinPub = x(k) /\ activa'[k].sinAud = y(k)
  <2>1. /\ activa'[k] = [activa[k] EXCEPT !.sinPub = x(k), !.sinAud = y(k)]
        /\ activa[k] \in Alarmas /\ x(k) \in BOOLEAN /\ y(k) \in BOOLEAN
    BY <1>t, <1>1
  <2> QED BY <2>1 DEF Alarmas
<1>4. activa' \in [Claves -> Alarmas]
  BY <1>1, <1>3
<1>5. ASSUME NEW k \in Claves, NEW c \in Campos, activa[k][c]
      PROVE  activa'[k][c]
  <2>1. CASE c \in {"pub", "aud"}
    BY <1>3, <1>5, <2>1
  <2>2. CASE c = "sinPub"
    BY <1>2, <1>3, <1>5, <2>2
  <2>3. CASE c = "sinAud"
    BY <1>2, <1>3, <1>5, <2>3
  <2> QED BY <2>1, <2>2, <2>3 DEF Campos
<1>6. ASSUME NEW k \in Claves, activa[k].de = r
      PROVE  activa'[k].sinPub /\ activa'[k].sinAud
  BY <1>2, <1>3, <1>6
<1>7. ev'[r].pc = "muerta" /\ \A z \in Replicas \ {r} : ev'[z] = ev[z]
  BY <1>t, <1>1, Constantes
<1>8. ev' \in [Replicas -> Evaluaciones]
  BY <1>t, <1>1, Constantes
<1> QED BY <1>3, <1>4, <1>5, <1>6, <1>7, <1>8

\* A turn of the lock only ages the evaluations.
LEMMA GiraTipo ==
    ASSUME Tipos, Gira
    PROVE  /\ ev' \in [Replicas -> Evaluaciones]
           /\ \A x \in Replicas : /\ ev'[x].pc = ev[x].pc /\ ev'[x].clave = ev[x].clave
                                  /\ ev'[x].antes = ev[x].antes /\ ev'[x].alerta = ev[x].alerta
<1> DEFINE v(x) == Evaluando(x)
<1>1. ev' = [x \in Replicas |-> [ev[x] EXCEPT !.vieja = v(x)]] /\ \A x \in Replicas : v(x) \in BOOLEAN
  BY DEF Gira, Evaluando
<1>2. ev \in [Replicas -> Evaluaciones]
  BY DEF Tipos
<1> HIDE DEF v
<1>3. \A x \in Replicas : /\ ev'[x] \in Evaluaciones /\ ev'[x].pc = ev[x].pc /\ ev'[x].clave = ev[x].clave
                          /\ ev'[x].antes = ev[x].antes /\ ev'[x].alerta = ev[x].alerta
  BY <1>1, <1>2 DEF Evaluaciones
<1> QED BY <1>1, <1>3

\* Taking the key of an alert.
LEMMA TomaAlertaTipo ==
    ASSUME Tipos, NEW r \in Replicas, TomaAlerta(r)
    PROVE  /\ activa' \in [Claves -> Alarmas] /\ ev' \in [Replicas -> Evaluaciones]
           /\ ev[r].clave \in Claves /\ ev[r].pc = "dispara" /\ ev'[r].pc = "publica" /\ ev'[r].clave = ev[r].clave
           /\ activa'[ev[r].clave].de = r /\ (\A x \in Replicas \ {r} : ev'[x] = ev[x])
           /\ \A k \in Claves \ {ev[r].clave} : activa'[k] = activa[k]
<1> DEFINE k == ev[r].clave
           a == [SinAlerta EXCEPT !.hay = TRUE, !.de = r]
           n == [ev[r] EXCEPT !.pc = "publica"]
<1>t. activa \in [Claves -> Alarmas] /\ ev \in [Replicas -> Evaluaciones] /\ k \in Claves
  BY DEF Tipos, Evaluaciones
<1>1. a \in Alarmas /\ a.de = r
  BY Constantes DEF Alarmas
<1>2. n \in Evaluaciones /\ n.pc = "publica" /\ n.clave = k
  BY <1>t DEF Evaluaciones, Pasos
<1>3. activa' = [activa EXCEPT ![k] = a] /\ ev' = [ev EXCEPT ![r] = n] /\ ev[r].pc = "dispara"
  BY DEF TomaAlerta, En
<1> HIDE DEF a, n
<1> QED BY <1>t, <1>1, <1>2, <1>3

\* Taking away an alert that ends.
LEMMA TomaResueltaTipo ==
    ASSUME Tipos, NEW r \in Replicas, TomaResuelta(r)
    PROVE  /\ activa' \in [Claves -> Alarmas] /\ ev' \in [Replicas -> Evaluaciones]
           /\ ev[r].clave \in Claves /\ ev[r].pc = "resuelve" /\ activa[ev[r].clave].hay
           /\ ev'[r].pc = "publicaRes" /\ ev'[r].alerta = activa[ev[r].clave]
           /\ ~activa'[ev[r].clave].hay /\ (\A x \in Replicas \ {r} : ev'[x] = ev[x])
           /\ \A k \in Claves \ {ev[r].clave} : activa'[k] = activa[k]
<1> DEFINE k == ev[r].clave
           n == [ev[r] EXCEPT !.pc = "publicaRes", !.alerta = activa[k]]
<1>t. activa \in [Claves -> Alarmas] /\ ev \in [Replicas -> Evaluaciones] /\ k \in Claves /\ activa[k] \in Alarmas
  BY DEF Tipos, Evaluaciones
<1>1. n \in Evaluaciones /\ n.pc = "publicaRes" /\ n.alerta = activa[k]
  BY <1>t DEF Evaluaciones, Pasos
<1>2. activa' = [activa EXCEPT ![k] = SinAlerta] /\ ev' = [ev EXCEPT ![r] = n] /\ ev[r].pc = "resuelve" /\ activa[k].hay
  BY DEF TomaResuelta, En
<1> HIDE DEF n
<1> QED BY <1>t, <1>1, <1>2, Constantes

\* Taking the turn only moves who takes it.
LEMMA TomaTurnoTipo ==
    ASSUME Tipos, NEW r \in Replicas, TomaTurno(r)
    PROVE  /\ ev' \in [Replicas -> Evaluaciones] /\ ev'[r].pc = "host" /\ ev[r].pc = "reposo"
           /\ \A x \in Replicas \ {r} : ev'[x] = ev[x]
<1> DEFINE n == [ev[r] EXCEPT !.pc = "host"]
<1>1. ev \in [Replicas -> Evaluaciones]
  BY DEF Tipos
<1>2. n \in Evaluaciones /\ n.pc = "host"
  BY <1>1 DEF Evaluaciones, Pasos
<1>3. ev' = [ev EXCEPT ![r] = n] /\ ev[r].pc = "reposo"
  BY DEF TomaTurno, En
<1> HIDE DEF n
<1> QED BY <1>1, <1>2, <1>3

\* Types, for every step.
LEMMA TiposPaso ==
    ASSUME Tipos, Next
    PROVE  Tipos'
<1>c. /\ cuentas' \in [demoras : Nat, fallos : Nat, caidas : Nat, vencidas : Nat]
      /\ UNCHANGED recurso /\ anterior' \in Estados \cup {"nada"}
  BY CadaPaso
<1>t. recurso \in {"HOST", "VM"} /\ turno \in BOOLEAN /\ activa \in [Claves -> Alarmas] /\ ev \in [Replicas -> Evaluaciones]
  BY DEF Tipos
<1>g. ASSUME turno' \in BOOLEAN, activa' \in [Claves -> Alarmas], ev' \in [Replicas -> Evaluaciones] PROVE Tipos'
  BY <1>c, <1>t, <1>g DEF Tipos
<1>1. CASE Gira /\ turno' = FALSE
  BY <1>t, <1>g, <1>1, GiraTipo DEF Gira
<1>2. ASSUME NEW k \in Claves, Vence(k) PROVE Tipos'
  BY <1>t, <1>g, <1>2, Constantes DEF Vence
<1>3. ASSUME NEW r \in Replicas, TomaTurno(r) PROVE Tipos'
  BY <1>t, <1>g, <1>3, TomaTurnoTipo DEF TomaTurno
<1>4. ASSUME NEW r \in Replicas, Marcha(r) PROVE Tipos'
  BY <1>t, <1>g, <1>4 DEF Marcha, Sigue
<1>5. ASSUME NEW r \in Replicas, TomaAlerta(r) PROVE Tipos'
  BY <1>t, <1>g, <1>5, TomaAlertaTipo DEF TomaAlerta
<1>6. ASSUME NEW r \in Replicas, TomaResuelta(r) PROVE Tipos'
  BY <1>t, <1>g, <1>6, TomaResueltaTipo DEF TomaResuelta
<1>7. ASSUME NEW r \in Replicas, Anuncia(r) PROVE Tipos'
  <2>1. activa' \in [Claves -> Alarmas] /\ ev' \in [Replicas -> Evaluaciones]
    BY <1>7, AnunciaTipo, AnotarTipo
  <2> QED BY <1>t, <1>g, <1>7, <2>1 DEF Anuncia
<1>8. ASSUME NEW r \in Replicas, Muere(r) PROVE Tipos'
  BY <1>t, <1>g, <1>8, MuereTipo DEF Muere
<1> QED BY <1>1, <1>2, <1>3, <1>4, <1>5, <1>6, <1>7, <1>8, CadaPaso

-----------------------------------------------------------------------------
(* The four parts of the invariant *)

\* The turn lets one evaluation in, for every step.
LEMMA UnaEvaluacionPaso ==
    ASSUME Tipos, UnaEvaluacion, Next
    PROVE  UnaEvaluacion'
<1> SUFFICES ASSUME cuentas'.demoras = 0
             PROVE  /\ \A r \in Replicas : Evaluando(r)' => turno'
                    /\ \A r, x \in Replicas : Evaluando(r)' /\ Evaluando(x)' => r = x
  BY DEF UnaEvaluacion
<1>d. cuentas.demoras = 0
  <2>1. cuentas.demoras \in Nat /\ cuentas'.demoras >= cuentas.demoras
    BY CadaPaso DEF Crecen, Tipos
  <2> QED BY <2>1
<1>u. /\ \A r \in Replicas : Evaluando(r) => turno
      /\ \A r, x \in Replicas : Evaluando(r) /\ Evaluando(x) => r = x
  BY <1>d DEF UnaEvaluacion
<1>t. ev \in [Replicas -> Evaluaciones]
  BY DEF Tipos
<1>1. ASSUME UNCHANGED turno, \A x \in Replicas : Evaluando(x)' => Evaluando(x)
      PROVE  /\ \A r \in Replicas : Evaluando(r)' => turno'
             /\ \A r, x \in Replicas : Evaluando(r)' /\ Evaluando(x)' => r = x
  BY <1>u, <1>1
<1>2. CASE Gira
  <2>1. \A x \in Replicas : ev[x].pc \in {"reposo", "muerta"}
    BY <1>2 DEF Gira, Evaluando
  <2>2. \A x \in Replicas : ~Evaluando(x)'
    BY <1>2, <2>1, GiraTipo DEF Evaluando
  <2> QED BY <2>2
<1>3. ASSUME NEW k \in Claves, Vence(k) PROVE UNCHANGED <<turno, ev>>
  BY <1>3 DEF Vence
<1>4. ASSUME NEW r \in Replicas, TomaTurno(r)
      PROVE  /\ \A y \in Replicas : Evaluando(y)' => turno'
             /\ \A y, x \in Replicas : Evaluando(y)' /\ Evaluando(x)' => y = x
  <2>1. \A x \in Replicas : ~Evaluando(x)
    BY <1>u, <1>4 DEF TomaTurno
  <2>2. \A x \in Replicas \ {r} : ~Evaluando(x)'
    BY <1>4, <2>1, TomaTurnoTipo DEF Evaluando
  <2> QED BY <1>4, <2>2 DEF TomaTurno
<1>5. ASSUME NEW r \in Replicas, Marcha(r) PROVE UNCHANGED turno /\ \A x \in Replicas : Evaluando(x)' => Evaluando(x)
  <2>1. PICK n \in Evaluaciones : Sigue(r, n)
    BY <1>5 DEF Marcha
  <2> QED BY <1>t, <2>1 DEF Sigue, Evaluando
<1>6. ASSUME NEW r \in Replicas, TomaAlerta(r) PROVE UNCHANGED turno /\ \A x \in Replicas : Evaluando(x)' => Evaluando(x)
  BY <1>6, TomaAlertaTipo DEF TomaAlerta, Evaluando
<1>7. ASSUME NEW r \in Replicas, TomaResuelta(r) PROVE UNCHANGED turno /\ \A x \in Replicas : Evaluando(x)' => Evaluando(x)
  BY <1>7, TomaResueltaTipo DEF TomaResuelta, Evaluando
<1>8. ASSUME NEW r \in Replicas, Anuncia(r) PROVE UNCHANGED turno /\ \A x \in Replicas : Evaluando(x)' => Evaluando(x)
  <2>1. \A x \in Replicas \ {r} : ev'[x].pc = ev[x].pc
    BY <1>8, AnunciaTipo, AnotarTipo
  <2>2. Evaluando(r)
    BY <1>8 DEF Anuncia, Evaluando, En
  <2> QED BY <1>8, <2>1, <2>2 DEF Anuncia, Evaluando
<1>9. ASSUME NEW r \in Replicas, Muere(r) PROVE UNCHANGED turno /\ \A x \in Replicas : Evaluando(x)' => Evaluando(x)
  BY <1>9, MuereTipo DEF Muere, Evaluando
<1>10. CASE UNCHANGED <<turno, ev>>
  BY <1>1, <1>10 DEF Evaluando
<1> QED BY <1>1, <1>2, <1>3, <1>4, <1>5, <1>6, <1>7, <1>8, <1>9, <1>10, CadaPaso

\* Every active alert keeps its announcement, for every step.
LEMMA ActivasAvisadasPaso ==
    ASSUME Tipos, ActivasAvisadas, Next
    PROVE  ActivasAvisadas'
<1>t. activa \in [Claves -> Alarmas] /\ ev \in [Replicas -> Evaluaciones]
  BY DEF Tipos
<1> SUFFICES ASSUME NEW k \in Claves, activa'[k].hay
             PROVE  Avisada(k)'
  BY DEF ActivasAvisadas
<1> DEFINE Igual == activa'[k] = activa[k]
           Quieta(x) == ev'[x].pc = ev[x].pc /\ ev'[x].clave = ev[x].clave
<1>1. ASSUME Igual, \A x \in Replicas : ev[x].pc \in {"publica", "audita"} => Quieta(x)
      PROVE  Avisada(k)'
  <2>1. Avisada(k)
    BY <1>1 DEF ActivasAvisadas
  <2>2. CASE \E x \in Replicas : EnCamino(k, x)
    <3>1. PICK x \in Replicas : EnCamino(k, x)
      BY <2>2
    <3>2. EnCamino(k, x)'
      BY <1>1, <3>1 DEF EnCamino, En
    <3> QED BY <3>2 DEF Avisada
  <2>3. CASE Hecha(k)
    BY <1>1, <2>3 DEF Avisada, Hecha
  <2> QED BY <2>1, <2>2, <2>3 DEF Avisada
<1>2. CASE Gira
  BY <1>1, <1>2, GiraTipo DEF Gira
<1>3. ASSUME NEW q \in Claves, Vence(q) PROVE Avisada(k)'
  BY <1>t, <1>1, <1>3, Constantes DEF Vence
<1>4. ASSUME NEW r \in Replicas, TomaTurno(r) PROVE Avisada(k)'
  BY <1>1, <1>4, TomaTurnoTipo DEF TomaTurno
<1>5. ASSUME NEW r \in Replicas, Marcha(r) PROVE Avisada(k)'
  <2>1. PICK n \in Evaluaciones : Sigue(r, n)
    BY <1>5 DEF Marcha
  <2>2. ev[r].pc \notin {"publica", "audita"} /\ Igual /\ \A x \in Replicas \ {r} : ev'[x] = ev[x]
    BY <1>t, <2>1 DEF Sigue
  <2> QED BY <1>1, <2>2
<1>6. ASSUME NEW r \in Replicas, TomaAlerta(r) PROVE Avisada(k)'
  <2>1. CASE k = ev[r].clave
    <3>1. EnCamino(k, r)'
      BY <1>6, <2>1, TomaAlertaTipo DEF EnCamino, En
    <3> QED BY <3>1 DEF Avisada
  <2>2. CASE k # ev[r].clave
    BY <1>1, <1>6, <2>2, TomaAlertaTipo
  <2> QED BY <2>1, <2>2
<1>7. ASSUME NEW r \in Replicas, TomaResuelta(r) PROVE Avisada(k)'
  BY <1>1, <1>7, TomaResueltaTipo
<1>8. ASSUME NEW r \in Replicas, Anuncia(r) PROVE Avisada(k)'
  <2>1. PICK campo \in Campos, pc \in {"audita", "lista", "compara", "reposo"} :
              /\ Anotar(r, campo, pc)
              /\ \/ En(r, "publica") /\ pc = "audita" /\ campo \in {"pub", "sinPub"}
                 \/ En(r, "audita") /\ pc # "audita" /\ campo \in {"aud", "sinAud"}
    BY <1>8, AnunciaTipo
  <2>2. /\ (activa'[k].hay <=> activa[k].hay) /\ activa'[k].de = activa[k].de
        /\ (\A c \in Campos : activa[k][c] => activa'[k][c])
        /\ (k = ev[r].clave /\ activa[k].de = r => activa'[k][campo])
        /\ ev'[r].pc = pc /\ (pc = "audita" => ev'[r].clave = ev[r].clave)
        /\ \A x \in Replicas \ {r} : ev'[x].pc = ev[x].pc /\ ev'[x].clave = ev[x].clave
    BY <2>1, AnotarTipo
  <2>3. Avisada(k)
    BY <2>2 DEF ActivasAvisadas
  <2>4. ASSUME NEW x \in Replicas, x # r, EnCamino(k, x) PROVE Avisada(k)'
    <3>1. EnCamino(k, x)'
      <4>1. /\ ev'[x].pc = ev[x].pc /\ ev'[x].clave = ev[x].clave /\ activa'[k].de = activa[k].de
            /\ (activa[k].pub => activa'[k].pub) /\ (activa[k].sinPub => activa'[k].sinPub)
        BY <2>2, <2>4 DEF Campos
      <4> QED BY <2>4, <4>1 DEF EnCamino, En
    <3> QED BY <3>1 DEF Avisada
  <2>5. ASSUME EnCamino(k, r), En(r, "publica"), pc = "audita", campo \in {"pub", "sinPub"} PROVE Avisada(k)'
    <3>1. activa'[k].pub \/ activa'[k].sinPub
      BY <2>2, <2>5 DEF EnCamino
    <3>2. EnCamino(k, r)'
      BY <2>2, <2>5, <3>1 DEF EnCamino, En
    <3> QED BY <3>2 DEF Avisada
  <2>6. ASSUME EnCamino(k, r), En(r, "audita"), campo \in {"aud", "sinAud"} PROVE Avisada(k)'
    <3>1. activa[k].pub \/ activa[k].sinPub
      BY <2>6 DEF EnCamino, En
    <3>2. activa'[k].pub \/ activa'[k].sinPub
      BY <2>2, <3>1 DEF Campos
    <3>3. activa'[k].aud \/ activa'[k].sinAud
      BY <2>2, <2>6 DEF EnCamino
    <3> QED BY <3>2, <3>3 DEF Avisada, Hecha
  <2>7. CASE Hecha(k)
    BY <2>2, <2>7 DEF Avisada, Hecha, Campos
  <2> QED BY <2>1, <2>3, <2>4, <2>5, <2>6, <2>7 DEF Avisada
<1>9. ASSUME NEW r \in Replicas, Muere(r) PROVE Avisada(k)'
  <2>1. /\ (activa'[k].hay <=> activa[k].hay) /\ activa'[k].de = activa[k].de
        /\ (\A c \in Campos : activa[k][c] => activa'[k][c])
        /\ (activa[k].de = r => activa'[k].sinPub /\ activa'[k].sinAud)
        /\ \A x \in Replicas \ {r} : ev'[x] = ev[x]
    BY <1>9, MuereTipo
  <2>2. Avisada(k)
    BY <2>1 DEF ActivasAvisadas
  <2>3. ASSUME NEW x \in Replicas, EnCamino(k, x) PROVE Avisada(k)'
    <3>1. CASE x = r
      BY <2>1, <2>3, <3>1 DEF EnCamino, Avisada, Hecha
    <3>2. CASE x # r
      <4>1. activa[k].pub \/ activa[k].sinPub => activa'[k].pub \/ activa'[k].sinPub
        BY <2>1 DEF Campos
      <4>2. EnCamino(k, x)'
        BY <2>1, <2>3, <3>2, <4>1 DEF EnCamino, En
      <4> QED BY <4>2 DEF Avisada
    <3> QED BY <3>1, <3>2
  <2>4. CASE Hecha(k)
    BY <2>1, <2>4 DEF Hecha, Avisada, Campos
  <2> QED BY <2>2, <2>3, <2>4 DEF Avisada
<1> QED BY <1>2, <1>3, <1>4, <1>5, <1>6, <1>7, <1>8, <1>9, CadaPaso

\* Without delays who resolves is alone, so nobody is still announcing.
LEMMA ResueltaAvisadaPaso ==
    ASSUME Tipos, UnaEvaluacion, ActivasAvisadas, ResueltaAvisada, Next
    PROVE  ResueltaAvisada'
<1>t. activa \in [Claves -> Alarmas] /\ ev \in [Replicas -> Evaluaciones]
      /\ cuentas.demoras \in Nat /\ cuentas'.demoras \in Nat
  BY CadaPaso DEF Tipos
<1>c. cuentas.demoras > 0 => cuentas'.demoras > 0
  BY <1>t, CadaPaso DEF Crecen
<1> SUFFICES ASSUME NEW y \in Replicas, ev'[y].pc = "publicaRes", ~(cuentas'.demoras > 0)
             PROVE  ev'[y].alerta.pub \/ ev'[y].alerta.sinPub
  BY DEF ResueltaAvisada, En
<1>d. cuentas.demoras = 0
  BY <1>t, <1>c
<1>1. ASSUME ev[y].pc = "publicaRes", ev[y].alerta.pub => ev'[y].alerta.pub, ev[y].alerta.sinPub => ev'[y].alerta.sinPub
      PROVE  ev'[y].alerta.pub \/ ev'[y].alerta.sinPub
  BY <1>d, <1>1 DEF ResueltaAvisada, En
<1>2. CASE Gira
  BY <1>1, <1>2, GiraTipo
<1>3. ASSUME NEW q \in Claves, Vence(q) PROVE ev'[y].alerta.pub \/ ev'[y].alerta.sinPub
  BY <1>1, <1>3 DEF Vence
<1>4. ASSUME NEW r \in Replicas, TomaTurno(r) PROVE ev'[y].alerta.pub \/ ev'[y].alerta.sinPub
  BY <1>1, <1>4, TomaTurnoTipo
<1>5. ASSUME NEW r \in Replicas, Marcha(r) PROVE ev'[y].alerta.pub \/ ev'[y].alerta.sinPub
  <2>1. PICK n \in Evaluaciones : Sigue(r, n)
    BY <1>5 DEF Marcha
  <2>2. y # r /\ ev'[y] = ev[y]
    BY <1>t, <2>1 DEF Sigue
  <2> QED BY <1>1, <2>2
<1>6. ASSUME NEW r \in Replicas, TomaAlerta(r) PROVE ev'[y].alerta.pub \/ ev'[y].alerta.sinPub
  BY <1>1, <1>6, TomaAlertaTipo
<1>7. ASSUME NEW r \in Replicas, TomaResuelta(r) PROVE ev'[y].alerta.pub \/ ev'[y].alerta.sinPub
  <2> DEFINE k == ev[r].clave
  <2>1. /\ k \in Claves /\ ev[r].pc = "resuelve" /\ activa[k].hay /\ ev'[r].alerta = activa[k]
        /\ \A x \in Replicas \ {r} : ev'[x] = ev[x]
    BY <1>7, TomaResueltaTipo
  <2>2. CASE y = r
    <3>1. Avisada(k)
      BY <2>1 DEF ActivasAvisadas
    <3>2. ~ \E x \in Replicas : EnCamino(k, x)
      <4> SUFFICES ASSUME NEW x \in Replicas, EnCamino(k, x) PROVE FALSE
        OBVIOUS
      <4>1. ev[x].pc \in {"publica", "audita"}
        BY DEF EnCamino, En
      <4>2. Evaluando(x) /\ Evaluando(r)
        BY <2>1, <4>1 DEF Evaluando
      <4>3. x = r
        BY <1>d, <4>2 DEF UnaEvaluacion
      <4> QED BY <2>1, <4>1, <4>3
    <3> QED BY <2>1, <2>2, <3>1, <3>2 DEF Avisada, Hecha
  <2>3. CASE y # r
    BY <1>1, <2>1, <2>3
  <2> QED BY <2>2, <2>3
<1>8. ASSUME NEW r \in Replicas, Anuncia(r) PROVE ev'[y].alerta.pub \/ ev'[y].alerta.sinPub
  <2>1. /\ ev'[r].pc \in {"audita", "lista", "compara", "reposo"}
        /\ \A x \in Replicas \ {r} : /\ ev'[x].pc = ev[x].pc
                                     /\ \A c \in Campos : ev[x].alerta[c] => ev'[x].alerta[c]
    BY <1>8, AnunciaTipo, AnotarTipo
  <2>2. y # r
    BY <2>1
  <2>3. "pub" \in Campos /\ "sinPub" \in Campos
    BY DEF Campos
  <2>4. ev[y].pc = "publicaRes"
    BY <2>1, <2>2
  <2>5. (ev[y].alerta["pub"] => ev'[y].alerta["pub"]) /\ (ev[y].alerta["sinPub"] => ev'[y].alerta["sinPub"])
    BY <2>1, <2>2, <2>3
  <2> QED BY <1>1, <2>4, <2>5
<1>9. ASSUME NEW r \in Replicas, Muere(r) PROVE ev'[y].alerta.pub \/ ev'[y].alerta.sinPub
  <2>1. y # r /\ ev'[y] = ev[y]
    BY <1>9, MuereTipo
  <2> QED BY <1>1, <2>1
<1> QED BY <1>2, <1>3, <1>4, <1>5, <1>6, <1>7, <1>8, <1>9, CadaPaso

\* Without delays nobody else replaces the state that was read.
LEMMA LecturaVigentePaso ==
    ASSUME Tipos, UnaEvaluacion, LecturaVigente, Next
    PROVE  LecturaVigente'
<1>t. ev \in [Replicas -> Evaluaciones] /\ cuentas.demoras \in Nat /\ cuentas'.demoras \in Nat
  BY CadaPaso DEF Tipos
<1>c. cuentas.demoras > 0 => cuentas'.demoras > 0
  BY <1>t, CadaPaso DEF Crecen
<1> SUFFICES ASSUME NEW y \in Replicas, ev'[y].pc = "guarda", ~(cuentas'.demoras > 0)
             PROVE  ev'[y].antes = anterior'
  BY DEF LecturaVigente, En
<1>d. cuentas.demoras = 0
  BY <1>t, <1>c
<1>1. ASSUME ev[y].pc = "guarda", ev'[y].antes = ev[y].antes, anterior' = anterior
      PROVE  ev'[y].antes = anterior'
  BY <1>d, <1>1 DEF LecturaVigente, En
<1>2. CASE Gira
  BY <1>1, <1>2, GiraTipo DEF Gira
<1>3. ASSUME NEW q \in Claves, Vence(q) PROVE ev'[y].antes = anterior'
  BY <1>1, <1>3 DEF Vence
<1>4. ASSUME NEW r \in Replicas, TomaTurno(r) PROVE ev'[y].antes = anterior'
  BY <1>1, <1>4, TomaTurnoTipo DEF TomaTurno
<1>5. ASSUME NEW r \in Replicas, Marcha(r) PROVE ev'[y].antes = anterior'
  <2>1. PICK n \in Evaluaciones : Sigue(r, n)
    BY <1>5 DEF Marcha
  <2>2. ev'[r] = n /\ \A x \in Replicas \ {r} : ev'[x] = ev[x]
    BY <1>t, <2>1 DEF Sigue
  <2>3. CASE y = r
    <3>1. n.pc = "guarda" /\ n.antes = anterior
      BY <2>1, <2>2, <2>3 DEF Sigue
    <3>2. anterior' = anterior
      BY <2>1, <3>1 DEF Sigue
    <3> QED BY <2>2, <2>3, <3>1, <3>2
  <2>4. CASE y # r
    <3>1. Evaluando(y) /\ ev[y].pc = "guarda"
      BY <2>2, <2>4 DEF Evaluando
    <3>2. ~En(r, "guarda")
      BY <1>d, <2>4, <3>1 DEF UnaEvaluacion, Evaluando, En
    <3> QED BY <1>1, <2>1, <2>2, <2>4, <3>1, <3>2 DEF Sigue
  <2> QED BY <2>3, <2>4
<1>6. ASSUME NEW r \in Replicas, TomaAlerta(r) PROVE ev'[y].antes = anterior'
  <2>1. anterior' = anterior
    BY <1>6, Zenon DEF TomaAlerta
  <2>2. ev'[y] = ev[y]
    BY <1>6, TomaAlertaTipo
  <2> QED BY <1>1, <2>1, <2>2
<1>7. ASSUME NEW r \in Replicas, TomaResuelta(r) PROVE ev'[y].antes = anterior'
  <2>1. anterior' = anterior
    BY <1>7, Zenon DEF TomaResuelta
  <2>2. y # r /\ ev'[y] = ev[y]
    BY <1>7, TomaResueltaTipo
  <2> QED BY <1>1, <2>1, <2>2
<1>8. ASSUME NEW r \in Replicas, Anuncia(r) PROVE ev'[y].antes = anterior'
  <2>1. /\ ev'[r].pc \in {"audita", "lista", "compara", "reposo"}
        /\ \A x \in Replicas \ {r} : ev'[x].pc = ev[x].pc /\ ev'[x].antes = ev[x].antes
    BY <1>8, AnunciaTipo, AnotarTipo
  <2>2. anterior' = anterior
    BY <1>8, Zenon DEF Anuncia, Anotar
  <2> QED BY <1>1, <2>1, <2>2
<1>9. ASSUME NEW r \in Replicas, Muere(r) PROVE ev'[y].antes = anterior'
  BY <1>1, <1>9, MuereTipo DEF Muere
<1> QED BY <1>2, <1>3, <1>4, <1>5, <1>6, <1>7, <1>8, <1>9, CadaPaso

-----------------------------------------------------------------------------
(* The invariant and what follows from it *)

\* The invariant holds at the start.
LEMMA IInvInicio ==
    ASSUME Init
    PROVE  IInv
<1>1. /\ recurso \in {"HOST", "VM"} /\ turno = FALSE /\ anterior = "nada"
      /\ activa = [k \in Claves |-> SinAlerta] /\ ev = [r \in Replicas |-> Reposo]
      /\ cuentas = [demoras |-> 0, fallos |-> 0, caidas |-> 0, vencidas |-> 0]
  BY DEF Init
<1>2. (\A k \in Claves : ~activa[k].hay) /\ \A r \in Replicas : ev[r].pc = "reposo"
  BY <1>1, Constantes
<1>3. Tipos
  BY <1>1, Constantes DEF Tipos
<1> QED BY <1>2, <1>3 DEF IInv, UnaEvaluacion, Evaluando, ActivasAvisadas, ResueltaAvisada, LecturaVigente, En

\* Every step keeps it.
LEMMA IInvPaso ==
    ASSUME IInv, [Next]_vars
    PROVE  IInv'
<1>1. CASE Next
  BY <1>1, TiposPaso, UnaEvaluacionPaso, ActivasAvisadasPaso, ResueltaAvisadaPaso, LecturaVigentePaso DEF IInv
<1>2. CASE UNCHANGED vars
  BY <1>2 DEF vars, IInv, Tipos, UnaEvaluacion, Evaluando, ActivasAvisadas, Avisada, Hecha, EnCamino,
              ResueltaAvisada, LecturaVigente, En
<1> QED BY <1>1, <1>2

\* One replica evaluates at a time while no evaluation outlives its cycle, every
\* active alert has its announcement, and what was read is what is replaced.
THEOREM Invariante == Spec => []IInv
<1> QED BY IInvInicio, IInvPaso, PTL DEF Spec

\* The count of a resource in saturation, which is worth something only while
\* it has not expired.
Cuento ==
    /\ pend \in [n : 0..CiclosParaAlertar, edad : 0..CiclosParaAlertar]
    /\ pend.n > 0 => pend.edad < CiclosParaAlertar

\* Only the clock, a measurement and a recovery write it.
LEMMA CuentoPaso ==
    ASSUME Cuento, Next
    PROVE  Cuento'
<1>b. CiclosParaAlertar \in Nat \ {0}
  BY AlertasAssumption
<1>1. ASSUME NEW n \in 0..CiclosParaAlertar, NEW e \in 0..CiclosParaAlertar, n > 0 => e < CiclosParaAlertar,
             pend' = [n |-> n, edad |-> e]
      PROVE  Cuento'
  BY <1>1 DEF Cuento
<1>2. CASE UNCHANGED pend
  BY <1>2 DEF Cuento
<1>3. CASE Tic
  <2>1. CASE pend.n = 0 \/ pend.edad + 1 >= CiclosParaAlertar
    BY <1>1, <1>3, <1>b, <2>1 DEF Tic
  <2>2. CASE ~(pend.n = 0 \/ pend.edad + 1 >= CiclosParaAlertar)
    <3>1. pend' = [n |-> pend.n, edad |-> pend.edad + 1]
      BY <1>3, <2>2 DEF Tic, Cuento
    <3>2. pend.n \in 0..CiclosParaAlertar /\ pend.edad + 1 \in 0..CiclosParaAlertar
          /\ pend.edad + 1 < CiclosParaAlertar
      BY <1>b, <2>2 DEF Cuento
    <3> QED BY <1>1, <3>1, <3>2
  <2> QED BY <2>1, <2>2
<1>4. ASSUME NEW r \in Replicas, Contar(r) PROVE Cuento'
  <2>1. CASE UNCHANGED pend
    BY <1>2, <2>1
  <2>2. CASE pend' = [n |-> IF pend.n < CiclosParaAlertar THEN pend.n + 1 ELSE pend.n, edad |-> 0]
    <3>1. (IF pend.n < CiclosParaAlertar THEN pend.n + 1 ELSE pend.n) \in 0..CiclosParaAlertar
      BY <1>b DEF Cuento
    <3> QED BY <1>1, <1>b, <2>2, <3>1
  <2> QED BY <1>4, <2>1, <2>2 DEF Contar
<1>5. ASSUME pend' = [n |-> 0, edad |-> 0] PROVE Cuento'
  BY <1>1, <1>5, <1>b
<1>6. ASSUME NEW r \in Replicas, Paso(r), ~Contar(r) PROVE UNCHANGED pend \/ pend' = [n |-> 0, edad |-> 0]
  BY <1>6 DEF Paso, LeerHost, Listar, Limpiar, Disparar, Publicar, Auditar, Resolver, PublicarResuelta,
     AuditarResuelta, Comparar, Guardar, Decidir
<1>7. ASSUME NEW r \in Replicas, Tomar(r) \/ Caer(r) \/ Iniciar(r) PROVE UNCHANGED pend
  BY <1>7 DEF Tomar, Caer, Iniciar
<1>8. ASSUME NEW k \in Claves, VenceActiva(k) PROVE UNCHANGED pend
  BY <1>8 DEF VenceActiva
<1> QED BY <1>2, <1>3, <1>4, <1>5, <1>6, <1>7, <1>8 DEF Next

\* Every variable stays in its range, the count of a saturation within what an
\* alert takes (alert_evaluator_worker.go, evaluarSaturacion).
THEOREM TipoCorrecto == Spec => []TypeOK
<1>1. Init => IInv /\ Cuento
  <2>1. ASSUME pend = [n |-> 0, edad |-> 0] PROVE Cuento
    <3>1. 0 \in 0..CiclosParaAlertar
      BY AlertasAssumption
    <3> QED BY <2>1, <3>1 DEF Cuento
  <2> QED BY <2>1, IInvInicio DEF Init
<1>2. IInv /\ Cuento /\ [Next]_vars => IInv' /\ Cuento'
  <2>1. Cuento /\ UNCHANGED vars => Cuento'
    BY DEF vars, Cuento
  <2> QED BY <2>1, IInvPaso, CuentoPaso
<1>3. IInv /\ Cuento => TypeOK
  BY DEF IInv, Tipos, Alarmas, Evaluaciones, Pasos, Cuento, TypeOK
<1> QED BY <1>1, <1>2, <1>3, PTL DEF Spec

\* An alert that blocks the ones after it was published and audited, or who took
\* it is doing so, or what is missing failed itself or was cut by the end of the
\* process (alert_evaluator_worker.go, disparar).
THEOREM ActivasConAviso == Spec => []ActivaAvisada
<1>1. IInv => ActivaAvisada
  <2> SUFFICES ASSUME IInv, NEW k \in Claves, activa[k].hay
               PROVE  \/ Anunciando(k, "publica")
                      \/ /\ activa[k].pub \/ activa[k].sinPub
                         /\ activa[k].aud \/ activa[k].sinAud \/ Anunciando(k, "audita")
    BY DEF ActivaAvisada
  <2>1. Avisada(k)
    BY DEF IInv, ActivasAvisadas
  <2>2. ASSUME NEW r \in Replicas, EnCamino(k, r)
        PROVE  Anunciando(k, "publica") \/ ((activa[k].pub \/ activa[k].sinPub) /\ Anunciando(k, "audita"))
    BY <2>2 DEF EnCamino, Anunciando, En
  <2> QED BY <2>1, <2>2 DEF Avisada, Hecha
<1> QED BY <1>1, Invariante, PTL

\* Nobody is told that an alert ended before being told that it began
\* (turno, alert_evaluator_worker.go:156-158).
THEOREM ResolucionTrasDisparo == Spec => DisparoAntesQueResolucion
<1>1. IInv => [\A r \in Replicas :
         En(r, "publicaRes") /\ ev'[r].pc = "auditaRes" =>
             ev[r].alerta.pub \/ ev[r].alerta.sinPub \/ cuentas.demoras > 0]_vars
  BY DEF IInv, ResueltaAvisada
<1> QED BY <1>1, Invariante, PTL DEF DisparoAntesQueResolucion

\* Who replaces the state in which an instance was running had read it, and
\* goes on to decide about the stop (evaluarCaidas).
THEOREM CaidasDecididas == Spec => CaidaSeDecide
<1> DEFINE A == \A r \in Replicas :
         En(r, "guarda") /\ ~En(r, "guarda")' /\ anterior = "running" /\ anterior' # "running" =>
             \/ ev[r].antes = "running" /\ ev'[r].pc = "decide"
             \/ cuentas.demoras > 0
<1>1. IInv /\ [Next]_vars => [A]_vars
  <2> SUFFICES ASSUME IInv, Next, NEW r \in Replicas, ev[r].pc = "guarda", ev'[r].pc # "guarda",
                      anterior = "running", anterior' # "running", ~(cuentas.demoras > 0)
               PROVE  ev[r].antes = "running" /\ ev'[r].pc = "decide"
    BY DEF En
  <2>t. Tipos /\ ev \in [Replicas -> Evaluaciones] /\ cuentas.demoras = 0
    BY DEF IInv, Tipos
  <2>1. ev[r].antes = "running"
    BY DEF IInv, LecturaVigente, En
  <2>2. PICK x \in Replicas : Marcha(x)
    <3>1. ~Gira /\ \A k \in Claves : ~Vence(k)
      BY DEF Gira, Vence
    <3>2. \A x \in Replicas : ~TomaTurno(x) /\ ~TomaAlerta(x) /\ ~TomaResuelta(x) /\ ~Anuncia(x) /\ ~Muere(x)
      BY DEF TomaTurno, TomaAlerta, TomaResuelta, Anuncia, Muere
    <3> QED BY <2>t, <3>1, <3>2, CadaPaso
  <2>3. PICK n \in Evaluaciones : Sigue(x, n)
    BY <2>2 DEF Marcha
  <2>4. x = r
    BY <2>t, <2>3 DEF Sigue
  <2> QED BY <2>t, <2>1, <2>3, <2>4 DEF Sigue
<1> QED BY <1>1, Invariante, PTL DEF CaidaSeDecide, Spec
=============================================================================
