---------------------------- MODULE CompuestosProofs ----------------------------
EXTENDS Cerrojos, Persistencia, Integers, FiniteSetTheorems, SequenceTheorems, TLAPS

-------------------------------------------------------------------------------
(***************************************************************************)
(* One instance (Exclusion).  If every request fits in the TTL of the      *)
(* lock, requests on an instance exclude each other, for any number of     *)
(* requests, crashes and failures.                                         *)
(***************************************************************************)

\* The Proxmox calls of a request, and the condition that they fit in the TTL.
Total(p) == Lecturas[p] + (IF Clase[p] = "config" THEN 2 ELSE 1)
Plazo == \A p \in Pedidos : Total(p) * MaxLlamada < TtlLock

\* A request counts its calls and has only one clock running.
Cuenta == \A p \in Pedidos :
  /\ fase[p] \in {"nuevo", "activas"} => hechas[p] = 0
  /\ fase[p] = "lectura" => hechas[p] < Lecturas[p]
  /\ fase[p] = "orden" => hechas[p] = Lecturas[p]
  /\ fase[p] = "verificar" => hechas[p] = Lecturas[p] + 1 /\ Clase[p] = "config"
  /\ fase[p] \notin Llamadas => reloj[p] = 0

\* Who works under the lock owns it, and it is no older than the calls made.
Turno == \A p \in Pedidos : EnSeccion(p) =>
  /\ lock = p
  /\ edadLock <= hechas[p] * MaxLlamada + reloj[p]
  /\ servicio = "sirviendo"

\* Nothing exists in Redis, Proxmox or the database before its time.
Rastro == \A p \in Pedidos :
  /\ fase[p] \in {"nuevo", "activas", "lectura"} => remoto[p] = "nada"
  /\ fase[p] = "nuevo" => ~conLock[p]
  /\ fila[p] = "RUNNING" => fase[p] \in {"soltar", "fin"}

\* Once past VerificarActivas no other request has a RUNNING row.
Vacante == \A p, q \in Pedidos :
  /\ p # q /\ conLock[q] /\ EnSeccion(p)
  /\ fase[p] \in {"lectura", "orden", "registrar", "verificar"} \/ remoto[p] # "nada"
  => fila[q] # "RUNNING"

IInv == TypeOK /\ Cuenta /\ Turno /\ Rastro /\ Vacante /\ UnaTareaRunning

\* Of two numbers of calls, the larger takes longer.
LEMMA Producto ==
  ASSUME NEW a \in Nat, NEW b \in Nat, NEW m \in Nat, a <= b
  PROVE  a * m <= b * m
BY SMT

\* One more call takes m more.
LEMMA Sumando ==
  ASSUME NEW a \in Nat, NEW m \in Nat
  PROVE  (a + 1) * m = a * m + m /\ a * m \in Nat
BY SMT

\* Every action keeps the variables in their ranges, the lock in its TTL and
\* every call in its time-out.
LEMMA TipoPaso == TypeOK /\ Next => TypeOK'
<1> SUFFICES ASSUME TypeOK, Next PROVE TypeOK'
  OBVIOUS
<1> USE ExclusionAssumption DEF TypeOK, Llamadas, Nadie
<1>1. CASE Caer BY <1>1 DEF Caer
<1>2. CASE Arrancar
  <2>1. PICK S \in SUBSET {p \in Pedidos : fila[p] = "RUNNING" /\ remoto[p] = "terminada"} :
          /\ fila' = [p \in Pedidos |-> IF p \in S THEN "cerrada" ELSE fila[p]]
          /\ IF S = {} THEN UNCHANGED <<lock, edadLock>> ELSE lock' = Nadie /\ edadLock' = 0
    BY <1>2, Zenon DEF Arrancar
  <2>2. fila' \in [Pedidos -> {"ausente", "RUNNING", "cerrada"}]
    BY <2>1
  <2>3. lock' \in Pedidos \cup {Nadie} /\ edadLock' \in 0 .. TtlLock - 1
    BY <2>1
  <2> QED BY <1>2, <2>2, <2>3 DEF Arrancar, tiempo
<1>3. CASE Tic BY <1>3 DEF Tic, Espera
<1>4. ASSUME NEW p \in Pedidos, PasoDePedido(p) \/ PasoAjeno(p) PROVE TypeOK'
  <2>1. CASE TomarLock(p)
    <3>1. CASE lock = Nadie
      <4>1. lock' = p /\ edadLock' = 0 /\ conLock' = [conLock EXCEPT ![p] = TRUE]
        BY <2>1, <3>1 DEF TomarLock
      <4>2. fase' = [fase EXCEPT ![p] = "activas"]
        BY <2>1, <3>1 DEF TomarLock, Pasar
      <4>3. UNCHANGED <<servicio, hechas, reloj, fila, remoto, caidas>>
        BY <2>1 DEF TomarLock, tiempo
      <4> QED BY <4>1, <4>2, <4>3
    <3>2. CASE lock # Nadie BY <2>1, <3>2 DEF TomarLock, Pasar, tiempo
    <3> QED BY <3>1, <3>2
  <2>2. CASE SinRedis(p) BY <2>2 DEF SinRedis, Pasar, tiempo
  <2>3. CASE VerificarActivas(p) BY <2>3 DEF VerificarActivas, Pasar, tiempo
  <2>4. CASE Leer(p) BY <2>4 DEF Leer, Pasar, FinLlamada
  <2>5. CASE Abandonar(p) BY <2>5 DEF Abandonar, Pasar, FinLlamada
  <2>6. CASE OrdenAceptada(p) BY <2>6 DEF OrdenAceptada, Pasar, FinLlamada
  <2>7. CASE OrdenFallida(p) BY <2>7 DEF OrdenFallida, Pasar, FinLlamada
  <2>8. CASE Registrar(p) BY <2>8 DEF Registrar, Pasar, tiempo
  <2>9. CASE Verificar(p) BY <2>9 DEF Verificar, Pasar, FinLlamada
  <2>10. CASE Soltar(p) BY <2>10 DEF Soltar, Pasar
  <2>11. CASE ProxmoxAcepta(p) BY <2>11 DEF ProxmoxAcepta, tiempo
  <2>12. CASE ProxmoxRechaza(p) BY <2>12 DEF ProxmoxRechaza, tiempo
  <2>13. CASE ProxmoxTermina(p) BY <2>13 DEF ProxmoxTermina, tiempo
  <2>14. CASE CerrarTarea(p) BY <2>14 DEF CerrarTarea, tiempo
  <2> QED
    BY <1>4, <2>1, <2>2, <2>3, <2>4, <2>5, <2>6, <2>7, <2>8, <2>9, <2>10, <2>11,
       <2>12, <2>13, <2>14 DEF PasoDePedido, PasoAjeno
<1> QED BY <1>1, <1>2, <1>3, <1>4 DEF Next

\* Every phase of the handler follows from the calls made so far.
LEMMA CuentaPaso == TypeOK /\ Cuenta /\ Next => Cuenta'
<1> SUFFICES ASSUME TypeOK, Cuenta, Next PROVE Cuenta'
  OBVIOUS
<1> USE ExclusionAssumption DEF TypeOK, Cuenta, Llamadas, Nadie
<1>1. CASE Caer BY <1>1 DEF Caer
<1>2. CASE Arrancar
  <2>1. UNCHANGED <<fase, hechas, reloj>>
    BY <1>2, Zenon DEF Arrancar, tiempo
  <2> QED BY <2>1
<1>3. CASE Tic BY <1>3 DEF Tic, Espera
<1>4. ASSUME NEW p \in Pedidos, PasoDePedido(p) \/ PasoAjeno(p) PROVE Cuenta'
  <2>1. CASE TomarLock(p) BY <2>1 DEF TomarLock, Pasar, tiempo
  <2>2. CASE SinRedis(p) BY <2>2 DEF SinRedis, Pasar, tiempo
  <2>3. CASE VerificarActivas(p) BY <2>3 DEF VerificarActivas, Pasar, tiempo
  <2>4. CASE Leer(p) BY <2>4 DEF Leer, Pasar, FinLlamada
  <2>5. CASE Abandonar(p) BY <2>5 DEF Abandonar, Pasar, FinLlamada
  <2>6. CASE OrdenAceptada(p) BY <2>6 DEF OrdenAceptada, Pasar, FinLlamada
  <2>7. CASE OrdenFallida(p) BY <2>7 DEF OrdenFallida, Pasar, FinLlamada
  <2>8. CASE Registrar(p) BY <2>8 DEF Registrar, Pasar, tiempo
  <2>9. CASE Verificar(p) BY <2>9 DEF Verificar, Pasar, FinLlamada
  <2>10. CASE Soltar(p) BY <2>10 DEF Soltar, Pasar
  <2>11. CASE ProxmoxAcepta(p) BY <2>11 DEF ProxmoxAcepta, tiempo
  <2>12. CASE ProxmoxRechaza(p) BY <2>12 DEF ProxmoxRechaza, tiempo
  <2>13. CASE ProxmoxTermina(p) BY <2>13 DEF ProxmoxTermina, tiempo
  <2>14. CASE CerrarTarea(p) BY <2>14 DEF CerrarTarea, tiempo
  <2> QED
    BY <1>4, <2>1, <2>2, <2>3, <2>4, <2>5, <2>6, <2>7, <2>8, <2>9, <2>10, <2>11,
       <2>12, <2>13, <2>14 DEF PasoDePedido, PasoAjeno
<1> QED BY <1>1, <1>2, <1>3, <1>4 DEF Next

\* No order before the reads, no RUNNING row before Registrar.
LEMMA RastroPaso == TypeOK /\ Rastro /\ Next => Rastro'
<1> SUFFICES ASSUME TypeOK, Rastro, Next PROVE Rastro'
  OBVIOUS
<1> USE ExclusionAssumption DEF TypeOK, Rastro, Llamadas
<1>1. CASE Caer BY <1>1 DEF Caer
<1>2. CASE Arrancar BY <1>2 DEF Arrancar
<1>3. CASE Tic BY <1>3 DEF Tic, Espera
<1>4. ASSUME NEW p \in Pedidos, PasoDePedido(p) \/ PasoAjeno(p) PROVE Rastro'
  <2>1. CASE TomarLock(p) BY <2>1 DEF TomarLock, Pasar, tiempo
  <2>2. CASE SinRedis(p) BY <2>2 DEF SinRedis, Pasar, tiempo
  <2>3. CASE VerificarActivas(p) BY <2>3 DEF VerificarActivas, Pasar, tiempo
  <2>4. CASE Leer(p) BY <2>4 DEF Leer, Pasar, FinLlamada
  <2>5. CASE Abandonar(p) BY <2>5 DEF Abandonar, Pasar, FinLlamada
  <2>6. CASE OrdenAceptada(p) BY <2>6 DEF OrdenAceptada, Pasar, FinLlamada
  <2>7. CASE OrdenFallida(p) BY <2>7 DEF OrdenFallida, Pasar, FinLlamada
  <2>8. CASE Registrar(p) BY <2>8 DEF Registrar, Pasar, tiempo
  <2>9. CASE Verificar(p) BY <2>9 DEF Verificar, Pasar, FinLlamada
  <2>10. CASE Soltar(p) BY <2>10 DEF Soltar, Pasar
  <2>11. CASE ProxmoxAcepta(p) BY <2>11 DEF ProxmoxAcepta, tiempo
  <2>12. CASE ProxmoxRechaza(p) BY <2>12 DEF ProxmoxRechaza, tiempo
  <2>13. CASE ProxmoxTermina(p) BY <2>13 DEF ProxmoxTermina, tiempo
  <2>14. CASE CerrarTarea(p) BY <2>14 DEF CerrarTarea, tiempo
  <2> QED
    BY <1>4, <2>1, <2>2, <2>3, <2>4, <2>5, <2>6, <2>7, <2>8, <2>9, <2>10, <2>11,
       <2>12, <2>13, <2>14 DEF PasoDePedido, PasoAjeno
<1> QED BY <1>1, <1>2, <1>3, <1>4 DEF Next

\* The lock cannot expire under its holder if the calls fit in the TTL, nor
\* can another request or the start-up take it away.
LEMMA TurnoPaso == Plazo /\ TypeOK /\ Cuenta /\ Rastro /\ Turno /\ Next => Turno'
<1> SUFFICES ASSUME Plazo, TypeOK, Cuenta, Rastro, Turno, Next PROVE Turno'
  OBVIOUS
<1> USE ExclusionAssumption DEF TypeOK, Cuenta, Turno, EnSeccion, Llamadas, Nadie, tiempo
<1>1. CASE Caer BY <1>1 DEF Caer
<1>2. CASE Arrancar
  <2>1. servicio = "caido" /\ UNCHANGED <<fase, conLock>>
    BY <1>2, Zenon DEF Arrancar
  <2> QED BY <2>1
<1>3. CASE Tic
  <2> SUFFICES ASSUME NEW p \in Pedidos, EnSeccion(p)'
               PROVE  /\ lock' = p
                      /\ edadLock' <= hechas'[p] * MaxLlamada + reloj'[p]
                      /\ servicio' = "sirviendo"
    OBVIOUS
  <2>1. /\ EnSeccion(p) /\ Espera(p) /\ UNCHANGED <<servicio, hechas>>
        /\ reloj' = [q \in Pedidos |-> IF fase[q] \in Llamadas THEN reloj[q] + 1 ELSE reloj[q]]
    BY <1>3 DEF Tic
  <2>2. fase[p] \in Llamadas /\ reloj[p] + 1 <= MaxLlamada /\ reloj'[p] = reloj[p] + 1
    BY <2>1 DEF Espera
  <2>3. lock = p /\ edadLock <= hechas[p] * MaxLlamada + reloj[p] /\ servicio = "sirviendo"
    BY <2>1
  <2>4. edadLock + 1 < TtlLock
    <3>1. hechas[p] + 1 \in Nat /\ Total(p) \in Nat /\ hechas[p] + 1 <= Total(p)
      BY <2>2 DEF Total
    <3>2. hechas[p] * MaxLlamada + MaxLlamada <= Total(p) * MaxLlamada
      BY <3>1, Producto, Sumando
    <3>3. Total(p) * MaxLlamada < TtlLock
      BY DEF Plazo
    <3>4. hechas[p] * MaxLlamada \in Nat /\ Total(p) * MaxLlamada \in Nat
      BY <3>1, Sumando
    <3> HIDE DEF Plazo, Total
    <3> QED BY <2>2, <2>3, <3>2, <3>3, <3>4
  <2>5. edadLock' = edadLock + 1 /\ lock' = lock
    BY <1>3, <2>3, <2>4 DEF Tic
  <2>6. hechas[p] * MaxLlamada \in Nat
    BY Sumando
  <2> QED BY <2>1, <2>2, <2>3, <2>5, <2>6
<1>4. ASSUME NEW p \in Pedidos, PasoDePedido(p) \/ PasoAjeno(p) PROVE Turno'
  <2>1. CASE TomarLock(p) BY <2>1 DEF TomarLock, Pasar, tiempo
  <2>2. CASE SinRedis(p) BY <2>2 DEF SinRedis, Pasar, Rastro
  <2>3. CASE VerificarActivas(p) BY <2>3, ZenonT(60) DEF VerificarActivas, Pasar, tiempo
  <2>4. CASE Leer(p) BY <2>4 DEF Leer, Pasar, FinLlamada
  <2>5. CASE Abandonar(p) BY <2>5 DEF Abandonar, Pasar, FinLlamada
  <2>6. CASE OrdenAceptada(p)
    <3>1. PICK f \in {"registrar", "verificar", "soltar"} : fase' = [fase EXCEPT ![p] = f]
      BY <2>6 DEF OrdenAceptada, Pasar
    <3>2. /\ fase[p] = "orden"
          /\ hechas' = [hechas EXCEPT ![p] = @ + 1]
          /\ reloj' = [reloj EXCEPT ![p] = 0]
          /\ UNCHANGED <<servicio, conLock, lock, edadLock>>
      BY <2>6 DEF OrdenAceptada, FinLlamada
    <3>3. (hechas[p] + 1) * MaxLlamada = hechas[p] * MaxLlamada + MaxLlamada
      BY Sumando
    <3> QED BY <3>1, <3>2, <3>3
  <2>7. CASE OrdenFallida(p) BY <2>7 DEF OrdenFallida, Pasar, FinLlamada
  <2>8. CASE Registrar(p) BY <2>8 DEF Registrar, Pasar, tiempo
  <2>9. CASE Verificar(p) BY <2>9 DEF Verificar, Pasar, FinLlamada
  <2>10. CASE Soltar(p) BY <2>10 DEF Soltar, Pasar
  <2>11. CASE ProxmoxAcepta(p) BY <2>11 DEF ProxmoxAcepta, tiempo
  <2>12. CASE ProxmoxRechaza(p) BY <2>12 DEF ProxmoxRechaza, tiempo
  <2>13. CASE ProxmoxTermina(p) BY <2>13 DEF ProxmoxTermina, tiempo
  <2>14. CASE CerrarTarea(p) BY <2>14 DEF CerrarTarea, tiempo
  <2> QED
    BY <1>4, <2>1, <2>2, <2>3, <2>4, <2>5, <2>6, <2>7, <2>8, <2>9, <2>10, <2>11,
       <2>12, <2>13, <2>14 DEF PasoDePedido, PasoAjeno
<1> QED BY <1>1, <1>2, <1>3, <1>4 DEF Next

\* VerificarActivas sees every row that the lock has handed over to.
LEMMA VacantePaso ==
  TypeOK /\ Turno /\ Rastro /\ Vacante /\ UnaTareaRunning /\ Next
    => (Vacante /\ UnaTareaRunning)'
<1> SUFFICES ASSUME TypeOK, Turno, Rastro, Vacante, UnaTareaRunning, Next PROVE (Vacante /\ UnaTareaRunning)'
  OBVIOUS
<1> USE ExclusionAssumption DEF TypeOK, Turno, Rastro, Vacante, UnaTareaRunning, EnSeccion, Llamadas
<1>1. CASE Caer BY <1>1 DEF Caer
<1>2. CASE Arrancar BY <1>2 DEF Arrancar
<1>3. CASE Tic BY <1>3 DEF Tic, Espera
<1>4. ASSUME NEW p \in Pedidos, PasoDePedido(p) \/ PasoAjeno(p) PROVE (Vacante /\ UnaTareaRunning)'
  <2>1. CASE TomarLock(p) BY <2>1 DEF TomarLock, Pasar, tiempo
  <2>2. CASE SinRedis(p) BY <2>2 DEF SinRedis, Pasar, tiempo
  <2>3. CASE VerificarActivas(p) BY <2>3 DEF VerificarActivas, HayActiva, Pasar
  <2>4. CASE Leer(p) BY <2>4 DEF Leer, Pasar, FinLlamada
  <2>5. CASE Abandonar(p) BY <2>5 DEF Abandonar, Pasar, FinLlamada
  <2>6. CASE OrdenAceptada(p) BY <2>6 DEF OrdenAceptada, Pasar, FinLlamada
  <2>7. CASE OrdenFallida(p) BY <2>7 DEF OrdenFallida, Pasar, FinLlamada
  <2>8. CASE Registrar(p) BY <2>8 DEF Registrar, Pasar, tiempo
  <2>9. CASE Verificar(p) BY <2>9 DEF Verificar, Pasar, FinLlamada
  <2>10. CASE Soltar(p) BY <2>10 DEF Soltar, Pasar
  <2>11. CASE ProxmoxAcepta(p) BY <2>11 DEF ProxmoxAcepta, tiempo
  <2>12. CASE ProxmoxRechaza(p) BY <2>12 DEF ProxmoxRechaza, tiempo
  <2>13. CASE ProxmoxTermina(p) BY <2>13 DEF ProxmoxTermina, tiempo
  <2>14. CASE CerrarTarea(p) BY <2>14 DEF CerrarTarea, tiempo
  <2> QED
    BY <1>4, <2>1, <2>2, <2>3, <2>4, <2>5, <2>6, <2>7, <2>8, <2>9, <2>10, <2>11,
       <2>12, <2>13, <2>14 DEF PasoDePedido, PasoAjeno
<1> QED BY <1>1, <1>2, <1>3, <1>4 DEF Next

\* Nothing is under way when the API starts for the first time.
LEMMA Inicial == Init => IInv
BY ExclusionAssumption
   DEF Init, IInv, TypeOK, Cuenta, Turno, Rastro, Vacante, UnaTareaRunning,
       EnSeccion, Llamadas, Nadie

\* A step that changes nothing preserves the invariant.
LEMMA Quieto == IInv /\ UNCHANGED vars => IInv'
BY DEF vars, tiempo, IInv, TypeOK, Cuenta, Turno, Rastro, Vacante, UnaTareaRunning, EnSeccion

\* If the calls of every request fit in ttlLockInstancia, IInv is inductive.
LEMMA Invariante == ASSUME Plazo PROVE Spec => []IInv
<1>1. ASSUME IInv, Next PROVE IInv'
  BY <1>1, Plazo, TipoPaso, CuentaPaso, RastroPaso, TurnoPaso, VacantePaso DEF IInv
<1>2. IInv /\ [Next]_vars => IInv'
  BY <1>1, Quieto
<1> QED BY Inicial, <1>2, PTL DEF Spec

\* Every variable stays in its range, whatever the TTL: the lock of Reservar
\* never gets older than ttlLockInstancia, and no call outlasts its time-out.
THEOREM TipoCorrecto == Spec => []TypeOK
<1>1. Init => TypeOK
  BY Inicial DEF IInv
<1>2. TypeOK /\ [Next]_vars => TypeOK'
  <2>1. TypeOK /\ UNCHANGED vars => TypeOK'
    BY DEF vars, tiempo, TypeOK
  <2> QED BY <2>1, TipoPaso
<1> QED BY <1>1, <1>2, PTL DEF Spec

\* The lock outlives whoever works under it if the calls fit in the TTL: what
\* the comment on ttlLockInstancia counts on.
THEOREM ElLockCubre == ASSUME Plazo PROVE Spec => []LockCubre
<1>1. IInv => LockCubre
  BY DEF IInv, Turno, LockCubre
<1> QED BY <1>1, Invariante, PTL

\* Two tasks of one instance are never RUNNING together, so activeTask and
\* BuscarTareasActivasPorVmids have one row to find.
THEOREM UnaSolaTarea == ASSUME Plazo PROVE Spec => []UnaTareaRunning
<1>1. IInv => UnaTareaRunning
  BY DEF IInv
<1> QED BY <1>1, Invariante, PTL

\* One operation at a time per instance, if the calls fit in the TTL: between
\* Reservar and the row of Seguir no second request gets through.
THEOREM UnaSolaOperacion == ASSUME Plazo PROVE Spec => []ExclusionMutua
<1>1. IInv => ExclusionMutua
  <2> SUFFICES ASSUME IInv, NEW p \in Pedidos, NEW q \in Pedidos,
                      p # q, conLock[p], conLock[q], EnOperacion(p), EnOperacion(q),
                      ~Perdida(p), ~Perdida(q)
               PROVE  FALSE
    BY DEF ExclusionMutua
  <2>1. \A r \in {p, q} : EnSeccion(r) \/ (fase[r] = "fin" /\ fila[r] = "RUNNING")
    BY DEF IInv, Rastro, Perdida, EnSeccion
  <2>2. CASE EnSeccion(p) /\ EnSeccion(q)
    BY <2>2 DEF IInv, Turno
  <2>3. CASE EnSeccion(p) /\ fila[q] = "RUNNING"
    <3>1. fase[p] \in {"lectura", "orden", "registrar", "verificar"} \/ remoto[p] # "nada"
      BY DEF EnOperacion
    <3> QED BY <2>3, <3>1 DEF IInv, Vacante
  <2>4. CASE EnSeccion(q) /\ fila[p] = "RUNNING"
    <3>1. fase[q] \in {"lectura", "orden", "registrar", "verificar"} \/ remoto[q] # "nada"
      BY DEF EnOperacion
    <3> QED BY <2>4, <3>1 DEF IInv, Vacante
  <2>5. CASE fila[p] = "RUNNING" /\ fila[q] = "RUNNING"
    BY <2>5 DEF IInv, UnaTareaRunning
  <2> QED BY <2>1, <2>2, <2>3, <2>4, <2>5
<1> QED BY <1>1, Invariante, PTL

-------------------------------------------------------------------------------
(***************************************************************************)
(* The node (Cuotas), with no hypothesis on its constants.  Until a lock    *)
(* expires under its holder, whoever works under it is alone with the list, *)
(* so that no reservation is lost, and no snapshot misses what is on the    *)
(* node, what the code lost sight of apart: the sum of what is promised     *)
(* stays below the limit, and the whole implements Capacidad.               *)
(***************************************************************************)

\* The steps of one request.
PasoDe(p) ==
  \/ C!ProxmoxPaso(p)
  \/ C!Pedir(p) \/ C!TomarLock(p) \/ C!Rendirse(p)
  \/ C!LeerCache(p) \/ C!RespondeEstado(p) \/ C!RespondeLista(p) \/ C!RespondeStorages(p)
  \/ C!FallaLectura(p) \/ C!Validar(p) \/ C!Rechazar(p)
  \/ C!RespondeNextid(p) \/ C!NoDespachada(p)
  \/ C!CreacionAceptada(p) \/ C!CreacionIncierta(p) \/ C!ConfigResponde(p)
  \/ C!Soltar(p) \/ C!Caer(p) \/ C!LiberarReserva(p)

\* The lists of reservations.
Listas == SUBSET [id : Solicitudes, vmid : BOOLEAN]

\* What writing a reservation leaves in the list.
LEMMA ListaConReserva ==
  ASSUME NEW Ls \in Listas, NEW p \in Solicitudes, NEW v \in BOOLEAN
  PROVE  /\ Ls \cup {C!Reserva(p, v)} \in Listas
         /\ C!Ids(Ls \cup {C!Reserva(p, v)}) = C!Ids(Ls) \cup {p}
<1>1. C!Reserva(p, v) \in [id : Solicitudes, vmid : BOOLEAN] /\ C!Reserva(p, v).id = p
  BY DEF C!Reserva
<1> QED BY <1>1 DEF Listas, C!Ids

\* What taking one out leaves in it.
LEMMA ListaSinReserva ==
  ASSUME NEW Ls \in Listas, NEW p
  PROVE  /\ C!QuitarReserva(Ls, p) \in Listas
         /\ C!Ids(C!QuitarReserva(Ls, p)) = C!Ids(Ls) \ {p}
BY DEF Listas, C!QuitarReserva, C!Ids

-------------------------------------------------------------------------------
(* Sums of memory *)

\* The memory of the requests of S, unit by unit.
Unidades(S) == UNION {{p} \X (1 .. Memorias[p]) : p \in S}
Peso(S) == Cardinality(Unidades(S))

\* What is asked for is finite, set by set.
LEMMA UnidadesFinitas ==
  ASSUME NEW S, S \subseteq Solicitudes
  PROVE  IsFiniteSet(S) /\ IsFiniteSet(Unidades(S)) /\ Peso(S) \in Nat
<1> DEFINE f == [p \in S |-> {p} \X (1 .. Memorias[p])]
           T == {{p} \X (1 .. Memorias[p]) : p \in S}
<1>1. IsFiniteSet(S)
  BY CuotasAssumption, FS_Subset
<1>2. f \in Surjection(S, T)
  BY DEF Surjection
<1>3. IsFiniteSet(T)
  <2> HIDE DEF f, T
  <2> QED BY <1>1, <1>2, FS_Surjection
<1>4. ASSUME NEW p \in S PROVE IsFiniteSet({p} \X (1 .. Memorias[p]))
  <2>1. Memorias[p] \in Int
    BY CuotasAssumption DEF C!Supuestos
  <2>2. IsFiniteSet(1 .. Memorias[p])
    BY <2>1, FS_Interval
  <2>3. IsFiniteSet({p})
    BY FS_Singleton, Zenon
  <2> QED BY <2>2, <2>3, FS_Product, Zenon
<1>5. \A t \in T : IsFiniteSet(t)
  BY <1>4
<1>6. IsFiniteSet(Unidades(S))
  <2>1. Unidades(S) = UNION T
    BY DEF Unidades
  <2> HIDE DEF T
  <2> QED BY <1>3, <1>5, <2>1, FS_UNION
<1> QED BY <1>1, <1>6, FS_CardinalityType DEF Peso

\* The units of one request more.
LEMMA PesoMas ==
  ASSUME NEW S, S \subseteq Solicitudes, NEW p \in Solicitudes
  PROVE  Peso(S \cup {p}) = IF p \in S THEN Peso(S) ELSE Peso(S) + Memorias[p]
<1>1. CASE p \in S
  <2>1. S \cup {p} = S
    BY <1>1
  <2> QED BY <1>1, <2>1
<1>2. CASE p \notin S
  <2> DEFINE U == {p} \X (1 .. Memorias[p])
  <2>1. Memorias[p] \in Nat
    BY CuotasAssumption DEF C!Supuestos
  <2>2. IsFiniteSet(U) /\ Cardinality(U) = Memorias[p]
    <3>1. IsFiniteSet(1 .. Memorias[p]) /\ Cardinality(1 .. Memorias[p]) = Memorias[p]
      BY <2>1, FS_Interval, SMTT(30)
    <3>2. IsFiniteSet({p}) /\ Cardinality({p}) = 1
      BY FS_Singleton
    <3>3. IsFiniteSet(U) /\ Cardinality(U) = 1 * Memorias[p]
      <4>1. /\ IsFiniteSet({p} \X (1 .. Memorias[p]))
            /\ Cardinality({p} \X (1 .. Memorias[p])) = Cardinality({p}) * Cardinality(1 .. Memorias[p])
        BY <3>1, <3>2, FS_Product, Zenon
      <4> QED BY <3>1, <3>2, <4>1
    <3> QED BY <2>1, <3>3
  <2>3. Unidades(S \cup {p}) = Unidades(S) \cup U
    BY DEF Unidades
  <2>4. Unidades(S) \cap U = {}
    BY <1>2 DEF Unidades
  <2>5. IsFiniteSet(Unidades(S)) /\ Peso(S) \in Nat
    BY UnidadesFinitas
  <2> HIDE DEF U
  <2>6. Cardinality(Unidades(S \cup {p})) = Cardinality(Unidades(S)) + Cardinality(U) - Cardinality({})
    BY <2>2, <2>3, <2>4, <2>5, FS_Union, ZenonT(30)
  <2>7. Cardinality({}) = 0
    BY FS_EmptySet
  <2> QED BY <1>2, <2>1, <2>2, <2>5, <2>6, <2>7 DEF Peso
<1> QED BY <1>1, <1>2

\* The sum of margenRAMNodo is the number of units.
LEMMA SumaEsPeso ==
  ASSUME NEW S, S \subseteq Solicitudes
  PROVE  C!Suma(S) = Peso(S)
<1> DEFINE Uno(s) == CHOOSE x \in s : TRUE
           Paso(f) == [s \in SUBSET S |-> IF s = {} THEN 0 ELSE Memorias[Uno(s)] + f[s \ {Uno(s)}]]
           it == CHOOSE f : f = Paso(f)
           G == [s \in SUBSET S |-> Peso(s)]
<1>1. C!Suma(S) = it[S]
  BY Zenon DEF C!Suma, C!MapThenSumSet, C!MapThenFoldSet
<1>2. \A s \in SUBSET S : s # {} => Uno(s) \in s
  OBVIOUS
<1>3. Peso({}) = 0
  <2>1. Unidades({}) = {}
    BY DEF Unidades
  <2> QED BY <2>1, FS_EmptySet DEF Peso
<1>4. \A s \in SUBSET S : s # {} => Peso(s) = Memorias[Uno(s)] + Peso(s \ {Uno(s)})
  <2> SUFFICES ASSUME NEW s \in SUBSET S, s # {}
               PROVE  Peso(s) = Memorias[Uno(s)] + Peso(s \ {Uno(s)})
    OBVIOUS
  <2>1. Uno(s) \in s
    BY <1>2
  <2> DEFINE r == s \ {Uno(s)}
             u == Uno(s)
  <2> HIDE DEF Uno
  <2>2. s = r \cup {u} /\ u \notin r /\ r \subseteq Solicitudes /\ u \in Solicitudes
    BY <2>1
  <2>3. Peso(r) \in Nat /\ Memorias[u] \in Nat
    BY <2>2, UnidadesFinitas, CuotasAssumption DEF C!Supuestos
  <2> HIDE DEF r, u
  <2>4. Peso(s) = Peso(r) + Memorias[u]
    BY <2>2, PesoMas
  <2>5. Peso(s) = Memorias[u] + Peso(r)
    BY <2>3, <2>4
  <2> QED BY <2>5 DEF r, u
<1> HIDE DEF Uno
<1>5. G = Paso(G)
  <2>1. \A s \in SUBSET S : G[s] = IF s = {} THEN 0 ELSE Memorias[Uno(s)] + G[s \ {Uno(s)}]
    BY <1>3, <1>4
  <2> QED BY <2>1, Zenon
<1>6. it = Paso(it)
  <2> HIDE DEF Paso
  <2> QED BY <1>5, Zenon
<1> HIDE DEF it
<1>7. \A s \in SUBSET S : it[s] = Peso(s)
  <2> DEFINE Ms == {s \in SUBSET S : it[s] # Peso(s)}
  <2> SUFFICES ASSUME Ms # {} PROVE FALSE
    OBVIOUS
  <2>1. IsWellFoundedOn(StrictSubsetOrdering(S), SUBSET S)
    <3>1. IsFiniteSet(S)
      BY UnidadesFinitas
    <3> QED BY <3>1, FS_FiniteSubsetsOfFinite, FS_StrictSubsetOrderingWellFounded
  <2>2. PICK s \in Ms : \A r \in Ms : <<r, s>> \notin StrictSubsetOrdering(S)
    <3>1. Ms \subseteq SUBSET S
      OBVIOUS
    <3> HIDE DEF Ms
    <3> QED BY <2>1, <3>1, WFMin
  <2>3. s \in SUBSET S /\ it[s] = IF s = {} THEN 0 ELSE Memorias[Uno(s)] + it[s \ {Uno(s)}]
    BY <1>6
  <2>4. s # {}
    BY <1>3, <2>3
  <2> DEFINE r == s \ {Uno(s)}
  <2>5. <<r, s>> \in StrictSubsetOrdering(S)
    BY <1>2, <2>3, <2>4 DEF StrictSubsetOrdering
  <2>6. it[r] = Peso(r)
    BY <2>2, <2>3, <2>5
  <2> QED BY <1>4, <2>3, <2>4, <2>6
<1> QED BY <1>1, <1>7

\* Nothing weighs nothing, and a request what it asks for.
LEMMA SumaUno ==
  ASSUME NEW p \in Solicitudes
  PROVE  C!Suma({p}) = Memorias[p] /\ C!Suma({}) = 0 /\ Memorias[p] \in Nat
<1>1. Memorias[p] \in Nat
  BY CuotasAssumption DEF C!Supuestos
<1>2. Unidades({}) = {}
  BY DEF Unidades
<1>3. Peso({}) = 0
  BY <1>2, FS_EmptySet DEF Peso
<1>4. Peso({} \cup {p}) = Peso({}) + Memorias[p]
  BY PesoMas
<1>5. {} \cup {p} = {p}
  OBVIOUS
<1>6. Peso({p}) = Memorias[p]
  BY <1>1, <1>3, <1>4, <1>5
<1> QED BY <1>1, <1>3, <1>6, SumaEsPeso

\* A part weighs no more than the whole, and the whole no more than its parts.
LEMMA SumaPartes ==
  ASSUME NEW S, S \subseteq Solicitudes, NEW T, T \subseteq Solicitudes
  PROVE  /\ C!Suma(S) \in Nat
         /\ C!Suma(S \cup T) <= C!Suma(S) + C!Suma(T)
         /\ S \subseteq T => C!Suma(S) <= C!Suma(T)
<1>1. /\ IsFiniteSet(Unidades(S)) /\ Peso(S) \in Nat
      /\ IsFiniteSet(Unidades(T)) /\ Peso(T) \in Nat
      /\ IsFiniteSet(Unidades(S \cup T)) /\ Peso(S \cup T) \in Nat
  <2>1. S \cup T \subseteq Solicitudes
    OBVIOUS
  <2> QED BY <2>1, UnidadesFinitas
<1>2. Peso(S \cup T) <= Peso(S) + Peso(T)
  <2>1. Unidades(S \cup T) = Unidades(S) \cup Unidades(T)
    BY DEF Unidades
  <2>2. IsFiniteSet(Unidades(S) \cap Unidades(T))
    BY <1>1, FS_Intersection
  <2>3. Cardinality(Unidades(S) \cap Unidades(T)) \in Nat
    BY <2>2, FS_CardinalityType
  <2>4. Cardinality(Unidades(S) \cup Unidades(T)) =
          Cardinality(Unidades(S)) + Cardinality(Unidades(T)) - Cardinality(Unidades(S) \cap Unidades(T))
    BY <1>1, FS_Union
  <2>5. Peso(S \cup T) = Peso(S) + Peso(T) - Cardinality(Unidades(S) \cap Unidades(T))
    BY <2>1, <2>4 DEF Peso
  <2> QED BY <1>1, <2>3, <2>5
<1>3. ASSUME S \subseteq T PROVE Peso(S) <= Peso(T)
  <2>1. Unidades(S) \in SUBSET Unidades(T)
    BY <1>3 DEF Unidades
  <2> QED BY <1>1, <2>1, FS_Subset DEF Peso
<1>4. C!Suma(S \cup T) = Peso(S \cup T) /\ C!Suma(S) = Peso(S) /\ C!Suma(T) = Peso(T)
  <2>1. S \cup T \subseteq Solicitudes
    OBVIOUS
  <2> QED BY <2>1, SumaEsPeso
<1> QED BY <1>1, <1>2, <1>3, <1>4
\* What a request has done in Proxmox, by where it is.
Huella == \A p \in Solicitudes :
  /\ etapa[p] \in {"nuevo", "lock", "capacidad", "estado", "lista", "storages", "validar", "nextid"} =>
       remoto2[p] = "nada"
  /\ etapa[p] \in {"nextid", "post"} => Claves[p] = "crear"
  /\ etapa[p] = "put" => Claves[p] # "crear" /\ remoto2[p] # "nada"
  /\ etapa[p] = "lock" => C!ConLock(p)

\* A change of configuration that Proxmox has not decided is waited for, or lost
\* sight of.
Cambios == \A p \in Solicitudes :
  Claves[p] # "crear" /\ C!SinDecidir(p) /\ p \notin perdidas => etapa[p] = "put"

\* Who works under the lock holds it.
ConCerrojo(p) == C!ConLock(p) /\ C!Trabaja(p)
Duenio == \A p \in Solicitudes : ConCerrojo(p) => cerrojo = p

\* Under the lock the list that was read is the list that is kept, and a creation
\* that goes out is in it.
ListaAlDia == \A p \in Solicitudes :
  /\ ConCerrojo(p) /\ etapa[p] # "soltar" => lista[p] = reservas
  /\ etapa[p] \in {"nextid", "post"} => p \in C!Ids(reservas)

\* What is on the node is in the snapshot F, or has its reservation, or the code
\* lost sight of it; what asks for no RAM does not matter.
Contada(q, F) ==
  C!ConLock(q) /\ remoto2[q] = "visible" /\ q \notin perdidas => q \in F \cup C!Ids(reservas)
CacheCubre == cache.hay => \A q \in Solicitudes :
  Contada(q, cache.instancias) \/ etapa[q] = "put"
FotoCubre == \A p \in Solicitudes : C!ConLock(p) /\ etapa[p] \in {"storages", "validar"} =>
  \A q \in Solicitudes : Contada(q, foto[p])

\* What is promised on the node (reserved, on its way or done) and in sight.
Admitidas == C!Ids(reservas) \cup
  {p \in Solicitudes : remoto2[p] \in {"enviado", "pendiente", "visible"}}
Vigentes == Admitidas \ perdidas
Caben == C!Suma(Vigentes) <= C!Limite

\* The admitted set of Capacidad, and a request that fits in it.
Prometidas == IF vencido THEN {} ELSE Vigentes
Admite(p) == C!Suma(Prometidas \cup {p}) <= C!Limite /\ Prometidas' = Prometidas \cup {p}

\* A step of the node keeps every variable in its range and every call in its time.
LEMMA TipoNodo ==
  ASSUME C!TypeOK, C!Next
  PROVE  C!TypeOK'
<1> USE CuotasAssumption DEF C!Supuestos, C!TypeOK, C!Fases, C!Llamadas, C!Nadie,
                             C!Pasar, C!Enviar, C!Perder, C!Invalidar, C!historia
<1>0. /\ C!SinFoto \in [hay : BOOLEAN, instancias : SUBSET Solicitudes, edad : 0 .. TtlCapacidad - 1]
      /\ 0 \in 0 .. LimiteLlamada
  BY DEF C!SinFoto
<1>1. CASE C!Tic
  <2>1. cache' \in [hay : BOOLEAN, instancias : SUBSET Solicitudes, edad : 0 .. TtlCapacidad - 1]
    <3>1. CASE cache.hay /\ cache.edad + 1 < TtlCapacidad
      <4>1. cache' = [cache EXCEPT !.edad = cache.edad + 1]
        BY <1>1, <3>1 DEF C!Tic
      <4>2. cache.edad + 1 \in 0 .. TtlCapacidad - 1
        BY <3>1
      <4> QED BY <4>1, <4>2, Zenon DEF C!TypeOK
    <3>2. CASE ~(cache.hay /\ cache.edad + 1 < TtlCapacidad)
      BY <1>1, <3>2 DEF C!Tic, C!SinFoto
    <3> QED BY <3>1, <3>2
  <2>2. cerrojo' \in Solicitudes \cup {"nadie"} /\ edadCerrojo' \in 0 .. TtlProvision - 1
    BY <1>1 DEF C!Tic, C!VenceLock
  <2>3. reloj2' \in [Solicitudes -> 0 .. LimiteLlamada]
    BY <1>1 DEF C!Tic, C!PuedeSeguir
  <2>4. UNCHANGED <<etapa, lista, foto, reservas, remoto2, perdidas>> /\ vencido' \in BOOLEAN
    BY <1>1, Zenon DEF C!Tic
  <2> QED BY <2>1, <2>2, <2>3, <2>4
<1>2. ASSUME NEW p \in Solicitudes, PasoDe(p) PROVE C!TypeOK'
  <2>1. CASE C!ProxmoxAcepta(p) BY <2>1 DEF C!ProxmoxAcepta
  <2>2. CASE C!ProxmoxRechaza(p) BY <2>2 DEF C!ProxmoxRechaza
  <2>3. CASE C!ProxmoxCompleta(p) BY <2>3 DEF C!ProxmoxCompleta
  <2>4. CASE C!ProxmoxFalla(p) BY <2>4 DEF C!ProxmoxFalla
  <2>5. CASE C!Pedir(p) BY <1>0, <2>5 DEF C!Pedir, C!ConLock
  <2>6. CASE C!TomarLock(p) BY <1>0, <2>6 DEF C!TomarLock
  <2>7. CASE C!Rendirse(p) BY <1>0, <2>7 DEF C!Rendirse
  <2>8. CASE C!LeerCache(p) BY <1>0, <2>8 DEF C!LeerCache
  <2>9. CASE C!RespondeEstado(p) BY <1>0, <2>9 DEF C!RespondeEstado
  <2>10. CASE C!RespondeLista(p) BY <1>0, <2>10 DEF C!RespondeLista, C!Visibles
  <2>11. CASE C!RespondeStorages(p)
    <3>1. cache' = [hay |-> TRUE, instancias |-> foto[p], edad |-> 0] /\ C!Pasar(p, "validar")
          /\ UNCHANGED <<lista, foto, cerrojo, edadCerrojo, reservas, remoto2, vencido>>
      BY <2>11, Zenon DEF C!RespondeStorages
    <3>2. perdidas' \subseteq Solicitudes
      BY <2>11 DEF C!RespondeStorages, C!Visibles
    <3> QED BY <1>0, <3>1, <3>2
  <2>12. CASE C!FallaLectura(p) BY <1>0, <2>12 DEF C!FallaLectura
  <2>13. CASE C!Validar(p)
    <3> DEFINE Ls == lista[p] \cup {C!Reserva(p, FALSE)}
    <3>1. Ls \in Listas
      BY ListaConReserva DEF Listas
    <3>2. CASE Claves[p] = "crear"
      <4>1. /\ lista' = [lista EXCEPT ![p] = Ls]
            /\ UNCHANGED <<foto, cerrojo, edadCerrojo, cache, remoto2, perdidas, vencido>>
        BY <2>13, <3>2, Zenon DEF C!Validar
      <4>2. reservas' = Ls
        BY <2>13, <3>2, <4>1 DEF C!Validar
      <4>3. C!Pasar(p, "nextid")
        BY <2>13, <3>2 DEF C!Validar
      <4> HIDE DEF Ls
      <4> QED BY <1>0, <3>1, <4>1, <4>2, <4>3 DEF Listas
    <3>3. CASE Claves[p] # "crear"
      BY <1>0, <2>13, <3>3 DEF C!Validar
    <3> QED BY <3>2, <3>3
  <2>14. CASE C!Rechazar(p) BY <1>0, <2>14 DEF C!Rechazar
  <2>15. CASE C!RespondeNextid(p) BY <1>0, <2>15 DEF C!RespondeNextid
  <2>16. CASE C!NoDespachada(p)
    <3>1. C!QuitarReserva(lista[p], p) \in Listas
      BY ListaSinReserva DEF Listas
    <3>2. /\ reservas' = C!QuitarReserva(lista[p], p) \/ reservas' = reservas
          /\ cache' = C!SinFoto \/ cache' = cache
          /\ C!Pasar(p, "soltar")
          /\ UNCHANGED <<lista, foto, cerrojo, edadCerrojo, remoto2, perdidas, vencido>>
      BY <2>16, Zenon DEF C!NoDespachada
    <3>3. reservas' \in Listas
      BY <3>1, <3>2 DEF Listas
    <3>4. cache' \in [hay : BOOLEAN, instancias : SUBSET Solicitudes, edad : 0 .. TtlCapacidad - 1]
      BY <1>0, <3>2, Zenon DEF C!TypeOK
    <3> QED BY <1>0, <3>2, <3>3, <3>4 DEF Listas
  <2>17. CASE C!CreacionAceptada(p)
    <3> DEFINE Ls == C!QuitarReserva(lista[p], p) \cup {C!Reserva(p, TRUE)}
    <3>0. lista[p] \in Listas
      BY DEF Listas
    <3>1. Ls \in Listas
      <4>1. C!QuitarReserva(lista[p], p) \in Listas
        BY <3>0, ListaSinReserva
      <4> QED BY <4>1, ListaConReserva
    <3>2. /\ lista' = [lista EXCEPT ![p] = Ls]
          /\ UNCHANGED <<foto, cerrojo, edadCerrojo, remoto2, perdidas, vencido>>
      BY <2>17, Zenon DEF C!CreacionAceptada
    <3>3. reservas' \in {lista'[p], reservas} /\ cache' \in {C!SinFoto, cache} /\ C!Pasar(p, "soltar")
      BY <2>17, Zenon DEF C!CreacionAceptada
    <3> HIDE DEF Ls
    <3>4. reservas' \in Listas
      BY <3>1, <3>2, <3>3 DEF Listas
    <3> QED BY <1>0, <3>1, <3>2, <3>3, <3>4 DEF Listas
  <2>18. CASE C!CreacionIncierta(p) BY <1>0, <2>18 DEF C!CreacionIncierta
  <2>19. CASE C!ConfigResponde(p) BY <1>0, <2>19 DEF C!ConfigResponde
  <2>20. CASE C!Soltar(p) BY <2>20 DEF C!Soltar
  <2>21. CASE C!Caer(p) BY <1>0, <2>21 DEF C!Caer
  <2>22. CASE C!LiberarReserva(p)
    <3>1. reservas' = C!QuitarReserva(reservas, p) /\ cache' \in {C!SinFoto, cache}
          /\ UNCHANGED <<etapa, reloj2, lista, foto, cerrojo, edadCerrojo, remoto2, vencido>>
          /\ perdidas' = perdidas \cup (IF C!CacheSin(p) THEN {p} ELSE {})
      BY <2>22, Zenon DEF C!LiberarReserva
    <3>2. reservas' \in Listas
      BY <3>1, ListaSinReserva DEF Listas
    <3> QED BY <1>0, <3>1, <3>2 DEF Listas
  <2> QED
    BY <1>2, <2>1, <2>2, <2>3, <2>4, <2>5, <2>6, <2>7, <2>8, <2>9, <2>10, <2>11,
       <2>12, <2>13, <2>14, <2>15, <2>16, <2>17, <2>18, <2>19, <2>20, <2>21, <2>22
    DEF PasoDe, C!ProxmoxPaso
<1> QED BY <1>1, <1>2 DEF C!Next, PasoDe

\* What the code lost sight of it does not see again, and only time makes a lock
\* expire under its holder.
LEMMA HistoriaPaso ==
  ASSUME NEW p \in Solicitudes, PasoDe(p)
  PROVE  perdidas \subseteq perdidas' /\ UNCHANGED vencido
<1> USE DEF C!historia, C!Perder
<1>1. CASE C!ProxmoxPaso(p)
  BY <1>1 DEF C!ProxmoxPaso, C!ProxmoxAcepta, C!ProxmoxRechaza, C!ProxmoxCompleta, C!ProxmoxFalla
<1>2. CASE C!RespondeStorages(p) \/ C!ConfigResponde(p) \/ C!Caer(p) \/ C!LiberarReserva(p)
  BY <1>2 DEF C!RespondeStorages, C!ConfigResponde, C!Caer, C!LiberarReserva
<1>3. CASE \/ C!Pedir(p) \/ C!TomarLock(p) \/ C!Rendirse(p)
           \/ C!LeerCache(p) \/ C!RespondeEstado(p) \/ C!RespondeLista(p)
           \/ C!FallaLectura(p) \/ C!Validar(p) \/ C!Rechazar(p)
           \/ C!RespondeNextid(p) \/ C!NoDespachada(p)
           \/ C!CreacionAceptada(p) \/ C!CreacionIncierta(p) \/ C!Soltar(p)
  BY <1>3 DEF C!Pedir, C!TomarLock, C!Rendirse, C!LeerCache, C!RespondeEstado, C!RespondeLista,
     C!FallaLectura, C!Validar, C!Rechazar, C!RespondeNextid, C!NoDespachada,
     C!CreacionAceptada, C!CreacionIncierta, C!Soltar
<1> QED BY <1>1, <1>2, <1>3 DEF PasoDe

\* Every request leaves its mark where it is, and no change of configuration is
\* abandoned in sight.
LEMMA HuellaPaso ==
  ASSUME C!TypeOK, Huella, Cambios, C!Next
  PROVE  (Huella /\ Cambios)'
<1> USE CuotasAssumption DEF C!Supuestos, C!TypeOK, C!Fases, C!Llamadas, Huella, Cambios,
                             C!ConLock, C!SinDecidir, C!Pasar, C!Enviar, C!Perder, C!historia
<1>1. CASE C!Tic
  BY <1>1 DEF C!Tic
<1>2. ASSUME NEW p \in Solicitudes, PasoDe(p) PROVE (Huella /\ Cambios)'
  <2>1. CASE C!ProxmoxAcepta(p) BY <2>1 DEF C!ProxmoxAcepta
  <2>2. CASE C!ProxmoxRechaza(p) BY <2>2 DEF C!ProxmoxRechaza
  <2>3. CASE C!ProxmoxCompleta(p) BY <2>3 DEF C!ProxmoxCompleta
  <2>4. CASE C!ProxmoxFalla(p) BY <2>4 DEF C!ProxmoxFalla
  <2>5. CASE C!Pedir(p) BY <2>5 DEF C!Pedir
  <2>6. CASE C!TomarLock(p) BY <2>6 DEF C!TomarLock
  <2>7. CASE C!Rendirse(p) BY <2>7 DEF C!Rendirse
  <2>8. CASE C!LeerCache(p) BY <2>8 DEF C!LeerCache
  <2>9. CASE C!RespondeEstado(p) BY <2>9 DEF C!RespondeEstado
  <2>10. CASE C!RespondeLista(p) BY <2>10 DEF C!RespondeLista
  <2>11. CASE C!RespondeStorages(p) BY <2>11 DEF C!RespondeStorages
  <2>12. CASE C!FallaLectura(p) BY <2>12 DEF C!FallaLectura
  <2>13. CASE C!Validar(p)
    <3>1. /\ etapa[p] = "validar" /\ UNCHANGED <<cerrojo, perdidas>>
          /\ \/ C!Pasar(p, "nextid") /\ UNCHANGED remoto2 /\ Claves[p] = "crear"
             \/ C!Enviar(p, "put") /\ Claves[p] # "crear"
      BY <2>13, Zenon DEF C!Validar, C!historia
    <3> QED BY <3>1
  <2>14. CASE C!Rechazar(p) BY <2>14 DEF C!Rechazar
  <2>15. CASE C!RespondeNextid(p) BY <2>15 DEF C!RespondeNextid
  <2>16. CASE C!NoDespachada(p) BY <2>16 DEF C!NoDespachada
  <2>17. CASE C!CreacionAceptada(p) BY <2>17 DEF C!CreacionAceptada
  <2>18. CASE C!CreacionIncierta(p) BY <2>18 DEF C!CreacionIncierta
  <2>19. CASE C!ConfigResponde(p) BY <2>19 DEF C!ConfigResponde
  <2>20. CASE C!Soltar(p) BY <2>20 DEF C!Soltar
  <2>21. CASE C!Caer(p) BY <2>21 DEF C!Caer
  <2>22. CASE C!LiberarReserva(p) BY <2>22 DEF C!LiberarReserva
  <2> QED
    BY <1>2, <2>1, <2>2, <2>3, <2>4, <2>5, <2>6, <2>7, <2>8, <2>9, <2>10, <2>11,
       <2>12, <2>13, <2>14, <2>15, <2>16, <2>17, <2>18, <2>19, <2>20, <2>21, <2>22
    DEF PasoDe, C!ProxmoxPaso
<1> QED BY <1>1, <1>2 DEF C!Next, PasoDe

\* Until a lock expires under its holder, who works under it goes on holding it.
LEMMA DuenioPaso ==
  ASSUME C!TypeOK, Duenio, C!Next, ~vencido'
  PROVE  Duenio'
<1> USE CuotasAssumption DEF C!Supuestos, C!TypeOK, C!Fases, C!Llamadas, C!Nadie,
                             Duenio, ConCerrojo, C!ConLock, C!Trabaja, C!Pasar, C!Enviar
<1>1. CASE C!Tic
  BY <1>1 DEF C!Tic, C!VenceLock
<1>2. ASSUME NEW p \in Solicitudes, PasoDe(p) PROVE Duenio'
  <2>1. CASE C!ProxmoxAcepta(p) BY <2>1 DEF C!ProxmoxAcepta
  <2>2. CASE C!ProxmoxRechaza(p) BY <2>2 DEF C!ProxmoxRechaza
  <2>3. CASE C!ProxmoxCompleta(p) BY <2>3 DEF C!ProxmoxCompleta
  <2>4. CASE C!ProxmoxFalla(p) BY <2>4 DEF C!ProxmoxFalla
  <2>5. CASE C!Pedir(p) BY <2>5 DEF C!Pedir
  <2>6. CASE C!TomarLock(p) BY <2>6 DEF C!TomarLock
  <2>7. CASE C!Rendirse(p) BY <2>7 DEF C!Rendirse
  <2>8. CASE C!LeerCache(p) BY <2>8 DEF C!LeerCache
  <2>9. CASE C!RespondeEstado(p) BY <2>9 DEF C!RespondeEstado
  <2>10. CASE C!RespondeLista(p) BY <2>10 DEF C!RespondeLista
  <2>11. CASE C!RespondeStorages(p) BY <2>11 DEF C!RespondeStorages
  <2>12. CASE C!FallaLectura(p) BY <2>12 DEF C!FallaLectura
  <2>13. CASE C!Validar(p)
    <3>1. /\ etapa[p] = "validar" /\ UNCHANGED cerrojo
          /\ \/ C!Pasar(p, "nextid") /\ UNCHANGED remoto2 /\ Claves[p] = "crear"
             \/ C!Enviar(p, "put") /\ Claves[p] # "crear"
      BY <2>13, Zenon DEF C!Validar, C!historia
    <3> QED BY <3>1
  <2>14. CASE C!Rechazar(p) BY <2>14 DEF C!Rechazar
  <2>15. CASE C!RespondeNextid(p) BY <2>15 DEF C!RespondeNextid
  <2>16. CASE C!NoDespachada(p) BY <2>16 DEF C!NoDespachada
  <2>17. CASE C!CreacionAceptada(p) BY <2>17 DEF C!CreacionAceptada
  <2>18. CASE C!CreacionIncierta(p) BY <2>18 DEF C!CreacionIncierta
  <2>19. CASE C!ConfigResponde(p) BY <2>19 DEF C!ConfigResponde
  <2>20. CASE C!Soltar(p) BY <2>20 DEF C!Soltar
  <2>21. CASE C!Caer(p) BY <2>21 DEF C!Caer
  <2>22. CASE C!LiberarReserva(p) BY <2>22 DEF C!LiberarReserva
  <2> QED
    BY <1>2, <2>1, <2>2, <2>3, <2>4, <2>5, <2>6, <2>7, <2>8, <2>9, <2>10, <2>11,
       <2>12, <2>13, <2>14, <2>15, <2>16, <2>17, <2>18, <2>19, <2>20, <2>21, <2>22
    DEF PasoDe, C!ProxmoxPaso
<1> QED BY <1>1, <1>2 DEF C!Next, PasoDe

\* What each writer of the list leaves in it.
LEMMA Escrituras ==
  ASSUME C!TypeOK, Huella, ListaAlDia, NEW p \in Solicitudes
  PROVE  /\ C!Validar(p) /\ Claves[p] = "crear" =>
              reservas' = lista'[p] /\ C!Ids(reservas') = C!Ids(reservas) \cup {p}
         /\ C!NoDespachada(p) => C!Ids(reservas') \in {C!Ids(reservas), C!Ids(reservas) \ {p}}
         /\ C!CreacionAceptada(p) => C!Ids(reservas') = C!Ids(reservas)
         /\ C!LiberarReserva(p) => C!Ids(reservas') = C!Ids(reservas) \ {p}
<1>1. lista[p] \in Listas /\ reservas \in Listas
  BY DEF C!TypeOK, Listas
<1>2. DOMAIN lista = Solicitudes
  BY DEF C!TypeOK
<1>3. etapa[p] \in {"validar", "nextid", "post"} /\ Claves[p] = "crear" => lista[p] = reservas
  BY DEF ListaAlDia, ConCerrojo, C!ConLock, C!Trabaja, C!Llamadas
<1>4. ASSUME C!Validar(p), Claves[p] = "crear"
      PROVE  reservas' = lista'[p] /\ C!Ids(reservas') = C!Ids(reservas) \cup {p}
  <2> DEFINE Ls == lista[p] \cup {C!Reserva(p, FALSE)}
  <2>1. etapa[p] = "validar" /\ lista' = [lista EXCEPT ![p] = Ls] /\ reservas' = lista'[p]
    BY <1>4, Zenon DEF C!Validar
  <2>2. reservas' = Ls /\ lista[p] = reservas
    BY <1>2, <1>3, <1>4, <2>1
  <2> QED BY <1>1, <2>1, <2>2, ListaConReserva
<1>5. ASSUME C!NoDespachada(p)
      PROVE  C!Ids(reservas') \in {C!Ids(reservas), C!Ids(reservas) \ {p}}
  <2>1. etapa[p] = "nextid" /\ (reservas' = C!QuitarReserva(lista[p], p) \/ reservas' = reservas)
    BY <1>5, Zenon DEF C!NoDespachada
  <2>2. lista[p] = reservas
    BY <1>3, <2>1 DEF Huella
  <2> QED BY <1>1, <2>1, <2>2, ListaSinReserva
<1>6. ASSUME C!CreacionAceptada(p)
      PROVE  C!Ids(reservas') = C!Ids(reservas)
  <2> DEFINE Ls == C!QuitarReserva(lista[p], p) \cup {C!Reserva(p, TRUE)}
  <2>1. /\ etapa[p] = "post" /\ lista' = [lista EXCEPT ![p] = Ls]
        /\ reservas' \in {lista'[p], reservas}
    BY <1>6, Zenon DEF C!CreacionAceptada
  <2>2. lista[p] = reservas /\ (reservas' = Ls \/ reservas' = reservas) /\ p \in C!Ids(reservas)
    BY <1>2, <1>3, <2>1 DEF Huella, ListaAlDia
  <2>3. C!QuitarReserva(lista[p], p) \in Listas
    BY <1>1, ListaSinReserva
  <2>4. C!Ids(Ls) = (C!Ids(reservas) \ {p}) \cup {p}
    BY <1>1, <2>2, <2>3, ListaConReserva, ListaSinReserva
  <2> HIDE DEF Ls
  <2> QED BY <2>2, <2>4
<1>7. ASSUME C!LiberarReserva(p) PROVE C!Ids(reservas') = C!Ids(reservas) \ {p}
  <2>1. reservas' = C!QuitarReserva(reservas, p)
    BY <1>7, Zenon DEF C!LiberarReserva
  <2> QED BY <1>1, <2>1, ListaSinReserva
<1> QED BY <1>4, <1>5, <1>6, <1>7

\* The holder of the lock is alone with the list: what it writes is what it read
\* plus its own change, and no reservation of a creation that is out gets lost.
LEMMA ListaPaso ==
  ASSUME C!TypeOK, Duenio, Huella, ListaAlDia, C!ReservaCubre, C!Next, ~vencido
  PROVE  (ListaAlDia /\ C!ReservaCubre)'
<1> USE CuotasAssumption DEF C!Supuestos, C!TypeOK, C!Fases, C!Llamadas, C!Nadie, Duenio,
                             Huella, ListaAlDia, C!ReservaCubre, ConCerrojo, C!ConLock,
                             C!Trabaja, C!SinDecidir, C!Pasar, C!Enviar
<1>1. CASE C!Tic BY <1>1 DEF C!Tic
<1>2. ASSUME NEW p \in Solicitudes, PasoDe(p) PROVE (ListaAlDia /\ C!ReservaCubre)'
  <2>1. CASE C!ProxmoxAcepta(p) BY <2>1 DEF C!ProxmoxAcepta
  <2>2. CASE C!ProxmoxRechaza(p) BY <2>2 DEF C!ProxmoxRechaza
  <2>3. CASE C!ProxmoxCompleta(p) BY <2>3 DEF C!ProxmoxCompleta
  <2>4. CASE C!ProxmoxFalla(p) BY <2>4 DEF C!ProxmoxFalla
  <2>5. CASE C!Pedir(p) BY <2>5 DEF C!Pedir
  <2>6. CASE C!TomarLock(p) BY <2>6 DEF C!TomarLock
  <2>7. CASE C!Rendirse(p) BY <2>7 DEF C!Rendirse
  <2>8. CASE C!LeerCache(p) BY <2>8 DEF C!LeerCache
  <2>9. CASE C!RespondeEstado(p) BY <2>9 DEF C!RespondeEstado
  <2>10. CASE C!RespondeLista(p) BY <2>10 DEF C!RespondeLista
  <2>11. CASE C!RespondeStorages(p) BY <2>11 DEF C!RespondeStorages
  <2>12. CASE C!FallaLectura(p) BY <2>12 DEF C!FallaLectura
  <2>13. CASE C!Validar(p)
    <3>1. CASE Claves[p] = "crear"
      <4>1. etapa[p] = "validar" /\ C!Pasar(p, "nextid") /\ UNCHANGED remoto2
        BY <2>13, <3>1, Zenon DEF C!Validar
      <4>2. \A q \in Solicitudes : q # p => ~ConCerrojo(q)
        BY <3>1, <4>1
      <4>3. reservas' = lista'[p] /\ C!Ids(reservas') = C!Ids(reservas) \cup {p}
        BY <2>13, <3>1, Escrituras
      <4> QED BY <3>1, <4>1, <4>2, <4>3
    <3>2. CASE Claves[p] # "crear"
      BY <2>13, <3>2 DEF C!Validar
    <3> QED BY <3>1, <3>2
  <2>14. CASE C!Rechazar(p) BY <2>14 DEF C!Rechazar
  <2>15. CASE C!RespondeNextid(p) BY <2>15 DEF C!RespondeNextid
  <2>16. CASE C!NoDespachada(p)
    <3>1. etapa[p] = "nextid" /\ C!Pasar(p, "soltar") /\ UNCHANGED <<lista, remoto2>>
      BY <2>16, Zenon DEF C!NoDespachada
    <3>2. \A q \in Solicitudes : q # p => ~ConCerrojo(q)
      BY <3>1
    <3>3. C!Ids(reservas) \ {p} \subseteq C!Ids(reservas')
      BY <2>16, Escrituras
    <3> QED BY <3>1, <3>2, <3>3
  <2>17. CASE C!CreacionAceptada(p)
    <3>1. etapa[p] = "post" /\ C!Pasar(p, "soltar") /\ UNCHANGED remoto2
      BY <2>17, Zenon DEF C!CreacionAceptada
    <3>2. \A q \in Solicitudes : q # p => ~ConCerrojo(q)
      BY <3>1
    <3>3. C!Ids(reservas') = C!Ids(reservas)
      BY <2>17, Escrituras
    <3> QED BY <3>1, <3>2, <3>3
  <2>18. CASE C!CreacionIncierta(p) BY <2>18 DEF C!CreacionIncierta
  <2>19. CASE C!ConfigResponde(p) BY <2>19 DEF C!ConfigResponde
  <2>20. CASE C!Soltar(p) BY <2>20 DEF C!Soltar
  <2>21. CASE C!Caer(p) BY <2>21 DEF C!Caer
  <2>22. CASE C!LiberarReserva(p)
    <3>1. /\ remoto2[p] = "visible" /\ etapa[p] = "seguida" /\ cerrojo = C!Nadie
          /\ UNCHANGED <<etapa, lista, remoto2>>
      BY <2>22, Zenon DEF C!LiberarReserva
    <3>2. \A q \in Solicitudes : ~ConCerrojo(q)
      BY <3>1
    <3>3. C!Ids(reservas') = C!Ids(reservas) \ {p}
      BY <2>22, Escrituras
    <3> QED BY <3>1, <3>2, <3>3
  <2> QED
    BY <1>2, <2>1, <2>2, <2>3, <2>4, <2>5, <2>6, <2>7, <2>8, <2>9, <2>10, <2>11,
       <2>12, <2>13, <2>14, <2>15, <2>16, <2>17, <2>18, <2>19, <2>20, <2>21, <2>22
    DEF PasoDe, C!ProxmoxPaso
<1> QED BY <1>1, <1>2 DEF C!Next, PasoDe

\* No snapshot misses what is on the node, unless its reservation is in the list
\* or the code lost sight of it.
LEMMA MargenPaso ==
  ASSUME C!TypeOK, Huella, Cambios, Duenio, ListaAlDia, C!ReservaCubre, CacheCubre, FotoCubre,
         C!Next, ~vencido
  PROVE  (CacheCubre /\ FotoCubre)'
<1> USE CuotasAssumption DEF C!Supuestos, C!TypeOK, C!Fases, C!Llamadas, C!Nadie, Duenio,
                             Huella, ConCerrojo, C!ConLock, C!Trabaja, C!Pasar, C!Enviar,
                             CacheCubre, FotoCubre, Contada, C!SinFoto, C!Perder, C!Invalidar,
                             C!historia, C!SinDecidir, C!CacheSin
<1>1. CASE C!Tic
  <2>1. UNCHANGED <<etapa, foto, reservas, remoto2, perdidas>>
    BY <1>1 DEF C!Tic
  <2>2. cache'.hay => cache.hay /\ cache'.instancias = cache.instancias
    BY <1>1 DEF C!Tic
  <2> QED BY <2>1, <2>2
<1>2. ASSUME NEW p \in Solicitudes, PasoDe(p) PROVE (CacheCubre /\ FotoCubre)'
  <2>1. CASE C!ProxmoxAcepta(p) BY <2>1 DEF C!ProxmoxAcepta, C!ReservaCubre, Cambios
  <2>2. CASE C!ProxmoxRechaza(p) BY <2>2 DEF C!ProxmoxRechaza
  <2>3. CASE C!ProxmoxCompleta(p) BY <2>3 DEF C!ProxmoxCompleta, C!ReservaCubre, Cambios
  <2>4. CASE C!ProxmoxFalla(p) BY <2>4 DEF C!ProxmoxFalla
  <2>5. CASE C!Pedir(p) BY <2>5 DEF C!Pedir
  <2>6. CASE C!TomarLock(p) BY <2>6 DEF C!TomarLock
  <2>7. CASE C!Rendirse(p) BY <2>7 DEF C!Rendirse
  <2>8. CASE C!LeerCache(p) BY <2>8 DEF C!LeerCache
  <2>9. CASE C!RespondeEstado(p) BY <2>9 DEF C!RespondeEstado
  <2>10. CASE C!RespondeLista(p) BY <2>10 DEF C!RespondeLista, C!Visibles
  <2>11. CASE C!RespondeStorages(p) BY <2>11 DEF C!RespondeStorages, C!Visibles
  <2>12. CASE C!FallaLectura(p) BY <2>12 DEF C!FallaLectura
  <2>13. CASE C!Validar(p)
    <3>1. /\ etapa[p] = "validar" /\ UNCHANGED <<foto, cerrojo, cache, perdidas>>
          /\ \/ C!Pasar(p, "nextid") /\ UNCHANGED remoto2
             \/ C!Enviar(p, "put") /\ UNCHANGED reservas
      BY <2>13, Zenon DEF C!Validar, C!historia
    <3>2. C!Ids(reservas) \subseteq C!Ids(reservas')
      <4>1. CASE Claves[p] = "crear"
        BY <2>13, <4>1, Escrituras
      <4>2. CASE Claves[p] # "crear"
        BY <2>13, <4>2, Zenon DEF C!Validar
      <4> QED BY <4>1, <4>2
    <3> QED BY <3>1, <3>2
  <2>14. CASE C!Rechazar(p) BY <2>14 DEF C!Rechazar
  <2>15. CASE C!RespondeNextid(p) BY <2>15 DEF C!RespondeNextid
  <2>16. CASE C!NoDespachada(p)
    <3>1. /\ etapa[p] = "nextid" /\ (cache' = C!SinFoto \/ UNCHANGED cache)
          /\ C!Pasar(p, "soltar") /\ UNCHANGED <<foto, cerrojo, remoto2, perdidas>>
      BY <2>16, Zenon DEF C!NoDespachada, C!historia, C!Invalidar
    <3>2. C!Ids(reservas') \in {C!Ids(reservas), C!Ids(reservas) \ {p}}
      BY <2>16, Escrituras
    <3>3. remoto2[p] = "nada" /\ ConCerrojo(p)
      BY <3>1
    <3>4. \A q \in Solicitudes, F \in SUBSET Solicitudes : Contada(q, F) => Contada(q, F)'
      BY <3>1, <3>2, <3>3
    <3>5. \A q \in Solicitudes : q # p => etapa'[q] = etapa[q] /\ ~ConCerrojo(q)
      BY <3>1, <3>3
    <3>6. etapa'[p] = "soltar"
      BY <3>1
    <3> HIDE DEF Contada
    <3>7. FotoCubre'
      BY <3>3, <3>5, <3>6
    <3>8. CacheCubre'
      BY <3>1, <3>4, <3>5, <3>3
    <3> QED BY <3>7, <3>8
  <2>17. CASE C!CreacionAceptada(p)
    <3>1. C!Ids(reservas) \subseteq C!Ids(reservas') /\ etapa[p] = "post"
      BY <2>17, Escrituras DEF C!CreacionAceptada
    <3>2. /\ cache' \in {C!SinFoto, cache} /\ C!Pasar(p, "soltar")
          /\ UNCHANGED <<foto, cerrojo, remoto2, perdidas>>
      BY <2>17, Zenon DEF C!CreacionAceptada, C!historia
    <3> QED BY <3>1, <3>2
  <2>18. CASE C!CreacionIncierta(p) BY <2>18 DEF C!CreacionIncierta
  <2>19. CASE C!ConfigResponde(p) BY <2>19 DEF C!ConfigResponde
  <2>20. CASE C!Soltar(p) BY <2>20 DEF C!Soltar
  <2>21. CASE C!Caer(p) BY <2>21 DEF C!Caer
  <2>22. CASE C!LiberarReserva(p)
    <3>1. /\ cerrojo = C!Nadie /\ cache' \in {C!SinFoto, cache} /\ UNCHANGED <<etapa, foto, remoto2>>
          /\ C!CacheSin(p) => p \in perdidas'
          /\ perdidas \subseteq perdidas'
      BY <2>22 DEF C!LiberarReserva
    <3>2. C!Ids(reservas') = C!Ids(reservas) \ {p}
      BY <2>22, Escrituras
    <3> QED BY <3>1, <3>2
  <2> QED
    BY <1>2, <2>1, <2>2, <2>3, <2>4, <2>5, <2>6, <2>7, <2>8, <2>9, <2>10, <2>11,
       <2>12, <2>13, <2>14, <2>15, <2>16, <2>17, <2>18, <2>19, <2>20, <2>21, <2>22
    DEF PasoDe, C!ProxmoxPaso
<1> QED BY <1>1, <1>2 DEF C!Next, PasoDe

\* The limit is a constant,
LEMMA LimiteFijo == C!Limite' = C!Limite
BY DEF C!Limite, C!Headroom, C!NoNegativo

\* and a number, zero at least.
LEMMA LimiteNatural == C!Headroom \in Int /\ C!Limite \in Nat
BY CuotasAssumption DEF C!Supuestos, C!Headroom, C!Limite, C!NoNegativo

\* The changes of vCPU weigh nothing.
LEMMA CoresSinPeso ==
  ASSUME NEW S, S \subseteq {p \in Solicitudes : ~C!ConLock(p)}
  PROVE  C!Suma(S) = 0
<1>1. S \subseteq Solicitudes /\ \A p \in S : Memorias[p] = 0
  BY CuotasAssumption DEF C!Supuestos, C!ConLock
<1>2. Unidades(S) = {}
  BY <1>1 DEF Unidades
<1> QED BY <1>1, <1>2, SumaEsPeso, FS_EmptySet DEF Peso

\* A request that finds room in the snapshot and the list it read finds it
\* beside all that is promised.
LEMMA Cabe ==
  ASSUME C!TypeOK, Huella, Cambios, Duenio, ListaAlDia, C!ReservaCubre, FotoCubre, Caben, ~vencido,
         NEW p \in Solicitudes, etapa[p] = "validar",
         Memorias[p] <= C!MargenRAMNodo(foto[p], lista[p])
  PROVE  C!Suma(Vigentes \cup {p}) <= C!Limite
<1> DEFINE F == foto[p]
           R == {r.id : r \in {s \in lista[p] : ~(s.vmid /\ s.id \in F)}}
           Z == {q \in Solicitudes : ~C!ConLock(q)}
<1>1. F \subseteq Solicitudes /\ R \subseteq Solicitudes /\ Z \subseteq Solicitudes
  <2>1. F \subseteq Solicitudes /\ lista[p] \subseteq [id : Solicitudes, vmid : BOOLEAN]
    BY DEF C!TypeOK
  <2> QED BY <2>1
<1>2. Vigentes \subseteq Solicitudes
  BY DEF Vigentes, Admitidas, C!TypeOK, C!Ids
<1>3. Memorias[p] \in Nat /\ C!Suma({p}) = Memorias[p]
  BY SumaUno
<1>4. ASSUME C!ConLock(p) PROVE Vigentes \subseteq F \cup R \cup Z
  <2>1. ConCerrojo(p) /\ lista[p] = reservas /\ cerrojo = p
    BY <1>4 DEF ListaAlDia, Duenio, ConCerrojo, C!Trabaja
  <2> SUFFICES ASSUME NEW q \in Vigentes, q \notin F, C!ConLock(q) PROVE q \in R
    BY <1>2
  <2>2. q \in Solicitudes /\ q \notin perdidas /\ q \in Admitidas
    BY <1>2 DEF Vigentes
  <2>3. q \in C!Ids(reservas)
    <3> SUFFICES ASSUME remoto2[q] \in {"enviado", "pendiente", "visible"}
                 PROVE  q \in C!Ids(reservas)
      BY <2>2 DEF Admitidas
    <3>1. CASE remoto2[q] = "visible"
      BY <1>4, <2>2, <3>1 DEF FotoCubre, Contada
    <3>2. CASE remoto2[q] # "visible" /\ Claves[q] = "crear"
      BY <2>2, <3>2 DEF C!ReservaCubre, C!SinDecidir
    <3>3. CASE remoto2[q] # "visible" /\ Claves[q] # "crear"
      <4>1. etapa[q] = "put"
        BY <2>2, <3>3 DEF Cambios, C!SinDecidir
      <4>2. ConCerrojo(q)
        BY <4>1 DEF ConCerrojo, C!Trabaja, C!Llamadas
      <4>3. q = p
        BY <2>1, <2>2, <4>2 DEF Duenio
      <4> QED BY <4>1, <4>3
    <3> QED BY <3>1, <3>2, <3>3
  <2>4. PICK r \in lista[p] : r.id = q
    BY <2>1, <2>3 DEF C!Ids
  <2> QED BY <2>4
<1>5. C!Suma(Z) = 0
  BY CoresSinPeso
<1> HIDE DEF F, R, Z
<1>6. CASE Memorias[p] = 0
  <2>1. C!Suma(Vigentes \cup {p}) <= C!Suma(Vigentes) + C!Suma({p}) /\ C!Suma(Vigentes) \in Nat
        /\ C!Suma(Vigentes \cup {p}) \in Nat
    <3>1. {p} \subseteq Solicitudes /\ Vigentes \cup {p} \subseteq Solicitudes
      BY <1>2
    <3> QED BY <1>2, <3>1, SumaPartes
  <2> QED BY <1>3, <1>6, <2>1, LimiteNatural DEF Caben
<1>7. CASE Memorias[p] # 0
  <2>1. Vigentes \subseteq (F \cup R) \cup Z
    BY <1>4, <1>7, CuotasAssumption DEF C!Supuestos, C!ConLock
  <2>2. C!Suma(F) \in Nat /\ C!Suma(R) \in Nat
    BY <1>1, SumaPartes
  <2>3. Memorias[p] <= C!NoNegativo(MemTotal - C!Mayor(Base + C!Suma(F), MemUsada) - C!Headroom - C!Suma(R))
    BY Zenon DEF C!MargenRAMNodo, F, R
  <2>4. Memorias[p] + C!Suma(F) + C!Suma(R) <= C!Limite
    BY <1>3, <1>7, <2>2, <2>3, LimiteNatural, CuotasAssumption DEF C!Supuestos, C!NoNegativo, C!Mayor, C!Limite
  <2>5. C!Suma(Vigentes \cup {p}) <= C!Suma(F) + C!Suma(R) + Memorias[p]
    <3> DEFINE FR == F \cup R
               FRZ == FR \cup Z
    <3>1. FR \subseteq Solicitudes /\ FRZ \subseteq Solicitudes /\ {p} \subseteq Solicitudes
          /\ Vigentes \cup {p} \subseteq Solicitudes /\ FRZ \cup {p} \subseteq Solicitudes
          /\ Vigentes \cup {p} \subseteq FRZ \cup {p}
      BY <1>1, <1>2, <2>1
    <3>2. C!Suma(FR) \in Nat /\ C!Suma(FR) <= C!Suma(F) + C!Suma(R)
      <4>1. C!Suma(F \cup R) <= C!Suma(F) + C!Suma(R)
        BY <1>1, SumaPartes
      <4> QED BY <3>1, <4>1, SumaPartes
    <3> HIDE DEF FR
    <3>3. C!Suma(FRZ) \in Nat /\ C!Suma(FRZ) <= C!Suma(FR) + C!Suma(Z)
      <4>1. C!Suma(FR \cup Z) <= C!Suma(FR) + C!Suma(Z)
        BY <1>1, <3>1, SumaPartes
      <4> QED BY <3>1, <4>1, SumaPartes
    <3> HIDE DEF FRZ
    <3>4. C!Suma(FRZ \cup {p}) \in Nat /\ C!Suma(FRZ \cup {p}) <= C!Suma(FRZ) + C!Suma({p})
      BY <3>1, SumaPartes
    <3>5. C!Suma(Vigentes \cup {p}) \in Nat /\ C!Suma(Vigentes \cup {p}) <= C!Suma(FRZ \cup {p})
      BY <3>1, SumaPartes
    <3> QED BY <1>3, <1>5, <2>2, <3>2, <3>3, <3>4, <3>5
  <2>6. C!Suma(Vigentes \cup {p}) \in Nat
    BY <1>2, SumaPartes
  <2> QED BY <1>3, <2>2, <2>4, <2>5, <2>6, LimiteNatural
<1> QED BY <1>6, <1>7

\* What is promised grows only by a request that fits.
LEMMA AdmisionPaso ==
  ASSUME C!TypeOK, Huella, Cambios, ~vencido => Duenio /\ ListaAlDia /\ C!ReservaCubre /\ FotoCubre /\ Caben,
         C!Next
  PROVE  Prometidas' \subseteq Prometidas \/ \E q \in Solicitudes : Admite(q)
<1>1. CASE C!Tic
  BY <1>1, Zenon DEF C!Tic, Prometidas, Vigentes, Admitidas
<1>2. ASSUME NEW p \in Solicitudes, PasoDe(p)
      PROVE  Prometidas' \subseteq Prometidas \/ \E q \in Solicitudes : Admite(q)
  <2>0. perdidas \subseteq perdidas' /\ UNCHANGED vencido
    BY <1>2, HistoriaPaso
  <2>A. CASE vencido
    BY <2>0, <2>A DEF Prometidas
  <2>B. CASE ~vencido
    <3>1. Duenio /\ ListaAlDia /\ C!ReservaCubre /\ FotoCubre /\ Caben
      BY <2>B
    <3>2. Prometidas = Admitidas \ perdidas /\ Prometidas' = Admitidas' \ perdidas'
      BY <2>0, <2>B DEF Prometidas, Vigentes
    <3>3. CASE C!Validar(p)
      <4>1. etapa[p] = "validar" /\ Memorias[p] <= C!MargenRAMNodo(foto[p], lista[p])
            /\ UNCHANGED perdidas
        BY <3>3, Zenon DEF C!Validar, C!historia
      <4>2. C!Suma(Prometidas \cup {p}) <= C!Limite
        BY <2>B, <3>1, <4>1, Cabe DEF Prometidas
      <4>3. Admitidas' = Admitidas \cup {p}
        <5>1. CASE Claves[p] = "crear"
          <6>1. UNCHANGED remoto2
            BY <3>3, <5>1, Zenon DEF C!Validar
          <6>2. C!Ids(reservas') = C!Ids(reservas) \cup {p}
            BY <3>1, <3>3, <5>1, Escrituras
          <6> QED BY <6>1, <6>2 DEF Admitidas
        <5>2. CASE Claves[p] # "crear"
          <6>1. UNCHANGED reservas /\ remoto2' = [remoto2 EXCEPT ![p] = "enviado"]
            BY <3>3, <5>2, Zenon DEF C!Validar, C!Enviar
          <6> QED BY <6>1 DEF C!TypeOK, Admitidas
        <5> QED BY <5>1, <5>2
      <4>4. Prometidas' = Prometidas \/ Prometidas' = Prometidas \cup {p}
        BY <3>2, <4>1, <4>3
      <4> QED BY <4>2, <4>4 DEF Admite
    <3>4. CASE ~C!Validar(p)
      <4>1. CASE C!Ids(reservas') \subseteq C!Ids(reservas) /\ UNCHANGED remoto2
        <5>1. Admitidas' \subseteq Admitidas
          BY <4>1 DEF Admitidas
        <5> QED BY <2>0, <3>2, <5>1
      <4>2. CASE C!ProxmoxPaso(p) \/ C!RespondeNextid(p)
        <5>1. UNCHANGED reservas
          BY <4>2, Zenon DEF C!ProxmoxPaso, C!ProxmoxAcepta, C!ProxmoxRechaza, C!ProxmoxCompleta,
                      C!ProxmoxFalla, C!RespondeNextid
        <5>2. \E r \in {"enviado", "visible", "pendiente", "rechazada", "fallida"} :
                remoto2' = [remoto2 EXCEPT ![p] = r]
          BY <4>2 DEF C!ProxmoxPaso, C!ProxmoxAcepta, C!ProxmoxRechaza, C!ProxmoxCompleta,
                      C!ProxmoxFalla, C!RespondeNextid, C!Enviar
        <5>3. p \in Admitidas
          BY <3>1, <4>2 DEF C!ProxmoxPaso, C!ProxmoxAcepta, C!ProxmoxRechaza, C!ProxmoxCompleta,
                      C!ProxmoxFalla, C!RespondeNextid, ListaAlDia, Admitidas
        <5>4. Admitidas' \subseteq Admitidas
          BY <5>1, <5>2, <5>3 DEF Admitidas, C!TypeOK
        <5> QED BY <2>0, <3>2, <5>4
      <4>3. CASE C!NoDespachada(p) \/ C!CreacionAceptada(p) \/ C!LiberarReserva(p)
        <5>1. UNCHANGED remoto2
          BY <4>3, Zenon DEF C!NoDespachada, C!CreacionAceptada, C!LiberarReserva
        <5>2. C!Ids(reservas') \subseteq C!Ids(reservas)
          BY <3>1, <4>3, Escrituras
        <5> QED BY <4>1, <5>1, <5>2
      <4>4. CASE \/ C!Pedir(p) \/ C!TomarLock(p) \/ C!Rendirse(p)
                 \/ C!LeerCache(p) \/ C!RespondeEstado(p) \/ C!RespondeLista(p) \/ C!RespondeStorages(p)
                 \/ C!FallaLectura(p) \/ C!Rechazar(p) \/ C!CreacionIncierta(p)
                 \/ C!ConfigResponde(p) \/ C!Soltar(p) \/ C!Caer(p)
        <5>1. UNCHANGED <<reservas, remoto2>>
          BY <4>4, Zenon DEF C!Pedir, C!TomarLock, C!Rendirse, C!LeerCache, C!RespondeEstado,
             C!RespondeLista, C!RespondeStorages, C!FallaLectura, C!Rechazar, C!CreacionIncierta,
             C!ConfigResponde, C!Soltar, C!Caer
        <5> QED BY <4>1, <5>1
      <4> QED BY <1>2, <3>4, <4>2, <4>3, <4>4 DEF PasoDe
    <3> QED BY <3>3, <3>4
  <2> QED BY <2>A, <2>B
<1> QED BY <1>1, <1>2 DEF C!Next, PasoDe

\* The sum of Capacidad is the sum of Cuotas.
LEMMA MismaSuma ==
  ASSUME NEW S PROVE C!Admision!Suma(S) = C!Suma(S)
BY Zenon DEF C!Admision!Suma, C!Suma, C!MapThenSumSet, C!MapThenFoldSet,
         C!Admision!MapThenSumSet, C!Admision!MapThenFoldSet

\* The inductive invariant: part of it holds always, the rest until a lock
\* expires under its holder.
Orden == Duenio /\ ListaAlDia /\ C!ReservaCubre /\ CacheCubre /\ FotoCubre /\ Caben
NodoInv == C!TypeOK /\ Huella /\ Cambios /\ (~vencido => Orden)

\* It holds at the start, when nothing is promised.
LEMMA NodoInicial == C!Init => NodoInv /\ Prometidas = {}
<1> SUFFICES ASSUME C!Init PROVE NodoInv /\ Prometidas = {}
  OBVIOUS
<1> USE CuotasAssumption DEF C!Supuestos, C!Init, C!Nadie, C!SinFoto
<1>1. C!TypeOK
  <2>1. cache \in [hay : BOOLEAN, instancias : SUBSET Solicitudes, edad : 0 .. TtlCapacidad - 1]
    OBVIOUS
  <2>2. 0 \in 0 .. LimiteLlamada /\ 0 \in 0 .. TtlProvision - 1
    OBVIOUS
  <2> QED BY <2>1, <2>2 DEF C!TypeOK, C!Fases, C!Llamadas
<1>2. Huella /\ Cambios
  BY DEF Huella, Cambios, C!SinDecidir
<1>3. Duenio /\ ListaAlDia /\ C!ReservaCubre
  BY DEF Duenio, ListaAlDia, C!ReservaCubre, ConCerrojo, C!Trabaja, C!Llamadas, C!SinDecidir
<1>4. CacheCubre /\ FotoCubre
  BY DEF CacheCubre, FotoCubre
<1>5. Prometidas = {} /\ Vigentes = {}
  BY DEF Prometidas, Vigentes, Admitidas, C!Ids
<1>6. Caben
  <2>1. C!Suma({}) = 0
    BY CoresSinPeso
  <2> QED BY <1>5, <2>1, LimiteNatural DEF Caben
<1> QED BY <1>1, <1>2, <1>3, <1>4, <1>5, <1>6 DEF NodoInv, Orden

\* What is promised goes on fitting.
LEMMA CabenPaso ==
  ASSUME NodoInv, C!Next, ~vencido, ~vencido'
  PROVE  Caben'
<1>1. Prometidas' \subseteq Prometidas \/ \E q \in Solicitudes : Admite(q)
  BY AdmisionPaso DEF NodoInv, Orden
<1>2. Prometidas = Vigentes /\ Prometidas' = Vigentes' /\ Caben
  BY DEF Prometidas, NodoInv, Orden
<1>3. CASE Prometidas' \subseteq Prometidas
  <2>1. Vigentes \subseteq Solicitudes /\ Vigentes' \subseteq Vigentes /\ Vigentes' \subseteq Solicitudes
    BY <1>2, <1>3 DEF Vigentes, Admitidas, NodoInv, C!TypeOK, C!Ids
  <2>2. /\ C!Suma(Vigentes') \in Nat /\ C!Suma(Vigentes) \in Nat
        /\ C!Suma(Vigentes') <= C!Suma(Vigentes)
    BY <2>1, SumaPartes
  <2> QED BY <1>2, <2>2, LimiteNatural, LimiteFijo DEF Caben
<1>4. ASSUME NEW q \in Solicitudes, Admite(q) PROVE Caben'
  BY <1>2, <1>4, LimiteFijo DEF Caben, Admite
<1> QED BY <1>1, <1>3, <1>4

\* A step of SpecPartes moves the node or leaves it alone.
LEMMA PartesPaso ==
  ASSUME [MueveUna]_<<vars, varsNodo, parte>>
  PROVE  C!Next \/ UNCHANGED varsNodo
BY DEF MueveUna, varsNodo

\* A lock that expired under its holder has done so for ever.
LEMMA VencidoSigue ==
  ASSUME C!Next, ~vencido' PROVE ~vencido
<1>1. CASE C!Tic
  BY <1>1, Zenon DEF C!Tic
<1>2. ASSUME NEW p \in Solicitudes, PasoDe(p) PROVE ~vencido
  BY <1>2, HistoriaPaso
<1> QED BY <1>1, <1>2 DEF C!Next, PasoDe

\* The whole is inductive.
LEMMA NodoPaso ==
  ASSUME NodoInv, [MueveUna]_<<vars, varsNodo, parte>>
  PROVE  NodoInv' /\ (Prometidas' \subseteq Prometidas \/ \E q \in Solicitudes : Admite(q))
<1>1. CASE UNCHANGED varsNodo
  <2>1. (C!TypeOK /\ Huella /\ Cambios)'
    BY <1>1 DEF varsNodo, NodoInv, C!TypeOK, Huella, Cambios, C!SinDecidir
  <2>2. ~vencido' => (Duenio /\ ListaAlDia /\ C!ReservaCubre /\ CacheCubre /\ FotoCubre)'
    BY <1>1, Zenon DEF varsNodo, NodoInv, Orden, Duenio, ListaAlDia, C!ReservaCubre, CacheCubre,
       FotoCubre, Contada, ConCerrojo, C!Trabaja, C!SinDecidir
  <2>3. Prometidas' = Prometidas /\ Vigentes' = Vigentes
    BY <1>1 DEF varsNodo, Prometidas, Vigentes, Admitidas
  <2>4. ~vencido' => Caben'
    BY <1>1, <2>3, LimiteFijo DEF varsNodo, NodoInv, Orden, Caben
  <2> QED BY <2>1, <2>2, <2>3, <2>4 DEF NodoInv, Orden
<1>2. CASE C!Next
  <2>1. (C!TypeOK /\ Huella /\ Cambios)'
    BY <1>2, TipoNodo, HuellaPaso DEF NodoInv
  <2>2. ASSUME ~vencido' PROVE Orden'
    <3>1. ~vencido
      BY <1>2, <2>2, VencidoSigue
    <3>2. Duenio'
      BY <1>2, <2>2, <3>1, DuenioPaso DEF NodoInv, Orden
    <3>3. (ListaAlDia /\ C!ReservaCubre)'
      BY <1>2, <3>1, ListaPaso DEF NodoInv, Orden
    <3>4. (CacheCubre /\ FotoCubre)'
      BY <1>2, <3>1, MargenPaso DEF NodoInv, Orden
    <3>5. Caben'
      BY <1>2, <2>2, <3>1, CabenPaso
    <3> QED BY <3>2, <3>3, <3>4, <3>5 DEF Orden
  <2>3. Prometidas' \subseteq Prometidas \/ \E q \in Solicitudes : Admite(q)
    BY <1>2, AdmisionPaso DEF NodoInv, Orden
  <2> QED BY <2>1, <2>2, <2>3 DEF NodoInv
<1> QED BY <1>1, <1>2, PartesPaso

\* It is an invariant of the two parts.
LEMMA NodoSiempre == SpecPartes => []NodoInv
<1>1. Partes => NodoInv
  BY NodoInicial DEF Partes
<1>2. NodoInv /\ [MueveUna]_<<vars, varsNodo, parte>> => NodoInv'
  BY NodoPaso
<1> QED BY <1>1, <1>2, PTL DEF SpecPartes

\* SpecPartes => []C!TypeOK: every variable of the node's admission keeps its
\* range, and the lock its TTL, whatever the constants.
THEOREM TiposNodo == SpecPartes => []C!TypeOK
<1>1. NodoInv => C!TypeOK
  BY DEF NodoInv
<1> QED BY <1>1, NodoSiempre, PTL

\* SpecPartes => []ReservaCubre, whatever the constants: until a lock expires under
\* its holder, a creation that Proxmox has or may have taken and that the inventory
\* does not show yet keeps its reservation, through every error path, crash, expiry
\* of the lock by the death of its holder, and release of another creation.
THEOREM ReservaSiempre == SpecPartes => []ReservaCubre
<1>1. NodoInv => ReservaCubre
  <2>1. ReservaCubre <=> C!ReservaCubre
    BY Zenon DEF ReservaCubre
  <2>2. vencido => C!ReservaCubre
    BY DEF C!ReservaCubre
  <2> QED BY <2>1, <2>2 DEF NodoInv, Orden
<1> QED BY <1>1, NodoSiempre, PTL

\* What is on the node and in sight is part of what is promised.
LEMMA CabenBasta == NodoInv => SinSobreasignar
<1> SUFFICES ASSUME NodoInv, ~vencido PROVE C!Suma(C!Concedidas \ perdidas) <= C!Limite
  BY Zenon DEF SinSobreasignar, C!SinSobreasignar
<1> DEFINE N == C!Concedidas \ perdidas
<1>1. N \subseteq Solicitudes /\ Vigentes \subseteq Solicitudes /\ N \subseteq Vigentes
  BY DEF C!Concedidas, Vigentes, Admitidas, NodoInv, C!TypeOK, C!Ids
<1> HIDE DEF N
<1>2. C!Suma(N) \in Nat /\ C!Suma(Vigentes) \in Nat /\ C!Suma(N) <= C!Suma(Vigentes)
  BY <1>1, SumaPartes
<1>3. C!Suma(N) <= C!Limite
  BY <1>2, LimiteNatural DEF NodoInv, Orden, Caben
<1> QED BY <1>3 DEF N

\* SpecPartes => []SinSobreasignar, whatever the constants: until a lock expires
\* under its holder, and those the code lost sight of apart, creations and increases
\* that run at the same time never put more memory on the node than its headroom
\* leaves.
THEOREM NodoSinSobreasignar == SpecPartes => []SinSobreasignar
BY NodoSiempre, CabenBasta, PTL

\* Whatever the constants, the decision taken by several replicas over the lock,
\* the list and the snapshots implements the atomic one of Capacidad: each admission
\* fits with everything else that is promised and in sight, until a lock expires
\* under its holder.
THEOREM NodoCumpleCapacidad == SpecPartes => CumpleCapacidad
<1> DEFINE Decide == \/ \E p \in Solicitudes : C!Admision!Admitir(p)
                     \/ \E S \in SUBSET Solicitudes : C!Admision!Descartar(S)
<1>1. Partes => NodoInv /\ Prometidas = {}
  BY NodoInicial DEF Partes
<1>2. NodoInv /\ [MueveUna]_<<vars, varsNodo, parte>> => [Decide]_Prometidas
  <2> SUFFICES ASSUME NodoInv, [MueveUna]_<<vars, varsNodo, parte>>
               PROVE  Decide
    OBVIOUS
  <2>0. Prometidas = IF vencido THEN {} ELSE C!Admitidos \ perdidas
    BY Zenon DEF Prometidas, Vigentes, Admitidas, C!Admitidos
  <2>1. CASE Prometidas' \subseteq Prometidas
    <3> DEFINE S == Prometidas \ Prometidas'
    <3>1. S \in SUBSET Solicitudes
      BY DEF Prometidas, Vigentes, Admitidas, NodoInv, C!TypeOK, C!Ids
    <3>2. Prometidas' = Prometidas \ S
      BY <2>1
    <3>3. C!Admision!Descartar(S)
      <4> HIDE DEF S
      <4> QED BY <3>2, Zenon DEF C!Admision!Descartar, Prometidas, Vigentes, Admitidas, C!Admitidos
    <3> QED BY <3>1, <3>3
  <2>2. ASSUME NEW q \in Solicitudes, Admite(q) PROVE Decide
    <3>1. C!Admision!Suma(Prometidas \cup {q}) = C!Suma(Prometidas \cup {q})
      BY MismaSuma
    <3>2. C!Admision!Admitir(q)
      BY <2>2, <3>1, Zenon
      DEF Admite, C!Admision!Admitir, Prometidas, Vigentes, Admitidas, C!Admitidos
    <3> QED BY <3>2
  <2> QED BY <2>1, <2>2, NodoPaso
<1>3. SpecPartes => Prometidas = {} /\ [][Decide]_Prometidas
  <2> HIDE DEF Decide
  <2> QED BY <1>1, <1>2, NodoSiempre, PTL DEF SpecPartes
<1> QED BY <1>3, PTL DEF CumpleCapacidad, C!CumpleCapacidad, C!Admision!CapacidadSpec, Prometidas, Vigentes,
                         Admitidas, C!Admitidos

-------------------------------------------------------------------------------
(***************************************************************************)
(* The store of the degraded mode (Persistencia, AlmacenMemoria). It answers *)
(* as an abstract store in which what has expired does not exist.          *)
(***************************************************************************)

\* What the store of the degraded mode holds: one entry of each key.
Entradas == [k : Llaves, valor : Int, vence : Nat]
Sucesos == [w : Ventanas, m : Miembros, t : Nat]
MemInv ==
  /\ ahora \in Nat \ {0}
  /\ datos \subseteq Entradas /\ eventos \subseteq Sucesos
  /\ \A d, e \in datos : d.k = e.k => d = e

\* What is written has not expired.
LEMMA EntradaNueva ==
  ASSUME MemInv, NEW k \in Llaves, NEW v \in Int, NEW ttl \in Nat
  PROVE  /\ M!Entrada(k, v, ttl) \in Entradas /\ M!Entrada(k, v, ttl).k = k
         /\ ~M!Vencida(M!Entrada(k, v, ttl))
         /\ M!Almacen!Entrada(k, v, ttl) = M!Entrada(k, v, ttl)
<1> DEFINE x == IF ttl > 0 THEN ahora + ttl ELSE 0
<1>1. ahora \in Nat \ {0}
  BY DEF MemInv
<1>2. x \in Nat /\ (x = 0 \/ ahora < x) /\ x = IF ttl = 0 THEN 0 ELSE ahora + ttl
  BY <1>1
<1>3. M!Entrada(k, v, ttl) = [k |-> k, valor |-> v, vence |-> x]
  BY DEF M!Entrada
<1>4. M!Almacen!Entrada(k, v, ttl) = [k |-> k, valor |-> v, vence |-> x]
  BY <1>2, Zenon DEF M!Almacen!Entrada
<1> HIDE DEF x
<1> QED BY <1>2, <1>3, <1>4 DEF Entradas, M!Vencida

\* Writing an entry replaces the one of its key, expired or not.
LEMMA Escrita ==
  ASSUME MemInv, NEW e \in Entradas, ~M!Vencida(e), ahora' = ahora, datos' = M!Sin(e.k) \cup {e}
  PROVE  M!Almacen!Escribe(e) /\ datos' \subseteq Entradas /\ \A c, d \in datos' : c.k = d.k => c = d
<1>1. \A d : M!Vencida(d)' <=> M!Vencida(d)
  BY DEF M!Vencida
<1> HIDE DEF M!Vencida
<1>2. M!Vigentes' = {d \in M!Vigentes : d.k # e.k} \cup {e}
  BY <1>1 DEF M!Vigentes, M!Sin
<1>3. M!Almacen!Escribe(e)
  BY <1>2 DEF M!Almacen!Escribe
<1>4. datos' \subseteq Entradas /\ \A c, d \in datos' : c.k = d.k => c = d
  BY DEF M!Sin, MemInv
<1> QED BY <1>3, <1>4

\* What is read is what there is of the key.
LEMMA Leida ==
  ASSUME MemInv, NEW k \in Llaves
  PROVE  /\ M!Almacen!Hay(k) <=> M!Vigente(k)
         /\ M!Vigente(k) => M!Almacen!Valor(k) = M!Valor(k) /\ M!Valor(k) \in Int
<1>1. M!Almacen!De(k) = {e \in M!Vigentes : e.k = k}
  BY Zenon DEF M!Almacen!De
<1>2. M!Almacen!Hay(k) <=> M!Vigente(k)
  BY <1>1 DEF M!Almacen!Hay, M!Vigente, M!Vigentes
<1>3. ASSUME M!Vigente(k) PROVE M!Almacen!Valor(k) = M!Valor(k) /\ M!Valor(k) \in Int
  <2>1. PICK e \in datos : e.k = k /\ ~M!Vencida(e)
    BY <1>3 DEF M!Vigente
  <2>2. \A d \in datos : d.k = k => d = e
    BY <2>1 DEF MemInv
  <2>3. (CHOOSE d \in datos : d.k = k) = e
    BY <2>1, <2>2
  <2>4. M!Almacen!De(k) = {e}
    BY <1>1, <2>1, <2>2 DEF M!Vigentes
  <2>5. (CHOOSE d \in M!Almacen!De(k) : TRUE) = e
    BY <2>4
  <2>6. e.valor \in Int
    BY DEF MemInv, Entradas
  <2> QED BY <2>3, <2>5, <2>6, Zenon DEF M!Valor, M!Almacen!Valor
<1> QED BY <1>2, <1>3

\* The clock alone makes an entry, or an event, go.
LEMMA Mismas ==
  ASSUME ahora' = ahora
  PROVE  /\ M!Vigentes' = {e \in datos' : ~M!Vencida(e)}
         /\ M!Vivos' = {e \in eventos' : M!Viva(e)}
BY DEF M!Vigentes, M!Vivos, M!Vencida, M!Viva

\* What the constants of the store are.
LEMMA Constantes ==
  /\ Cerrojo \in Llaves /\ Procesos \subseteq Nat \ {0} /\ Valores \subseteq Nat /\ TTLs \subseteq Nat
  /\ Largo \in Nat /\ Limite \in Nat
BY PersistenciaAssumption DEF M!Supuestos

\* A window holds the same events, seen from each side.
LEMMA Ventana ==
  ASSUME NEW w
  PROVE  /\ M!Almacen!EnVentana(w) = {e \in M!EnVentana(w) : M!Viva(e)}
         /\ M!Almacen!Cardinality(M!Almacen!EnVentana(w)) = M!Cardinality(M!Almacen!EnVentana(w))
<1>1. M!Almacen!EnVentana(w) = {e \in M!Vivos : e.w = w}
  BY Zenon DEF M!Almacen!EnVentana
<1>2. M!Almacen!EnVentana(w) = {e \in M!EnVentana(w) : M!Viva(e)}
  BY <1>1 DEF M!EnVentana, M!Vivos
<1>3. \A S : M!Almacen!Cardinality(S) = M!Cardinality(S)
  BY Zenon DEF M!Almacen!Cardinality, M!Cardinality, M!Almacen!IsFiniteSet, M!IsFiniteSet
<1> QED BY <1>2, <1>3

\* Each command of the map is the one of the port.
LEMMA MandatoTic ==
  ASSUME MemInv, M!Tic PROVE MemInv' /\ M!Almacen!Tic
<1>1. /\ ahora < MaxTiempo /\ ahora' = ahora + 1 /\ datos' = datos /\ eventos' = eventos
      /\ tiene' = tiene /\ resp' = resp
  BY DEF M!Tic
<1>2. ahora \in Nat
  BY DEF MemInv
<1>3. MemInv'
  BY <1>1 DEF MemInv
<1>4. M!Vigentes' = {e \in M!Vigentes : e.vence = 0 \/ e.vence > ahora'}
  <2>1. \A e \in datos : e.vence \in Nat
    BY DEF MemInv, Entradas
  <2> QED BY <1>1, <1>2, <2>1 DEF M!Vigentes, M!Vencida
<1>5. M!Vivos' = {e \in M!Vivos : e.t > ahora' - Largo}
  <2>1. \A e \in eventos : e.t \in Nat
    BY DEF MemInv, Sucesos
  <2> QED BY <1>1, <1>2, <2>1, Constantes DEF M!Vivos, M!Viva
<1> QED BY <1>1, <1>3, <1>4, <1>5 DEF M!Almacen!Tic

\* A command that writes one entry.
LEMMA MandatoEscribe ==
  ASSUME MemInv, NEW k \in Llaves, NEW v \in Int, NEW ttl \in Nat, ahora' = ahora, eventos' = eventos,
         datos' = M!Sin(k) \cup {M!Entrada(k, v, ttl)}
  PROVE  MemInv' /\ M!Almacen!Escribe(M!Almacen!Entrada(k, v, ttl)) /\ M!Vivos' = M!Vivos
<1>1. MemInv' /\ M!Almacen!Escribe(M!Entrada(k, v, ttl))
  BY EntradaNueva, Escrita DEF MemInv
<1>2. M!Vivos' = M!Vivos
  BY Mismas DEF M!Vivos
<1> QED BY <1>1, <1>2, EntradaNueva

\* A command that writes nothing.
LEMMA MandatoQuieto ==
  ASSUME MemInv, ahora' = ahora, UNCHANGED <<datos, eventos>>
  PROVE  MemInv' /\ M!Vigentes' = M!Vigentes /\ M!Vivos' = M!Vivos
BY Mismas DEF MemInv, M!Vigentes, M!Vivos

\* Reading, which may remove what it finds expired.
LEMMA MandatoLee ==
  ASSUME MemInv, NEW k \in Llaves
  PROVE  /\ M!Get(k) => MemInv' /\ M!Almacen!Get(k)
         /\ M!GetDel(k) => MemInv' /\ M!Almacen!GetDel(k)
<1>1. M!Respuesta(k) = IF M!Almacen!Hay(k) THEN M!Almacen!Dice(M!Almacen!Valor(k)) ELSE M!Almacen!Nada
  BY Leida DEF M!Respuesta, M!Almacen!Dice, M!Almacen!Nada
<1>2. M!Almacen!De(k) = {e \in M!Vigentes : e.k = k}
  BY Zenon DEF M!Almacen!De
<1>3. ASSUME M!Get(k) PROVE MemInv' /\ M!Almacen!Get(k)
  <2>1. datos' = M!Leer(k, FALSE) /\ resp' = M!Respuesta(k) /\ ahora' = ahora /\ eventos' = eventos /\ tiene' = tiene
    BY <1>3, Zenon DEF M!Get
  <2>2. datos' \subseteq datos /\ M!Vigentes' = M!Vigentes
    BY <2>1, Mismas DEF M!Leer, M!Sin, M!Vigente, M!Vigentes
  <2>3. M!Vivos' = M!Vivos
    BY <2>1, Mismas DEF M!Vivos
  <2> QED BY <1>1, <2>1, <2>2, <2>3 DEF MemInv, M!Almacen!Get
<1>4. ASSUME M!GetDel(k) PROVE MemInv' /\ M!Almacen!GetDel(k)
  <2>1. datos' = M!Leer(k, TRUE) /\ resp' = M!Respuesta(k) /\ ahora' = ahora /\ eventos' = eventos /\ tiene' = tiene
    BY <1>4, Zenon DEF M!GetDel
  <2>2. datos' \subseteq datos /\ M!Vigentes' = M!Vigentes \ M!Almacen!De(k)
    BY <1>2, <2>1, Mismas DEF M!Leer, M!Sin, M!Vigentes
  <2>3. M!Vivos' = M!Vivos
    BY <2>1, Mismas DEF M!Vivos
  <2> QED BY <1>1, <2>1, <2>2, <2>3 DEF MemInv, M!Almacen!GetDel
<1> QED BY <1>3, <1>4

\* Writing, unconditionally or when there is nothing.
LEMMA MandatoSet ==
  ASSUME MemInv, NEW k \in Llaves, NEW v \in Valores, NEW ttl \in TTLs
  PROVE  /\ M!Set(k, v, ttl) => MemInv' /\ M!Almacen!Set(k, v, ttl)
         /\ M!SetNX(k, v, ttl) => MemInv' /\ M!Almacen!SetNX(k, v, ttl)
<1>0. v \in Int /\ ttl \in Nat
  BY Constantes
<1>1. ASSUME M!Set(k, v, ttl) PROVE MemInv' /\ M!Almacen!Set(k, v, ttl)
  <2> DEFINE escrito == M!Sin(k) \cup {M!Entrada(k, v, ttl)}
  <2>1. /\ datos' = escrito \/ datos' = {e \in escrito : ~M!Vencida(e)}
        /\ resp' = <<"ok">> /\ ahora' = ahora /\ eventos' = eventos /\ tiene' = tiene
    BY <1>1 DEF M!Set
  <2>2. escrito \subseteq Entradas /\ (\A c, d \in escrito : c.k = d.k => c = d)
    BY <1>0, EntradaNueva DEF MemInv, M!Sin
  <2>3. M!Vigentes' = {e \in escrito : ~M!Vencida(e)}
    BY <2>1, Mismas
  <2>4. {e \in escrito : ~M!Vencida(e)} = {d \in M!Vigentes : d.k # k} \cup {M!Entrada(k, v, ttl)}
    BY <1>0, EntradaNueva DEF M!Sin, M!Vigentes
  <2>5. M!Almacen!Escribe(M!Almacen!Entrada(k, v, ttl))
    BY <1>0, <2>3, <2>4, EntradaNueva DEF M!Almacen!Escribe
  <2>6. M!Vivos' = M!Vivos
    BY <2>1, Mismas DEF M!Vivos
  <2>7. MemInv'
    BY <2>1, <2>2 DEF MemInv
  <2> QED BY <2>1, <2>5, <2>6, <2>7 DEF M!Almacen!Set, M!Almacen!Ok
<1>2. ASSUME M!SetNX(k, v, ttl) PROVE MemInv' /\ M!Almacen!SetNX(k, v, ttl)
  <2>1. /\ resp' = <<"guardado", ~M!Vigente(k)>> /\ ahora' = ahora /\ eventos' = eventos /\ tiene' = tiene
        /\ M!Vigente(k) => datos' = datos
        /\ ~M!Vigente(k) => datos' = M!Sin(k) \cup {M!Entrada(k, v, ttl)}
    BY <1>2 DEF M!SetNX
  <2>2. resp' = <<"guardado", ~M!Almacen!Hay(k)>>
    BY <2>1, Leida
  <2>3. CASE M!Vigente(k)
    BY <2>1, <2>2, <2>3, Leida, MandatoQuieto DEF M!Almacen!SetNX
  <2>4. CASE ~M!Vigente(k)
    BY <1>0, <2>1, <2>2, <2>4, Leida, MandatoEscribe DEF M!Almacen!SetNX
  <2> QED BY <2>3, <2>4
<1> QED BY <1>1, <1>2

\* The counter, over what is left of it.
LEMMA MandatoIncrementar ==
  ASSUME MemInv, NEW k \in Llaves, NEW ttl \in TTLs, M!Incrementar(k, ttl)
  PROVE  MemInv' /\ M!Almacen!Incrementar(k, ttl)
<1> DEFINE v == IF M!Vigente(k) THEN M!Valor(k) ELSE 0
<1>1. v \in Int /\ v = IF M!Almacen!Hay(k) THEN M!Almacen!Valor(k) ELSE 0
  BY Leida
<1>2. /\ ttl > 0 /\ ahora' = ahora /\ eventos' = eventos /\ tiene' = tiene
      /\ v < 0 => resp' = <<"error">> /\ datos' = datos
      /\ ~(v < 0) => /\ v + 1 \in Valores /\ resp' = <<"valor", v + 1>>
                     /\ datos' = M!Sin(k) \cup {M!Entrada(k, v + 1, ttl)}
  BY DEF M!Incrementar
<1>3. ttl \in Nat
  BY Constantes
<1> HIDE DEF v
<1>4. CASE v < 0
  <2>1. MemInv' /\ M!Vigentes' = M!Vigentes /\ M!Vivos' = M!Vivos
    BY <1>2, <1>4, MandatoQuieto
  <2> QED BY <1>1, <1>2, <1>4, <2>1 DEF M!Almacen!Incrementar
<1>5. CASE ~(v < 0)
  <2>1. v + 1 \in Int
    BY <1>1
  <2>2. MemInv' /\ M!Almacen!Escribe(M!Almacen!Entrada(k, v + 1, ttl)) /\ M!Vivos' = M!Vivos
    BY <1>2, <1>3, <1>5, <2>1, MandatoEscribe
  <2> QED BY <1>1, <1>2, <1>5, <2>2 DEF M!Almacen!Incrementar, M!Almacen!Dice
<1> QED BY <1>4, <1>5

\* Removing keys and windows, or one member of a window.
LEMMA MandatoBorra ==
  ASSUME MemInv
  PROVE  /\ \A ks, ws : M!Del(ks, ws) => MemInv' /\ M!Almacen!Del(ks, ws)
         /\ \A w, m : M!EliminarDeVentana(w, m) => MemInv' /\ M!Almacen!EliminarDeVentana(w, m)
<1>1. ASSUME NEW ks, NEW ws, M!Del(ks, ws) PROVE MemInv' /\ M!Almacen!Del(ks, ws)
  <2>1. /\ datos' = {e \in datos : e.k \notin ks} /\ eventos' = {e \in eventos : e.w \notin ws}
        /\ resp' = <<"ok">> /\ ahora' = ahora /\ tiene' = tiene
    BY <1>1, Zenon DEF M!Del
  <2>2. M!Vigentes' = {e \in M!Vigentes : e.k \notin ks} /\ M!Vivos' = {e \in M!Vivos : e.w \notin ws}
    BY <2>1, Mismas DEF M!Vigentes, M!Vivos
  <2>3. MemInv'
    BY <2>1 DEF MemInv
  <2> QED BY <2>1, <2>2, <2>3 DEF M!Almacen!Del, M!Almacen!Ok
<1>2. ASSUME NEW w, NEW m, M!EliminarDeVentana(w, m) PROVE MemInv' /\ M!Almacen!EliminarDeVentana(w, m)
  <2>1. /\ datos' = datos /\ eventos' = {e \in eventos : e.w # w \/ e.m # m}
        /\ resp' = <<"ok">> /\ ahora' = ahora /\ tiene' = tiene
    BY <1>2, Zenon DEF M!EliminarDeVentana
  <2>2. M!Vigentes' = M!Vigentes /\ M!Vivos' = {e \in M!Vivos : e.w # w \/ e.m # m}
    BY <2>1, Mismas DEF M!Vigentes, M!Vivos
  <2>3. MemInv'
    BY <2>1 DEF MemInv
  <2> QED BY <2>1, <2>2, <2>3 DEF M!Almacen!EliminarDeVentana, M!Almacen!Ok
<1> QED BY <1>1, <1>2

\* Registering in a window, which first drops the events that left it.
LEMMA MandatoRegistrar ==
  ASSUME MemInv, NEW w \in Ventanas, NEW m \in Miembros, M!RegistrarEnVentana(w, m)
  PROVE  MemInv' /\ M!Almacen!RegistrarEnVentana(w, m)
<1> DEFINE quedan == {e \in M!EnVentana(w) : M!Viva(e)}
           n == M!Cardinality(quedan)
           otros == {e \in eventos : e.w # w}
           masViejo == CHOOSE t \in {e.t : e \in quedan} : \A e \in quedan : t <= e.t
           nuevo == [w |-> w, m |-> m, t |-> ahora]
           espera == masViejo + Largo - ahora
<1>1. /\ \A e \in M!EnVentana(w) : e.m # m
      /\ ahora' = ahora /\ datos' = datos /\ tiene' = tiene
      /\ n >= Limite => /\ eventos' = otros \cup quedan
                        /\ resp' = <<"ventana", FALSE, n, IF espera > 1 THEN espera ELSE 1>>
      /\ ~(n >= Limite) => /\ eventos' = otros \cup quedan \cup {nuevo}
                           /\ resp' = <<"ventana", TRUE, n + 1, 0>>
  BY Zenon DEF M!RegistrarEnVentana
<1>2. M!Almacen!EnVentana(w) = quedan /\ M!Almacen!Cardinality(M!Almacen!EnVentana(w)) = n
  BY Ventana
<1>3. M!Almacen!MasViejo(w) = masViejo
  BY <1>2, Zenon DEF M!Almacen!MasViejo
<1>4. M!Almacen!Rechazado(n, masViejo) = <<"ventana", FALSE, n, IF espera > 1 THEN espera ELSE 1>>
  BY DEF M!Almacen!Rechazado, M!Almacen!Espera
<1>5. nuevo \in Sucesos /\ nuevo.w = w /\ M!Viva(nuevo)
  <2>1. ahora \in Nat /\ Largo \in Nat \ {0}
    BY PersistenciaAssumption DEF MemInv, M!Supuestos
  <2>2. ahora > ahora - Largo
    BY <2>1
  <2> QED BY <2>1, <2>2 DEF Sucesos, M!Viva
<1>6. quedan \subseteq eventos /\ otros \subseteq eventos /\ (\A e \in quedan : M!Viva(e) /\ e.w = w)
  BY DEF M!EnVentana
<1>7. {e \in eventos : M!Viva(e)} = {e \in otros : M!Viva(e)} \cup quedan
  BY DEF M!EnVentana
<1>8. \A e \in M!Almacen!EnVentana(w) : e.m # m
  BY <1>1, <1>2
<1> HIDE DEF quedan, n, otros, masViejo, nuevo, espera
<1>9. M!Vigentes' = M!Vigentes
  BY <1>1, Mismas DEF M!Vigentes
<1>10. CASE n >= Limite
  <2>1. M!Vivos' = M!Vivos
    BY <1>1, <1>6, <1>7, <1>10, Mismas DEF M!Vivos
  <2>2. MemInv'
    BY <1>1, <1>6, <1>10 DEF MemInv
  <2> QED BY <1>1, <1>2, <1>3, <1>4, <1>8, <1>9, <1>10, <2>1, <2>2 DEF M!Almacen!RegistrarEnVentana
<1>11. CASE ~(n >= Limite)
  <2>1. M!Vivos' = M!Vivos \cup {nuevo}
    BY <1>1, <1>5, <1>6, <1>7, <1>11, Mismas DEF M!Vivos
  <2>2. MemInv'
    BY <1>1, <1>5, <1>6, <1>11 DEF MemInv
  <2> QED BY <1>1, <1>2, <1>8, <1>9, <1>11, <2>1, <2>2 DEF M!Almacen!RegistrarEnVentana, M!Almacen!Permitido, nuevo
<1> QED BY <1>10, <1>11

\* The lock.
LEMMA MandatoCerrojo ==
  ASSUME MemInv, NEW p \in Procesos
  PROVE  /\ \A ttl \in TTLs : M!Tomar(p, ttl) => MemInv' /\ M!Almacen!Tomar(p, ttl)
         /\ M!Soltar(p) => MemInv' /\ M!Almacen!Soltar(p)
<1>0. Cerrojo \in Llaves /\ -p \in Int
  BY Constantes
<1>1. ASSUME NEW ttl \in TTLs, M!Tomar(p, ttl) PROVE MemInv' /\ M!Almacen!Tomar(p, ttl)
  <2>0. ttl \in Nat
    BY Constantes
  <2>1. /\ p \notin tiene /\ ttl > 0 /\ ahora' = ahora /\ eventos' = eventos
        /\ M!Vigente(Cerrojo) => resp' = <<"ocupado">> /\ datos' = datos /\ tiene' = tiene
        /\ ~M!Vigente(Cerrojo) => /\ datos' = M!Sin(Cerrojo) \cup {M!Entrada(Cerrojo, -p, ttl)}
                                  /\ tiene' = tiene \cup {p} /\ resp' = <<"tomado">>
    BY <1>1 DEF M!Tomar
  <2>2. CASE M!Vigente(Cerrojo)
    BY <1>0, <2>1, <2>2, Leida, MandatoQuieto DEF M!Almacen!Tomar
  <2>3. CASE ~M!Vigente(Cerrojo)
    BY <1>0, <2>0, <2>1, <2>3, Leida, MandatoEscribe DEF M!Almacen!Tomar
  <2> QED BY <2>2, <2>3
<1>2. ASSUME M!Soltar(p) PROVE MemInv' /\ M!Almacen!Soltar(p)
  <2>1. /\ p \in tiene /\ tiene' = tiene \ {p} /\ resp' = <<"ok">> /\ ahora' = ahora /\ eventos' = eventos
        /\ datos' = {e \in datos : e.k # Cerrojo \/ e.valor # -p}
    BY <1>2, Zenon DEF M!Soltar
  <2>2. M!Vigentes' = {e \in M!Vigentes : e.k # Cerrojo \/ e.valor # -p} /\ M!Vivos' = M!Vivos
    BY <2>1, Mismas DEF M!Vigentes, M!Vivos
  <2>3. MemInv'
    BY <2>1 DEF MemInv
  <2> QED BY <2>1, <2>2, <2>3 DEF M!Almacen!Soltar, M!Almacen!Ok
<1> QED BY <1>1, <1>2

\* The map of the degraded mode implements the store of the port: seen through
\* what has not expired, every command is the one Redis would have answered.
THEOREM AlmacenSiempre == SpecPiezas => CumpleAlmacen
<1>1. Piezas => MemInv /\ M!Almacen!Init
  BY DEF Piezas, M!Init, MemInv, M!Almacen!Init, M!Almacen!Ok, M!Vigentes, M!Vivos
<1>2. ASSUME MemInv, M!Next PROVE MemInv' /\ M!Almacen!Next
  <2>1. CASE M!Tic
    BY <1>2, <2>1, MandatoTic DEF M!Almacen!Next
  <2>2. ASSUME NEW k \in Llaves, M!Get(k) \/ M!GetDel(k) PROVE MemInv' /\ M!Almacen!Next
    BY <1>2, <2>2, MandatoLee DEF M!Almacen!Next
  <2>3. ASSUME NEW k \in Llaves, NEW v \in Valores, NEW ttl \in TTLs, M!Set(k, v, ttl) \/ M!SetNX(k, v, ttl)
        PROVE  MemInv' /\ M!Almacen!Next
    BY <1>2, <2>3, MandatoSet DEF M!Almacen!Next
  <2>4. ASSUME NEW k \in Llaves, NEW ttl \in TTLs, M!Incrementar(k, ttl) PROVE MemInv' /\ M!Almacen!Next
    BY <1>2, <2>4, MandatoIncrementar DEF M!Almacen!Next
  <2>5. ASSUME NEW ks \in SUBSET Llaves, NEW ws \in SUBSET Ventanas, M!Del(ks, ws) PROVE MemInv' /\ M!Almacen!Next
    BY <1>2, <2>5, MandatoBorra, Zenon DEF M!Almacen!Next
  <2>6. ASSUME NEW w \in Ventanas, NEW m \in Miembros, M!RegistrarEnVentana(w, m) \/ M!EliminarDeVentana(w, m)
        PROVE  MemInv' /\ M!Almacen!Next
    BY <1>2, <2>6, MandatoRegistrar, MandatoBorra DEF M!Almacen!Next
  <2>7. ASSUME NEW p \in Procesos, M!Soltar(p) \/ \E ttl \in TTLs : M!Tomar(p, ttl) PROVE MemInv' /\ M!Almacen!Next
    BY <1>2, <2>7, MandatoCerrojo DEF M!Almacen!Next
  <2> QED BY <1>2, <2>1, <2>2, <2>3, <2>4, <2>5, <2>6, <2>7, Zenon DEF M!Next
<1>3. ASSUME MemInv, UNCHANGED varsAlmacen PROVE MemInv' /\ UNCHANGED M!Almacen!vars
  BY <1>3, MandatoQuieto DEF varsAlmacen, M!Almacen!vars
<1>4. MemInv /\ [MuevePieza]_varsPiezas => MemInv' /\ [M!Almacen!Next]_M!Almacen!vars
  <2>1. [MuevePieza]_varsPiezas => M!Next \/ UNCHANGED varsAlmacen
    BY Zenon DEF MuevePieza, varsPiezas
  <2> QED BY <1>2, <1>3, <2>1
<1> QED BY <1>1, <1>4, PTL DEF SpecPiezas, CumpleAlmacen, M!CumpleAlmacen, M!Almacen!Spec

-------------------------------------------------------------------------------
(***************************************************************************)
(* The base and its migrations (Persistencia, Arranque). Whatever is       *)
(* interrupted and started again, the audit history, the addresses of the  *)
(* users and the classification of the deleted ones are kept.              *)
(***************************************************************************)

\* The values that the schema, the records and the users take.
Esquemas ==
  [auditoria : {"no", "plana", "madre"}, legacy : BOOLEAN, particiones : SUBSET Nat, omision : BOOLEAN,
   trigger : BOOLEAN, normalizada : BOOLEAN, revocada : BOOLEAN, preparado : Nat,
   indices : SUBSET {"viejo", "parcial"}, check : BOOLEAN, sesiones : {"no", "vieja", "nueva"},
   admin : BOOLEAN, huerfanas : Int]
Registros ==
  [n : Nat, tipo : {"otro", "elimina", "reactiva"}, u : Usuarios \cup {""}, t : Nat,
   en : {"auditoria", "legacy", "perdido"}, viejo : BOOLEAN, parte : {"omision", "propia"},
   preparado : Nat, normalizada : BOOLEAN, recreada : BOOLEAN]
Filas ==
  [alta : BOOLEAN, activo : BOOLEAN, eliminado : BOOLEAN, grafia : Grafias \cup {""},
   borrado : BOOLEAN, rastro : BOOLEAN]
Semillas == [programa : {"api", "seed"}, org : BOOLEAN, grafia : Grafias \cup {""}]
Contadores == [anterior : BOOLEAN, escrituras : Nat, caidas : Nat]
TiposBase ==
  /\ base \in Esquemas
  /\ registros \subseteq Registros
  /\ usuarios \in [Usuarios -> Filas]
  /\ trimestre \in Nat \ {0} /\ visto \in Nat
  /\ semilla \in Semillas /\ cuentas \in Contadores

\* How far the audit table is, by the statement that comes next.
Antes == {"apagada", "sesiones", "automigrar", "auditoria"}
Esquema ==
  /\ paso = "remanente" => base.auditoria = "plana" /\ base.legacy
  /\ paso = "renombrar" => base.auditoria = "plana" /\ ~base.legacy
  /\ paso = "crear" => base.auditoria = "no"
  /\ paso \notin Antes \cup {"remanente", "renombrar", "crear"} => base.auditoria = "madre"
  /\ paso \in {"actual", "siguiente", "clasificar"} => ~base.legacy
Tablas ==
  /\ base.auditoria = "no" => B!EnTabla("auditoria") = {}
  /\ ~base.legacy => B!EnTabla("legacy") = {}
  /\ base.auditoria = "plana" /\ base.legacy => \A e \in B!EnTabla("auditoria") : e.recreada
  /\ B!HistorialIntacto

\* Which index on the address there is, and what it has kept out.
SinIndice == Antes \cup {"remanente", "renombrar", "crear", "fijas", "omision", "volcar", "actual",
                         "siguiente", "clasificar", "check", "correos", "indice"}
Indices ==
  /\ base.indices \in {{}, {"viejo"}, {"parcial"}}
  /\ "viejo" \in base.indices => \A u, w \in Usuarios :
       usuarios[u].alta /\ usuarios[w].alta /\ usuarios[u].grafia = usuarios[w].grafia => u = w
  /\ "parcial" \in base.indices => \A u, w \in B!Vigentes : u = w
  /\ base.indices = {} =>
       paso \in SinIndice /\ ~cuentas.anterior /\ \A u \in Usuarios : ~usuarios[u].alta

\* A deletion that no later reactivation undid is still in force, unless the
\* record of the reactivation was not kept.
Deshecha(e) == \E r \in registros : r.tipo = "reactiva" /\ r.u = e.u /\ r.n > e.n
Bajas == \A e \in registros :
  /\ e.n <= cuentas.escrituras
  /\ e.tipo # "otro" => e.u \in Usuarios /\ usuarios[e.u].alta
  /\ e.tipo = "elimina" => usuarios[e.u].borrado \/ ~usuarios[e.u].rastro \/ Deshecha(e)

\* The quarters with a partition of their own.
Preparado(p) == p > 0 => p \in base.particiones /\ p + 1 \in base.particiones
Particiones ==
  /\ base.preparado <= visto /\ visto <= trimestre
  /\ Preparado(base.preparado)
  /\ \A e \in registros : e.preparado <= base.preparado /\ Preparado(e.preparado)
  /\ paso \in {"omision", "volcar", "actual", "siguiente"} => Fijas \subseteq base.particiones
  /\ paso = "siguiente" => visto > 0 /\ visto \in base.particiones
BaseInv == TiposBase /\ Esquema /\ Tablas /\ Indices /\ Bajas /\ Particiones

\* What a step leaves of the schema, as far as the invariants look.
Esquematiza(a, l, p, q, i) ==
  /\ base'.auditoria = a /\ base'.legacy = l /\ base'.particiones = p
  /\ base'.preparado = q /\ base'.indices = i
Igual == Esquematiza(base.auditoria, base.legacy, base.particiones, base.preparado, base.indices)

\* The fields of the schema that nobody below looks at.
LEMMA CambiaMenor ==
  ASSUME base \in Esquemas
  PROVE  /\ \A x \in BOOLEAN : base' = [base EXCEPT !.omision = x] => base' \in Esquemas /\ Igual
         /\ \A x \in BOOLEAN : base' = [base EXCEPT !.trigger = x] => base' \in Esquemas /\ Igual
         /\ \A x \in BOOLEAN : base' = [base EXCEPT !.check = x] => base' \in Esquemas /\ Igual
         /\ \A x \in BOOLEAN : base' = [base EXCEPT !.revocada = x] => base' \in Esquemas /\ Igual
         /\ \A x \in BOOLEAN : base' = [base EXCEPT !.normalizada = x] => base' \in Esquemas /\ Igual
         /\ \A x \in BOOLEAN : base' = [base EXCEPT !.admin = x] => base' \in Esquemas /\ Igual
         /\ \A x \in {"no", "vieja", "nueva"} : base' = [base EXCEPT !.sesiones = x] => base' \in Esquemas /\ Igual
         /\ \A x \in Int : base' = [base EXCEPT !.huerfanas = x] => base' \in Esquemas /\ Igual
<1>1. ASSUME NEW x \in BOOLEAN, base' = [base EXCEPT !.omision = x] PROVE base' \in Esquemas /\ Igual
  BY <1>1 DEF Esquemas, Igual, Esquematiza
<1>2. ASSUME NEW x \in BOOLEAN, base' = [base EXCEPT !.trigger = x] PROVE base' \in Esquemas /\ Igual
  BY <1>2 DEF Esquemas, Igual, Esquematiza
<1>3. ASSUME NEW x \in BOOLEAN, base' = [base EXCEPT !.check = x] PROVE base' \in Esquemas /\ Igual
  BY <1>3 DEF Esquemas, Igual, Esquematiza
<1>4. ASSUME NEW x \in BOOLEAN, base' = [base EXCEPT !.revocada = x] PROVE base' \in Esquemas /\ Igual
  BY <1>4 DEF Esquemas, Igual, Esquematiza
<1>5. ASSUME NEW x \in BOOLEAN, base' = [base EXCEPT !.normalizada = x] PROVE base' \in Esquemas /\ Igual
  BY <1>5 DEF Esquemas, Igual, Esquematiza
<1>6. ASSUME NEW x \in BOOLEAN, base' = [base EXCEPT !.admin = x] PROVE base' \in Esquemas /\ Igual
  BY <1>6 DEF Esquemas, Igual, Esquematiza
<1>7. ASSUME NEW x \in {"no", "vieja", "nueva"}, base' = [base EXCEPT !.sesiones = x]
      PROVE  base' \in Esquemas /\ Igual
  BY <1>7 DEF Esquemas, Igual, Esquematiza
<1>8. ASSUME NEW x \in Int, base' = [base EXCEPT !.huerfanas = x] PROVE base' \in Esquemas /\ Igual
  BY <1>8 DEF Esquemas, Igual, Esquematiza
<1> QED BY <1>1, <1>2, <1>3, <1>4, <1>5, <1>6, <1>7, <1>8

\* What each statement, and each writer, does to the schema.
LEMMA Efectos ==
  ASSUME TiposBase
  PROVE  /\ base \in Esquemas
         /\ B!Conectar => base' \in Esquemas /\ Igual
         /\ B!MigrarSesiones => base' \in Esquemas /\ Igual
         /\ B!AutoMigrar => base' \in Esquemas /\
              (Igual \/ (base.auditoria = "no" /\
                  Esquematiza("plana", base.legacy, base.particiones, base.preparado, base.indices)))
         /\ B!MirarAuditoria => base' \in Esquemas /\ Igual
         /\ B!QuitarRemanente => base' \in Esquemas /\
              Esquematiza("no", base.legacy, base.particiones, base.preparado, base.indices)
         /\ B!Renombrar => base' \in Esquemas /\
              Esquematiza("no", TRUE, base.particiones, base.preparado, base.indices)
         /\ B!CrearMadre => base' \in Esquemas /\
              Esquematiza("madre", base.legacy, base.particiones, base.preparado, base.indices)
         /\ B!CrearFijas => base' \in Esquemas /\
              Esquematiza(base.auditoria, base.legacy, base.particiones \cup Fijas, base.preparado, base.indices)
         /\ B!CrearOmision => base' \in Esquemas /\ Igual
         /\ B!Volcar => base' \in Esquemas /\
              Esquematiza(base.auditoria, FALSE, base.particiones, base.preparado, base.indices)
         /\ B!AsegurarActual => base' \in Esquemas /\
              ((paso' = "siguiente" /\
                  Esquematiza(base.auditoria, base.legacy, base.particiones \cup {trimestre}, base.preparado, base.indices)) \/
              (paso' # "siguiente" /\ Igual))
         /\ B!AsegurarSiguiente => base' \in Esquemas /\
              ((paso' = "clasificar" /\
                  Esquematiza(base.auditoria, base.legacy, base.particiones \cup {visto + 1}, visto, base.indices)) \/
              (paso' # "clasificar" /\ Igual))
         /\ B!Clasificar => base' \in Esquemas /\ Igual
         /\ B!AsegurarCheck => base' \in Esquemas /\ Igual
         /\ B!MirarCorreos => base' \in Esquemas /\ Igual
         /\ B!ReemplazarIndice => base' \in Esquemas /\
              ((paso' = "trigger" /\
                  Esquematiza(base.auditoria, base.legacy, base.particiones, base.preparado, {"parcial"})) \/
              (paso' # "trigger" /\ Igual))
         /\ B!CrearTrigger => base' \in Esquemas /\ Igual
         /\ B!Normalizar => base' \in Esquemas /\ Igual
         /\ B!Revocar => base' \in Esquemas /\ Igual
         /\ B!ContarUsuarios => base' \in Esquemas /\ Igual
         /\ B!CrearOrganizacion => base' \in Esquemas /\ Igual
         /\ B!CrearAdmin => base' \in Esquemas /\ Igual
         /\ B!AsignarCreador => base' \in Esquemas /\ Igual
         /\ B!BuscarOrganizacion => base' \in Esquemas /\ Igual
         /\ B!VerificarCorreo => base' \in Esquemas /\ Igual
         /\ B!Sembrar => base' \in Esquemas /\ Igual
         /\ B!PonerCreador => base' \in Esquemas /\ Igual
         /\ B!Caer => base' \in Esquemas /\ Igual
         /\ B!PasaTrimestre => base' \in Esquemas /\ Igual
         /\ \A v : B!Registrar(v) => base' \in Esquemas /\ Igual
         /\ \A u : B!CrearUsuario(u) => base' \in Esquemas /\ Igual
         /\ \A v, u : B!Eliminar(v, u) => base' \in Esquemas /\ Igual
         /\ \A u : B!Suspender(u) => base' \in Esquemas /\ Igual
         /\ \A v, u : B!Reactivar(v, u) => base' \in Esquemas /\ Igual
<1>0. base \in Esquemas /\ visto \in Nat /\ trimestre \in Nat /\ base.huerfanas \in Int
  BY DEF TiposBase, Esquemas
<1>1. ASSUME B!Conectar PROVE base' \in Esquemas /\ Igual
  BY <1>1 DEF B!Conectar, B!SoloPaso, B!Escritura, TiposBase, Igual, Esquematiza
<1>2. ASSUME B!MigrarSesiones PROVE base' \in Esquemas /\ Igual
  <2>1. base' = base \/ base' = [base EXCEPT !.sesiones = "no"]
    BY <1>2 DEF B!MigrarSesiones, B!Cambia
  <2> QED BY <2>1, CambiaMenor DEF TiposBase, Igual, Esquematiza
<1>3. ASSUME B!AutoMigrar
      PROVE  base' \in Esquemas /\
               (Igual \/ (base.auditoria = "no" /\
                   Esquematiza("plana", base.legacy, base.particiones, base.preparado, base.indices)))
  <2>1. PICK a \in {base.auditoria, "plana"} :
          /\ base' = [base EXCEPT !.sesiones = "nueva", !.auditoria = a]
          /\ a = base.auditoria \/ base.auditoria = "no"
    <3>1. PICK a \in IF base.auditoria = "no" THEN {"no", "plana"} ELSE {base.auditoria} :
            base' = [base EXCEPT !.sesiones = "nueva", !.auditoria = a]
      BY <1>3, Zenon DEF B!AutoMigrar, B!Cambia
    <3> QED BY <3>1
  <2>2. a \in {"no", "plana", "madre"}
    BY <1>0, <2>1 DEF Esquemas
  <2>3. base' = [base EXCEPT !.sesiones = "nueva", !.auditoria = a]
    BY <2>1
  <2>4. base' \in Esquemas /\ Esquematiza(a, base.legacy, base.particiones, base.preparado, base.indices)
    BY <1>0, <2>2, <2>3 DEF Esquemas, Esquematiza
  <2> QED BY <2>1, <2>4 DEF Igual, Esquematiza
<1>4. ASSUME B!MirarAuditoria PROVE base' \in Esquemas /\ Igual
  BY <1>4 DEF B!MirarAuditoria, B!SoloPaso, B!Escritura, TiposBase, Igual, Esquematiza
<1>5. ASSUME B!QuitarRemanente
      PROVE  base' \in Esquemas /\
               Esquematiza("no", base.legacy, base.particiones, base.preparado, base.indices)
  <2>1. base' = [base EXCEPT !.auditoria = "no"]
    BY <1>5 DEF B!QuitarRemanente, B!Cambia
  <2> QED BY <2>1, PersistenciaAssumption DEF TiposBase, Esquemas, Igual, Esquematiza, B!Supuestos
<1>6. ASSUME B!Renombrar
      PROVE  base' \in Esquemas /\ Esquematiza("no", TRUE, base.particiones, base.preparado, base.indices)
  <2>1. base' = [base EXCEPT !.auditoria = "no", !.legacy = TRUE]
    BY <1>6 DEF B!Renombrar, B!Cambia
  <2> QED BY <2>1, PersistenciaAssumption DEF TiposBase, Esquemas, Igual, Esquematiza, B!Supuestos
<1>7. ASSUME B!CrearMadre
      PROVE  base' \in Esquemas /\
               Esquematiza("madre", base.legacy, base.particiones, base.preparado, base.indices)
  <2>1. base' = [base EXCEPT !.auditoria = "madre", !.trigger = FALSE, !.revocada = FALSE]
    BY <1>7 DEF B!CrearMadre, B!Cambia
  <2> QED BY <2>1, PersistenciaAssumption DEF TiposBase, Esquemas, Igual, Esquematiza, B!Supuestos
<1>8. ASSUME B!CrearFijas
      PROVE  base' \in Esquemas /\
               Esquematiza(base.auditoria, base.legacy, base.particiones \cup Fijas, base.preparado, base.indices)
  <2>1. base' = [base EXCEPT !.particiones = base.particiones \cup Fijas]
    BY <1>8 DEF B!CrearFijas, B!Cambia
  <2> QED BY <2>1, PersistenciaAssumption DEF TiposBase, Esquemas, Igual, Esquematiza, B!Supuestos
<1>9. ASSUME B!CrearOmision PROVE base' \in Esquemas /\ Igual
  <2>1. base' = [base EXCEPT !.omision = TRUE]
    BY <1>9 DEF B!CrearOmision, B!Cambia
  <2> QED BY <2>1, CambiaMenor DEF TiposBase
<1>10. ASSUME B!Volcar
      PROVE  base' \in Esquemas /\
               Esquematiza(base.auditoria, FALSE, base.particiones, base.preparado, base.indices)
  <2>1. base' = [base EXCEPT !.legacy = FALSE]
    BY <1>10 DEF B!Volcar, B!Cambia
  <2> QED BY <2>1, PersistenciaAssumption DEF TiposBase, Esquemas, Igual, Esquematiza, B!Supuestos
<1>11. ASSUME B!AsegurarActual
      PROVE  base' \in Esquemas /\
               ((paso' = "siguiente" /\
                   Esquematiza(base.auditoria, base.legacy, base.particiones \cup {trimestre}, base.preparado, base.indices)) \/
               (paso' # "siguiente" /\ Igual))
  <2> DEFINE b == [base EXCEPT !.particiones = base.particiones \cup {trimestre}]
  <2>1. (paso' = "siguiente" /\ base' = b) \/ (paso' # "siguiente" /\ base' = base)
    BY <1>11 DEF B!AsegurarActual, B!Cambia, B!Da
  <2>2. b \in Esquemas
    <3>1. base.particiones \cup {trimestre} \in SUBSET Nat
      BY <1>0 DEF Esquemas
    <3> QED BY <1>0, <3>1 DEF Esquemas
  <2>3. base' = b => Esquematiza(base.auditoria, base.legacy, base.particiones \cup {trimestre}, base.preparado, base.indices)
    BY <1>0 DEF Esquemas, Esquematiza
  <2> HIDE DEF b
  <2> QED BY <1>0, <2>1, <2>2, <2>3 DEF Igual, Esquematiza
<1>12. ASSUME B!AsegurarSiguiente
      PROVE  base' \in Esquemas /\
               ((paso' = "clasificar" /\
                   Esquematiza(base.auditoria, base.legacy, base.particiones \cup {visto + 1}, visto, base.indices)) \/
               (paso' # "clasificar" /\ Igual))
  <2> DEFINE b == [base EXCEPT !.particiones = base.particiones \cup {visto + 1}, !.preparado = visto]
  <2>1. (paso' = "clasificar" /\ base' = b) \/ (paso' # "clasificar" /\ base' = base)
    BY <1>12 DEF B!AsegurarSiguiente, B!Cambia, B!Da
  <2>2. b \in Esquemas
    <3>1. base.particiones \cup {visto + 1} \in SUBSET Nat
      BY <1>0 DEF Esquemas
    <3> QED BY <1>0, <3>1 DEF Esquemas
  <2>3. base' = b => Esquematiza(base.auditoria, base.legacy, base.particiones \cup {visto + 1}, visto, base.indices)
    BY <1>0 DEF Esquemas, Esquematiza
  <2> HIDE DEF b
  <2> QED BY <1>0, <2>1, <2>2, <2>3 DEF Igual, Esquematiza
<1>13. ASSUME B!Clasificar PROVE base' \in Esquemas /\ Igual
  BY <1>13 DEF B!Clasificar, B!SoloPaso, B!Escritura, TiposBase, Igual, Esquematiza
<1>14. ASSUME B!AsegurarCheck PROVE base' \in Esquemas /\ Igual
  <2>1. base' = [base EXCEPT !.check = TRUE]
    BY <1>14 DEF B!AsegurarCheck, B!Cambia
  <2> QED BY <2>1, CambiaMenor DEF TiposBase
<1>15. ASSUME B!MirarCorreos PROVE base' \in Esquemas /\ Igual
  BY <1>15 DEF B!MirarCorreos, B!SoloPaso, B!Escritura, TiposBase, Igual, Esquematiza
<1>16. ASSUME B!ReemplazarIndice
      PROVE  base' \in Esquemas /\
               ((paso' = "trigger" /\
                   Esquematiza(base.auditoria, base.legacy, base.particiones, base.preparado, {"parcial"})) \/
               (paso' # "trigger" /\ Igual))
  <2> DEFINE b == [base EXCEPT !.indices = {"parcial"}]
  <2>1. (paso' = "trigger" /\ base' = b) \/ (paso' # "trigger" /\ base' = base)
    BY <1>16 DEF B!ReemplazarIndice, B!Cambia, B!Da
  <2>2. b \in Esquemas
    <3>1. {"parcial"} \in SUBSET {"viejo", "parcial"}
      BY <1>0 DEF Esquemas
    <3> QED BY <1>0, <3>1 DEF Esquemas
  <2>3. base' = b => Esquematiza(base.auditoria, base.legacy, base.particiones, base.preparado, {"parcial"})
    BY <1>0 DEF Esquemas, Esquematiza
  <2> HIDE DEF b
  <2> QED BY <1>0, <2>1, <2>2, <2>3 DEF Igual, Esquematiza
<1>17. ASSUME B!CrearTrigger PROVE base' \in Esquemas /\ Igual
  <2>1. base' = [base EXCEPT !.trigger = TRUE]
    BY <1>17 DEF B!CrearTrigger, B!Cambia
  <2> QED BY <2>1, CambiaMenor DEF TiposBase
<1>18. ASSUME B!Normalizar PROVE base' \in Esquemas /\ Igual
  <2>1. base' = base \/ base' = [base EXCEPT !.normalizada = TRUE]
    BY <1>18 DEF B!Normalizar, B!Cambia
  <2> QED BY <2>1, CambiaMenor DEF TiposBase, Igual, Esquematiza
<1>19. ASSUME B!Revocar PROVE base' \in Esquemas /\ Igual
  <2>1. base' = [base EXCEPT !.revocada = TRUE]
    BY <1>19 DEF B!Revocar, B!Cambia
  <2> QED BY <2>1, CambiaMenor DEF TiposBase
<1>20. ASSUME B!ContarUsuarios PROVE base' \in Esquemas /\ Igual
  BY <1>20 DEF B!ContarUsuarios, B!SoloPaso, B!Escritura, TiposBase, Igual, Esquematiza
<1>21. ASSUME B!CrearOrganizacion PROVE base' \in Esquemas /\ Igual
  <2>1. base' = [base EXCEPT !.huerfanas = base.huerfanas + 1]
    BY <1>21 DEF B!CrearOrganizacion, B!Cambia
  <2>2. base.huerfanas + 1 \in Int
    BY <1>0
  <2> QED BY <2>1, <2>2, CambiaMenor DEF TiposBase
<1>22. ASSUME B!CrearAdmin PROVE base' \in Esquemas /\ Igual
  <2>1. base' = [base EXCEPT !.admin = TRUE]
    BY <1>22 DEF B!CrearAdmin, B!Cambia
  <2> QED BY <2>1, CambiaMenor DEF TiposBase
<1>23. ASSUME B!AsignarCreador PROVE base' \in Esquemas /\ Igual
  <2>1. base' = [base EXCEPT !.huerfanas = base.huerfanas - 1]
    BY <1>23 DEF B!AsignarCreador, B!Cambia
  <2>2. base.huerfanas - 1 \in Int
    BY <1>0
  <2> QED BY <2>1, <2>2, CambiaMenor DEF TiposBase
<1>24. ASSUME B!BuscarOrganizacion PROVE base' \in Esquemas /\ Igual
  <2>1. base' = base \/ base' = [base EXCEPT !.huerfanas = base.huerfanas + 1]
    BY <1>24 DEF B!BuscarOrganizacion, B!Cambia
  <2>2. base.huerfanas + 1 \in Int
    BY <1>0
  <2> QED BY <2>1, <2>2, CambiaMenor DEF TiposBase, Igual, Esquematiza
<1>25. ASSUME B!VerificarCorreo PROVE base' \in Esquemas /\ Igual
  BY <1>25 DEF B!VerificarCorreo, B!SoloPaso, B!Escritura, TiposBase, Igual, Esquematiza
<1>26. ASSUME B!Sembrar PROVE base' \in Esquemas /\ Igual
  <2>1. base' = base \/ base' = [base EXCEPT !.admin = TRUE]
    BY <1>26 DEF B!Sembrar, B!Cambia
  <2> QED BY <2>1, CambiaMenor DEF TiposBase, Igual, Esquematiza
<1>27. ASSUME B!PonerCreador PROVE base' \in Esquemas /\ Igual
  <2>1. base' = base \/ base' = [base EXCEPT !.huerfanas = base.huerfanas - 1]
    BY <1>27 DEF B!PonerCreador, B!Cambia
  <2>2. base.huerfanas - 1 \in Int
    BY <1>0
  <2> QED BY <2>1, <2>2, CambiaMenor DEF TiposBase, Igual, Esquematiza
<1>28. ASSUME B!Caer PROVE base' \in Esquemas /\ Igual
  BY <1>28 DEF B!Caer, B!SoloPaso, B!Escritura, TiposBase, Igual, Esquematiza
<1>29. ASSUME B!PasaTrimestre PROVE base' \in Esquemas /\ Igual
  BY <1>29 DEF B!PasaTrimestre, B!SoloPaso, B!Escritura, TiposBase, Igual, Esquematiza
<1>30. ASSUME NEW v, B!Registrar(v) PROVE base' \in Esquemas /\ Igual
  BY <1>30 DEF B!Registrar, B!SoloPaso, B!Escritura, TiposBase, Igual, Esquematiza
<1>31. ASSUME NEW u, B!CrearUsuario(u) PROVE base' \in Esquemas /\ Igual
  BY <1>31 DEF B!CrearUsuario, B!SoloPaso, B!Escritura, TiposBase, Igual, Esquematiza
<1>32. ASSUME NEW v, NEW u, B!Eliminar(v, u) PROVE base' \in Esquemas /\ Igual
  BY <1>32 DEF B!Eliminar, B!SoloPaso, B!Escritura, TiposBase, Igual, Esquematiza
<1>33. ASSUME NEW u, B!Suspender(u) PROVE base' \in Esquemas /\ Igual
  BY <1>33 DEF B!Suspender, B!SoloPaso, B!Escritura, TiposBase, Igual, Esquematiza
<1>34. ASSUME NEW v, NEW u, B!Reactivar(v, u) PROVE base' \in Esquemas /\ Igual
  BY <1>34 DEF B!Reactivar, B!SoloPaso, B!Escritura, TiposBase, Igual, Esquematiza
<1> QED BY <1>0, <1>1, <1>2, <1>3, <1>4, <1>5, <1>6, <1>7, <1>8, <1>9, <1>10, <1>11, <1>12,
           <1>13, <1>14, <1>15, <1>16, <1>17, <1>18, <1>19, <1>20, <1>21, <1>22, <1>23, <1>24,
           <1>25, <1>26, <1>27, <1>28, <1>29, <1>30, <1>31, <1>32, <1>33, <1>34 DEF TiposBase

\* A copy of a record, in the same table or in another.
Copia(e, f) == f.n = e.n /\ f.tipo = e.tipo /\ f.u = e.u /\ f.recreada = e.recreada
Traslado(desde, hasta) ==
  /\ \A f \in registros' : \E e \in registros :
       /\ Copia(e, f) /\ f.en = IF e.en = desde THEN hasta ELSE e.en
       /\ f.preparado \in {e.preparado, base.preparado}
  /\ \A e \in registros : \E f \in registros' : Copia(e, f)

\* What moving the rows of a table does.
LEMMA Traslados ==
  ASSUME TiposBase
  PROVE  /\ B!QuitarRemanente => registros' \subseteq Registros /\ Traslado("auditoria", "perdido")
         /\ B!Renombrar => registros' \subseteq Registros /\ Traslado("auditoria", "legacy")
         /\ B!Volcar => registros' \subseteq Registros /\ Traslado("legacy", "auditoria")
         /\ B!Normalizar => registros' \subseteq Registros /\ Traslado("auditoria", "auditoria")
<1>0. registros \subseteq Registros /\ base.preparado \in Nat
  BY DEF TiposBase, Esquemas
<1>1. ASSUME B!QuitarRemanente PROVE registros' \subseteq Registros /\ Traslado("auditoria", "perdido")
  <2> DEFINE g(e) == [e EXCEPT !.en = "perdido"]
  <2>1. registros' = {IF e.en = "auditoria" THEN g(e) ELSE e : e \in registros}
    BY <1>1, Zenon DEF B!QuitarRemanente, B!Mueve
  <2>2. \A e \in registros : g(e) \in Registros /\ Copia(e, g(e)) /\ g(e).en = "perdido" /\ g(e).preparado = e.preparado
    BY <1>0 DEF Registros, Copia
  <2> HIDE DEF g
  <2> QED BY <1>0, <2>1, <2>2 DEF Traslado, Copia
<1>2. ASSUME B!Renombrar PROVE registros' \subseteq Registros /\ Traslado("auditoria", "legacy")
  <2> DEFINE g(e) == [e EXCEPT !.en = "legacy"]
  <2>1. registros' = {IF e.en = "auditoria" THEN g(e) ELSE e : e \in registros}
    BY <1>2, Zenon DEF B!Renombrar, B!Mueve
  <2>2. \A e \in registros : g(e) \in Registros /\ Copia(e, g(e)) /\ g(e).en = "legacy" /\ g(e).preparado = e.preparado
    BY <1>0 DEF Registros, Copia
  <2> HIDE DEF g
  <2> QED BY <1>0, <2>1, <2>2 DEF Traslado, Copia
<1>3. ASSUME B!Volcar PROVE registros' \subseteq Registros /\ Traslado("legacy", "auditoria")
  <2> DEFINE g(e) == B!Volcada(e)
  <2>1. registros' = {IF e.en = "legacy" THEN g(e) ELSE e : e \in registros}
    BY <1>3, Zenon DEF B!Volcar, B!Mueve
  <2>2. \A e \in registros :
          g(e) \in Registros /\ Copia(e, g(e)) /\ g(e).en = "auditoria" /\ g(e).preparado = base.preparado
    BY <1>0 DEF Registros, Copia, B!Volcada
  <2> HIDE DEF g
  <2>3. registros' \subseteq Registros
    BY <1>0, <2>1, <2>2
  <2>4. Traslado("legacy", "auditoria")
    BY <2>1, <2>2 DEF Traslado, Copia
  <2> QED BY <2>3, <2>4
<1>4. ASSUME B!Normalizar PROVE registros' \subseteq Registros /\ Traslado("auditoria", "auditoria")
  <2> DEFINE g(e) == [e EXCEPT !.viejo = FALSE]
  <2>1. registros' = registros \/ registros' = {IF e.en = "auditoria" THEN g(e) ELSE e : e \in registros}
    BY <1>4, Zenon DEF B!Normalizar
  <2>2. \A e \in registros : g(e) \in Registros /\ Copia(e, g(e)) /\ g(e).en = e.en /\ g(e).preparado = e.preparado
    BY <1>0 DEF Registros, Copia
  <2> HIDE DEF g
  <2>3. CASE registros' = registros
    BY <1>0, <2>3 DEF Traslado, Copia
  <2>4. CASE registros' = {IF e.en = "auditoria" THEN g(e) ELSE e : e \in registros}
    BY <1>0, <2>2, <2>4 DEF Traslado, Copia
  <2> QED BY <2>1, <2>3, <2>4
<1> QED BY <1>1, <1>2, <1>3, <1>4

\* A record that a writer leaves.
Anotado(e, tipo, u) ==
  /\ e \in Registros /\ e.n = cuentas.escrituras + 1 /\ e.tipo = tipo /\ e.u = u /\ e.en = "auditoria"
  /\ e.preparado = base.preparado /\ (e.recreada <=> base.auditoria = "plana" /\ base.legacy)
  /\ base.auditoria # "no"

\* The next number.
LEMMA Sucesor == \A k \in Nat : k + 1 \in Nat
OBVIOUS

\* What registering something leaves in the tables.
LEMMA Anotaciones ==
  ASSUME TiposBase, NEW v, NEW tipo \in {"otro", "elimina", "reactiva"}, NEW u \in Usuarios \cup {""},
         B!Registra(v, tipo, u)
  PROVE  \/ ~B!Recibe /\ registros' = registros
         \/ B!Recibe /\ \E e : registros' = registros \cup {e} /\ Anotado(e, tipo, u)
<1> DEFINE e == B!Evento(cuentas.escrituras + 1, tipo, u, v = "anterior")
<1>0. trimestre \in Nat /\ base.preparado \in Nat /\ base.normalizada \in BOOLEAN /\ cuentas.escrituras + 1 \in Nat
  <2>1. base \in Esquemas /\ trimestre \in Nat
    BY DEF TiposBase
  <2>2. base.preparado \in Nat /\ base.normalizada \in BOOLEAN
    BY <2>1 DEF Esquemas
  <2>3. cuentas.escrituras \in Nat
    BY DEF TiposBase, Contadores
  <2>4. cuentas.escrituras + 1 \in Nat
    BY <2>3, Sucesor, Zenon
  <2> QED BY <2>1, <2>2, <2>4, Zenon
<1>1. e.parte \in {"omision", "propia"}
  BY DEF B!Evento
<1>2. /\ e.n = cuentas.escrituras + 1 /\ e.tipo = tipo /\ e.u = u /\ e.en = "auditoria"
      /\ e.preparado = base.preparado /\ (e.recreada <=> base.auditoria = "plana" /\ base.legacy)
  BY DEF B!Evento
<1>3. e \in Registros
  BY <1>0, <1>1 DEF B!Evento, Registros
<1>4. B!Recibe => base.auditoria # "no"
  BY DEF B!Recibe
<1>5. registros' = IF B!Recibe THEN registros \cup {e} ELSE registros
  BY Zenon DEF B!Registra
<1> HIDE DEF e
<1> QED BY <1>2, <1>3, <1>4, <1>5 DEF Anotado

\* One user changes, and keeps what identifies it.
Cambiado(u) ==
  /\ usuarios' \in [Usuarios -> Filas]
  /\ \A w \in Usuarios : w # u => usuarios'[w] = usuarios[w]
Sigue(u) == usuarios'[u].alta = usuarios[u].alta /\ usuarios'[u].grafia = usuarios[u].grafia
Recien(u, g) ==
  /\ Cambiado(u) /\ B!Admite(g) /\ ~usuarios[u].alta
  /\ usuarios'[u].alta /\ ~usuarios'[u].eliminado /\ ~usuarios'[u].borrado /\ usuarios'[u].rastro
  /\ usuarios'[u].grafia = g

\* A user created with an address that the index admits.
LEMMA FilaNueva ==
  ASSUME TiposBase, NEW u \in Usuarios, NEW g \in Grafias \cup {""}, B!Admite(g), ~usuarios[u].alta,
         usuarios' = [usuarios EXCEPT ![u] = B!Nuevo(g)]
  PROVE  Recien(u, g)
<1> DEFINE f == B!Nuevo(g)
<1>1. f \in Filas /\ f.alta /\ ~f.eliminado /\ ~f.borrado /\ f.rastro /\ f.grafia = g
  BY DEF B!Nuevo, B!SinUsuario, Filas
<1>2. usuarios \in [Usuarios -> Filas]
  BY DEF TiposBase
<1> HIDE DEF f
<1>3. usuarios' = [usuarios EXCEPT ![u] = f]
  BY DEF f
<1> QED BY <1>1, <1>2, <1>3 DEF Recien, Cambiado

\* What each writer does to the users.
LEMMA Usuarias ==
  ASSUME TiposBase
  PROVE  /\ B!Sembrar => usuarios' = usuarios \/ \E u \in Usuarios : Recien(u, semilla.grafia)
         /\ \A u \in Usuarios : B!CrearUsuario(u) => \E g \in Grafias : Recien(u, g)
         /\ \A v : \A u \in Usuarios : B!Eliminar(v, u) =>
              /\ Cambiado(u) /\ Sigue(u) /\ usuarios[u].alta /\ ~usuarios[u].eliminado
              /\ usuarios'[u].borrado /\ (usuarios'[u].eliminado <=> v = "esta")
         /\ \A u \in Usuarios : B!Suspender(u) =>
              /\ Cambiado(u) /\ Sigue(u) /\ usuarios'[u].eliminado = usuarios[u].eliminado
              /\ usuarios'[u].borrado = usuarios[u].borrado /\ usuarios'[u].rastro = usuarios[u].rastro
         /\ \A v : \A u \in Usuarios : B!Reactivar(v, u) =>
              /\ Cambiado(u) /\ Sigue(u) /\ usuarios[u].alta
              /\ usuarios'[u].eliminado = usuarios[u].eliminado
              /\ usuarios'[u].rastro = B!Recibe
         /\ B!Clasificar =>
              /\ usuarios' \in [Usuarios -> Filas]
              /\ \A u \in Usuarios :
                   /\ Sigue(u) /\ (usuarios[u].eliminado => usuarios'[u].eliminado)
                   /\ usuarios'[u].borrado = usuarios[u].borrado /\ usuarios'[u].rastro = usuarios[u].rastro
<1>0. usuarios \in [Usuarios -> Filas] /\ semilla.grafia \in Grafias \cup {""}
  BY DEF TiposBase, Semillas
<1>1. ASSUME B!Sembrar PROVE usuarios' = usuarios \/ \E u \in Usuarios : Recien(u, semilla.grafia)
  <2>1. \/ usuarios' = usuarios
        \/ /\ B!Admite(semilla.grafia)
           /\ \E u \in Usuarios : ~usuarios[u].alta /\ usuarios' = [usuarios EXCEPT ![u] = B!Nuevo(semilla.grafia)]
    BY <1>1, Zenon DEF B!Sembrar
  <2> QED BY <1>0, <2>1, FilaNueva
<1>2. ASSUME NEW u \in Usuarios, B!CrearUsuario(u) PROVE \E g \in Grafias : Recien(u, g)
  <2>1. PICK g \in Grafias : B!Admite(g) /\ usuarios' = [usuarios EXCEPT ![u] = B!Nuevo(g)]
    BY <1>2, Zenon DEF B!CrearUsuario
  <2>2. ~usuarios[u].alta
    BY <1>2, Zenon DEF B!CrearUsuario
  <2> QED BY <2>1, <2>2, FilaNueva
<1>3. ASSUME NEW v, NEW u \in Usuarios, B!Eliminar(v, u)
      PROVE  /\ Cambiado(u) /\ Sigue(u) /\ usuarios[u].alta /\ ~usuarios[u].eliminado
             /\ usuarios'[u].borrado /\ (usuarios'[u].eliminado <=> v = "esta")
  <2> DEFINE x == v = "esta"
  <2>1. /\ usuarios[u].alta /\ ~usuarios[u].eliminado
        /\ usuarios' = [usuarios EXCEPT ![u].activo = FALSE, ![u].borrado = TRUE, ![u].eliminado = x]
    BY <1>3, Zenon DEF B!Eliminar
  <2>2. x \in BOOLEAN
    OBVIOUS
  <2> HIDE DEF x
  <2> DEFINE f == [usuarios[u] EXCEPT !.activo = FALSE, !.borrado = TRUE, !.eliminado = x]
  <2>3. usuarios[u] \in Filas
    BY <1>0
  <2>4. f \in Filas /\ f.alta = usuarios[u].alta /\ f.grafia = usuarios[u].grafia /\ f.borrado /\ f.eliminado = x
    BY <2>2, <2>3 DEF Filas
  <2>5. usuarios' = [usuarios EXCEPT ![u] = f]
    BY <1>0, <2>1
  <2> HIDE DEF f
  <2>6. Cambiado(u) /\ usuarios'[u] = f
    BY <1>0, <2>4, <2>5 DEF Cambiado
  <2> QED BY <2>1, <2>4, <2>6 DEF Sigue, x
<1>4. ASSUME NEW u \in Usuarios, B!Suspender(u)
      PROVE  /\ Cambiado(u) /\ Sigue(u) /\ usuarios'[u].eliminado = usuarios[u].eliminado
             /\ usuarios'[u].borrado = usuarios[u].borrado /\ usuarios'[u].rastro = usuarios[u].rastro
  <2>1. usuarios' = [usuarios EXCEPT ![u].activo = FALSE]
    BY <1>4, Zenon DEF B!Suspender
  <2> QED BY <1>0, <2>1 DEF Cambiado, Sigue, Filas
<1>5. ASSUME NEW v, NEW u \in Usuarios, B!Reactivar(v, u)
      PROVE  /\ Cambiado(u) /\ Sigue(u) /\ usuarios[u].alta
             /\ usuarios'[u].eliminado = usuarios[u].eliminado
             /\ usuarios'[u].rastro = B!Recibe
  <2> DEFINE x == B!Recibe
  <2>1. /\ usuarios[u].alta
        /\ usuarios' = [usuarios EXCEPT ![u].activo = TRUE, ![u].borrado = FALSE, ![u].rastro = x]
    BY <1>5, Zenon DEF B!Reactivar
  <2>2. x \in BOOLEAN
    BY DEF B!Recibe
  <2> HIDE DEF x
  <2> DEFINE f == [usuarios[u] EXCEPT !.activo = TRUE, !.borrado = FALSE, !.rastro = x]
  <2>3. usuarios[u] \in Filas
    BY <1>0
  <2>4. /\ f \in Filas /\ f.alta = usuarios[u].alta /\ f.grafia = usuarios[u].grafia
        /\ f.eliminado = usuarios[u].eliminado /\ f.rastro = x
    BY <2>2, <2>3 DEF Filas
  <2>5. usuarios' = [usuarios EXCEPT ![u] = f]
    BY <1>0, <2>1
  <2> HIDE DEF f
  <2>6. Cambiado(u) /\ usuarios'[u] = f
    BY <1>0, <2>4, <2>5 DEF Cambiado
  <2> QED BY <2>1, <2>4, <2>6 DEF Sigue, x
<1>6. ASSUME B!Clasificar
      PROVE  /\ usuarios' \in [Usuarios -> Filas]
             /\ \A u \in Usuarios :
                  /\ Sigue(u) /\ (usuarios[u].eliminado => usuarios'[u].eliminado)
                  /\ usuarios'[u].borrado = usuarios[u].borrado /\ usuarios'[u].rastro = usuarios[u].rastro
  <2>1. usuarios' = [u \in Usuarios |->
          IF u \in B!Eliminables THEN [usuarios[u] EXCEPT !.eliminado = TRUE] ELSE usuarios[u]]
    BY <1>6, Zenon DEF B!Clasificar
  <2> QED BY <1>0, <2>1 DEF Sigue, Filas
<1> QED BY <1>1, <1>2, <1>3, <1>4, <1>5, <1>6

\* Every step keeps the types.
LEMMA TiposBasePaso ==
  ASSUME TiposBase, B!Next
  PROVE  TiposBase'
<1>0. cuentas \in Contadores /\ cuentas.escrituras + 1 \in Nat /\ cuentas.caidas + 1 \in Nat
  BY DEF TiposBase, Contadores
<1>1. CASE B!Conectar
  <2>1. base' \in Esquemas
    BY <1>1, Efectos, Zenon
  <2>2. registros' \subseteq Registros
    BY <1>1, Zenon DEF TiposBase, B!Conectar, B!SoloBase, B!SoloPaso, B!Escritura
  <2>3. usuarios' \in [Usuarios -> Filas]
    BY <1>1, Zenon DEF TiposBase, B!Conectar, B!SoloBase, B!SoloPaso, B!Escritura
  <2>4. trimestre' \in Nat \ {0} /\ visto' \in Nat
    BY <1>1 DEF TiposBase, B!Conectar, B!SoloBase, B!SoloPaso, B!Escritura
  <2>5. semilla' \in Semillas
    <3>1. semilla' = B!SinSemilla("api") \/ semilla' = B!SinSemilla("seed")
      BY <1>1, Zenon DEF B!Conectar
    <3>2. B!SinSemilla("api") \in Semillas /\ B!SinSemilla("seed") \in Semillas
      BY DEF B!SinSemilla, Semillas
    <3> QED BY <3>1, <3>2
  <2>6. cuentas' \in Contadores
    <3>1. cuentas' = cuentas \/ cuentas' = [cuentas EXCEPT !.escrituras = cuentas.escrituras + 1]
      BY <1>1 DEF B!Conectar, B!Escritura
    <3> QED BY <1>0, <3>1 DEF Contadores
  <2> QED BY <2>1, <2>2, <2>3, <2>4, <2>5, <2>6 DEF TiposBase
<1>2. CASE B!MigrarSesiones
  BY <1>2, Efectos DEF TiposBase, B!MigrarSesiones, B!SoloBase, B!SoloPaso
<1>3. CASE B!AutoMigrar
  BY <1>3, Efectos DEF TiposBase, B!AutoMigrar, B!SoloBase, B!SoloPaso
<1>4. CASE B!MirarAuditoria
  BY <1>4, Efectos DEF TiposBase, B!MirarAuditoria, B!SoloBase, B!SoloPaso
<1>5. CASE B!QuitarRemanente
  <2>1. base' \in Esquemas
    BY <1>5, Efectos, Zenon
  <2>2. registros' \subseteq Registros
    BY <1>5, Traslados, Zenon
  <2>3. usuarios' \in [Usuarios -> Filas]
    BY <1>5, Zenon DEF TiposBase, B!QuitarRemanente, B!SoloBase, B!SoloPaso, B!Escritura
  <2>4. trimestre' \in Nat \ {0} /\ visto' \in Nat
    BY <1>5 DEF TiposBase, B!QuitarRemanente, B!SoloBase, B!SoloPaso, B!Escritura
  <2>5. semilla' \in Semillas
    BY <1>5, Zenon DEF TiposBase, B!QuitarRemanente, B!SoloBase, B!SoloPaso, B!Escritura
  <2>6. cuentas' \in Contadores
    BY <1>5, Zenon DEF TiposBase, B!QuitarRemanente, B!SoloBase, B!SoloPaso, B!Escritura
  <2> QED BY <2>1, <2>2, <2>3, <2>4, <2>5, <2>6 DEF TiposBase
<1>6. CASE B!Renombrar
  <2>1. base' \in Esquemas
    BY <1>6, Efectos, Zenon
  <2>2. registros' \subseteq Registros
    BY <1>6, Traslados, Zenon
  <2>3. usuarios' \in [Usuarios -> Filas]
    BY <1>6, Zenon DEF TiposBase, B!Renombrar, B!SoloBase, B!SoloPaso, B!Escritura
  <2>4. trimestre' \in Nat \ {0} /\ visto' \in Nat
    BY <1>6 DEF TiposBase, B!Renombrar, B!SoloBase, B!SoloPaso, B!Escritura
  <2>5. semilla' \in Semillas
    BY <1>6, Zenon DEF TiposBase, B!Renombrar, B!SoloBase, B!SoloPaso, B!Escritura
  <2>6. cuentas' \in Contadores
    BY <1>6, Zenon DEF TiposBase, B!Renombrar, B!SoloBase, B!SoloPaso, B!Escritura
  <2> QED BY <2>1, <2>2, <2>3, <2>4, <2>5, <2>6 DEF TiposBase
<1>7. CASE B!CrearMadre
  BY <1>7, Efectos DEF TiposBase, B!CrearMadre, B!SoloBase, B!SoloPaso
<1>8. CASE B!CrearFijas
  BY <1>8, Efectos DEF TiposBase, B!CrearFijas, B!SoloBase, B!SoloPaso
<1>9. CASE B!CrearOmision
  BY <1>9, Efectos DEF TiposBase, B!CrearOmision, B!SoloBase, B!SoloPaso
<1>10. CASE B!Volcar
  <2>1. base' \in Esquemas
    BY <1>10, Efectos, Zenon
  <2>2. registros' \subseteq Registros
    BY <1>10, Traslados, Zenon
  <2>3. usuarios' \in [Usuarios -> Filas]
    BY <1>10, Zenon DEF TiposBase, B!Volcar, B!SoloBase, B!SoloPaso, B!Escritura
  <2>4. trimestre' \in Nat \ {0} /\ visto' \in Nat
    BY <1>10 DEF TiposBase, B!Volcar, B!SoloBase, B!SoloPaso, B!Escritura
  <2>5. semilla' \in Semillas
    BY <1>10, Zenon DEF TiposBase, B!Volcar, B!SoloBase, B!SoloPaso, B!Escritura
  <2>6. cuentas' \in Contadores
    BY <1>10, Zenon DEF TiposBase, B!Volcar, B!SoloBase, B!SoloPaso, B!Escritura
  <2> QED BY <2>1, <2>2, <2>3, <2>4, <2>5, <2>6 DEF TiposBase
<1>11. CASE B!AsegurarActual
  <2>1. base' \in Esquemas
    BY <1>11, Efectos, Zenon
  <2>2. registros' \subseteq Registros
    BY <1>11, Zenon DEF TiposBase, B!AsegurarActual, B!SoloBase, B!SoloPaso, B!Escritura
  <2>3. usuarios' \in [Usuarios -> Filas]
    BY <1>11, Zenon DEF TiposBase, B!AsegurarActual, B!SoloBase, B!SoloPaso, B!Escritura
  <2>4. trimestre' \in Nat \ {0} /\ visto' \in Nat
    BY <1>11 DEF TiposBase, B!AsegurarActual, B!SoloBase, B!SoloPaso, B!Escritura
  <2>5. semilla' \in Semillas
    BY <1>11, Zenon DEF TiposBase, B!AsegurarActual, B!SoloBase, B!SoloPaso, B!Escritura
  <2>6. cuentas' \in Contadores
    BY <1>11, Zenon DEF TiposBase, B!AsegurarActual, B!SoloBase, B!SoloPaso, B!Escritura
  <2> QED BY <2>1, <2>2, <2>3, <2>4, <2>5, <2>6 DEF TiposBase
<1>12. CASE B!AsegurarSiguiente
  BY <1>12, Efectos DEF TiposBase, B!AsegurarSiguiente, B!SoloBase, B!SoloPaso
<1>13. CASE B!Clasificar
  <2>1. base' \in Esquemas
    BY <1>13, Efectos, Zenon
  <2>2. registros' \subseteq Registros
    BY <1>13, Zenon DEF TiposBase, B!Clasificar, B!SoloBase, B!SoloPaso, B!Escritura
  <2>3. usuarios' \in [Usuarios -> Filas]
    BY <1>13, Usuarias DEF TiposBase, Recien, Cambiado
  <2>4. trimestre' \in Nat \ {0} /\ visto' \in Nat
    BY <1>13 DEF TiposBase, B!Clasificar, B!SoloBase, B!SoloPaso, B!Escritura
  <2>5. semilla' \in Semillas
    BY <1>13, Zenon DEF TiposBase, B!Clasificar, B!SoloBase, B!SoloPaso, B!Escritura
  <2>6. cuentas' \in Contadores
    BY <1>13, Zenon DEF TiposBase, B!Clasificar, B!SoloBase, B!SoloPaso, B!Escritura
  <2> QED BY <2>1, <2>2, <2>3, <2>4, <2>5, <2>6 DEF TiposBase
<1>14. CASE B!AsegurarCheck
  BY <1>14, Efectos DEF TiposBase, B!AsegurarCheck, B!SoloBase, B!SoloPaso
<1>15. CASE B!MirarCorreos
  BY <1>15, Efectos DEF TiposBase, B!MirarCorreos, B!SoloBase, B!SoloPaso
<1>16. CASE B!ReemplazarIndice
  BY <1>16, Efectos DEF TiposBase, B!ReemplazarIndice, B!SoloBase, B!SoloPaso
<1>17. CASE B!CrearTrigger
  BY <1>17, Efectos DEF TiposBase, B!CrearTrigger, B!SoloBase, B!SoloPaso
<1>18. CASE B!Normalizar
  <2>1. base' \in Esquemas
    BY <1>18, Efectos, Zenon
  <2>2. registros' \subseteq Registros
    BY <1>18, Traslados, Zenon
  <2>3. usuarios' \in [Usuarios -> Filas]
    BY <1>18, Zenon DEF TiposBase, B!Normalizar, B!SoloBase, B!SoloPaso, B!Escritura
  <2>4. trimestre' \in Nat \ {0} /\ visto' \in Nat
    BY <1>18 DEF TiposBase, B!Normalizar, B!SoloBase, B!SoloPaso, B!Escritura
  <2>5. semilla' \in Semillas
    BY <1>18, Zenon DEF TiposBase, B!Normalizar, B!SoloBase, B!SoloPaso, B!Escritura
  <2>6. cuentas' \in Contadores
    BY <1>18, Zenon DEF TiposBase, B!Normalizar, B!SoloBase, B!SoloPaso, B!Escritura
  <2> QED BY <2>1, <2>2, <2>3, <2>4, <2>5, <2>6 DEF TiposBase
<1>19. CASE B!Revocar
  BY <1>19, Efectos DEF TiposBase, B!Revocar, B!SoloBase, B!SoloPaso
<1>20. CASE B!ContarUsuarios
  BY <1>20, Efectos DEF TiposBase, B!ContarUsuarios, B!SoloBase, B!SoloPaso
<1>21. CASE B!CrearOrganizacion
  BY <1>21, Efectos DEF TiposBase, B!CrearOrganizacion, B!SoloBase, B!SoloPaso
<1>22. CASE B!CrearAdmin
  BY <1>22, Efectos DEF TiposBase, B!CrearAdmin, B!SoloBase, B!SoloPaso
<1>23. CASE B!AsignarCreador
  BY <1>23, Efectos DEF TiposBase, B!AsignarCreador, B!SoloBase, B!SoloPaso
<1>24. CASE B!BuscarOrganizacion
  <2>1. base' \in Esquemas
    BY <1>24, Efectos, Zenon
  <2>2. registros' \subseteq Registros
    BY <1>24, Zenon DEF TiposBase, B!BuscarOrganizacion, B!SoloBase, B!SoloPaso, B!Escritura
  <2>3. usuarios' \in [Usuarios -> Filas]
    BY <1>24, Zenon DEF TiposBase, B!BuscarOrganizacion, B!SoloBase, B!SoloPaso, B!Escritura
  <2>4. trimestre' \in Nat \ {0} /\ visto' \in Nat
    BY <1>24 DEF TiposBase, B!BuscarOrganizacion, B!SoloBase, B!SoloPaso, B!Escritura
  <2>5. semilla' \in Semillas
    <3>1. PICK x \in BOOLEAN : semilla' = [semilla EXCEPT !.org = x]
      BY <1>24, Zenon DEF B!BuscarOrganizacion
    <3> QED BY <3>1 DEF TiposBase, Semillas
  <2>6. cuentas' \in Contadores
    BY <1>24, Zenon DEF TiposBase, B!BuscarOrganizacion, B!SoloBase, B!SoloPaso, B!Escritura
  <2> QED BY <2>1, <2>2, <2>3, <2>4, <2>5, <2>6 DEF TiposBase
<1>25. CASE B!VerificarCorreo
  <2>1. base' \in Esquemas
    BY <1>25, Efectos, Zenon
  <2>2. registros' \subseteq Registros
    BY <1>25, Zenon DEF TiposBase, B!VerificarCorreo, B!SoloBase, B!SoloPaso, B!Escritura
  <2>3. usuarios' \in [Usuarios -> Filas]
    BY <1>25, Zenon DEF TiposBase, B!VerificarCorreo, B!SoloBase, B!SoloPaso, B!Escritura
  <2>4. trimestre' \in Nat \ {0} /\ visto' \in Nat
    BY <1>25 DEF TiposBase, B!VerificarCorreo, B!SoloBase, B!SoloPaso, B!Escritura
  <2>5. semilla' \in Semillas
    <3>1. PICK g \in Grafias : semilla' = [semilla EXCEPT !.grafia = g]
      BY <1>25, Zenon DEF B!VerificarCorreo
    <3> QED BY <3>1 DEF TiposBase, Semillas
  <2>6. cuentas' \in Contadores
    BY <1>25, Zenon DEF TiposBase, B!VerificarCorreo, B!SoloBase, B!SoloPaso, B!Escritura
  <2> QED BY <2>1, <2>2, <2>3, <2>4, <2>5, <2>6 DEF TiposBase
<1>26. CASE B!Sembrar
  <2>1. base' \in Esquemas
    BY <1>26, Efectos, Zenon
  <2>2. registros' \subseteq Registros
    BY <1>26, Zenon DEF TiposBase, B!Sembrar, B!SoloBase, B!SoloPaso, B!Escritura
  <2>3. usuarios' \in [Usuarios -> Filas]
    BY <1>26, Usuarias DEF TiposBase, Recien, Cambiado
  <2>4. trimestre' \in Nat \ {0} /\ visto' \in Nat
    BY <1>26 DEF TiposBase, B!Sembrar, B!SoloBase, B!SoloPaso, B!Escritura
  <2>5. semilla' \in Semillas
    BY <1>26, Zenon DEF TiposBase, B!Sembrar, B!SoloBase, B!SoloPaso, B!Escritura
  <2>6. cuentas' \in Contadores
    BY <1>26, Zenon DEF TiposBase, B!Sembrar, B!SoloBase, B!SoloPaso, B!Escritura
  <2> QED BY <2>1, <2>2, <2>3, <2>4, <2>5, <2>6 DEF TiposBase
<1>27. CASE B!PonerCreador
  BY <1>27, Efectos DEF TiposBase, B!PonerCreador, B!SoloBase, B!SoloPaso
<1>28. CASE B!Caer
  <2>1. base' \in Esquemas
    BY <1>28, Efectos, Zenon
  <2>2. registros' \subseteq Registros
    BY <1>28, Zenon DEF TiposBase, B!Caer, B!SoloBase, B!SoloPaso, B!Escritura
  <2>3. usuarios' \in [Usuarios -> Filas]
    BY <1>28, Zenon DEF TiposBase, B!Caer, B!SoloBase, B!SoloPaso, B!Escritura
  <2>4. trimestre' \in Nat \ {0} /\ visto' \in Nat
    BY <1>28 DEF TiposBase, B!Caer, B!SoloBase, B!SoloPaso, B!Escritura
  <2>5. semilla' \in Semillas
    BY <1>28, Zenon DEF TiposBase, B!Caer, B!SoloBase, B!SoloPaso, B!Escritura
  <2>6. cuentas' \in Contadores
    <3>1. cuentas' = [cuentas EXCEPT !.caidas = cuentas.caidas + 1]
      BY <1>28 DEF B!Caer
    <3> QED BY <1>0, <3>1 DEF Contadores
  <2> QED BY <2>1, <2>2, <2>3, <2>4, <2>5, <2>6 DEF TiposBase
<1>29. CASE B!PasaTrimestre
  <2>1. base' \in Esquemas
    BY <1>29, Efectos, Zenon
  <2>2. registros' \subseteq Registros
    BY <1>29, Zenon DEF TiposBase, B!PasaTrimestre, B!SoloBase, B!SoloPaso, B!Escritura
  <2>3. usuarios' \in [Usuarios -> Filas]
    BY <1>29, Zenon DEF TiposBase, B!PasaTrimestre, B!SoloBase, B!SoloPaso, B!Escritura
  <2>4. trimestre' \in Nat \ {0} /\ visto' \in Nat
    BY <1>29 DEF TiposBase, B!PasaTrimestre, B!SoloBase, B!SoloPaso, B!Escritura
  <2>5. semilla' \in Semillas
    BY <1>29, Zenon DEF TiposBase, B!PasaTrimestre, B!SoloBase, B!SoloPaso, B!Escritura
  <2>6. cuentas' \in Contadores
    BY <1>29, Zenon DEF TiposBase, B!PasaTrimestre, B!SoloBase, B!SoloPaso, B!Escritura
  <2> QED BY <2>1, <2>2, <2>3, <2>4, <2>5, <2>6 DEF TiposBase
<1>30. ASSUME NEW v \in B!Escriben, B!Registrar(v) PROVE TiposBase'
  <2>1. base' \in Esquemas
    BY <1>30, Efectos, Zenon
  <2>2. registros' \subseteq Registros
    <3>1. B!Registra(v, "otro", "")
      BY <1>30, Zenon DEF B!Registrar
    <3>2. registros' = registros \/ \E e : registros' = registros \cup {e} /\ e \in Registros
      <4>1. "otro" \in {"otro", "elimina", "reactiva"} /\ "" \in Usuarios \cup {""}
        OBVIOUS
      <4> QED BY <3>1, <4>1, Anotaciones DEF Anotado
    <3> QED BY <3>2 DEF TiposBase
  <2>3. usuarios' \in [Usuarios -> Filas]
    BY <1>30, Zenon DEF TiposBase, B!Registrar, B!SoloBase, B!SoloPaso, B!Escritura
  <2>4. trimestre' \in Nat \ {0} /\ visto' \in Nat
    BY <1>30 DEF TiposBase, B!Registrar, B!SoloBase, B!SoloPaso, B!Escritura
  <2>5. semilla' \in Semillas
    BY <1>30, Zenon DEF TiposBase, B!Registrar, B!SoloBase, B!SoloPaso, B!Escritura
  <2>6. cuentas' \in Contadores
    <3>1. cuentas' = cuentas \/ cuentas' = [cuentas EXCEPT !.escrituras = cuentas.escrituras + 1]
      BY <1>30 DEF B!Registrar, B!Escritura
    <3> QED BY <1>0, <3>1 DEF Contadores
  <2> QED BY <2>1, <2>2, <2>3, <2>4, <2>5, <2>6 DEF TiposBase
<1>31. ASSUME NEW u \in Usuarios, B!Escriben # {}, B!CrearUsuario(u) PROVE TiposBase'
  <2>1. base' \in Esquemas
    BY <1>31, Efectos, Zenon
  <2>2. registros' \subseteq Registros
    BY <1>31, Zenon DEF TiposBase, B!CrearUsuario, B!SoloBase, B!SoloPaso, B!Escritura
  <2>3. usuarios' \in [Usuarios -> Filas]
    BY <1>31, Usuarias DEF TiposBase, Recien, Cambiado
  <2>4. trimestre' \in Nat \ {0} /\ visto' \in Nat
    BY <1>31 DEF TiposBase, B!CrearUsuario, B!SoloBase, B!SoloPaso, B!Escritura
  <2>5. semilla' \in Semillas
    BY <1>31, Zenon DEF TiposBase, B!CrearUsuario, B!SoloBase, B!SoloPaso, B!Escritura
  <2>6. cuentas' \in Contadores
    <3>1. cuentas' = cuentas \/ cuentas' = [cuentas EXCEPT !.escrituras = cuentas.escrituras + 1]
      BY <1>31 DEF B!CrearUsuario, B!Escritura
    <3> QED BY <1>0, <3>1 DEF Contadores
  <2> QED BY <2>1, <2>2, <2>3, <2>4, <2>5, <2>6 DEF TiposBase
<1>32. ASSUME NEW v \in B!Escriben, NEW u \in Usuarios, B!Eliminar(v, u) PROVE TiposBase'
  <2>1. base' \in Esquemas
    BY <1>32, Efectos, Zenon
  <2>2. registros' \subseteq Registros
    <3>1. B!Registra(v, "elimina", u)
      BY <1>32, Zenon DEF B!Eliminar
    <3>2. registros' = registros \/ \E e : registros' = registros \cup {e} /\ e \in Registros
      <4>1. "elimina" \in {"otro", "elimina", "reactiva"} /\ u \in Usuarios \cup {""}
        OBVIOUS
      <4> QED BY <3>1, <4>1, Anotaciones DEF Anotado
    <3> QED BY <3>2 DEF TiposBase
  <2>3. usuarios' \in [Usuarios -> Filas]
    BY <1>32, Usuarias DEF TiposBase, Recien, Cambiado
  <2>4. trimestre' \in Nat \ {0} /\ visto' \in Nat
    BY <1>32 DEF TiposBase, B!Eliminar, B!SoloBase, B!SoloPaso, B!Escritura
  <2>5. semilla' \in Semillas
    BY <1>32, Zenon DEF TiposBase, B!Eliminar, B!SoloBase, B!SoloPaso, B!Escritura
  <2>6. cuentas' \in Contadores
    <3>1. cuentas' = cuentas \/ cuentas' = [cuentas EXCEPT !.escrituras = cuentas.escrituras + 1]
      BY <1>32 DEF B!Eliminar, B!Escritura
    <3> QED BY <1>0, <3>1 DEF Contadores
  <2> QED BY <2>1, <2>2, <2>3, <2>4, <2>5, <2>6 DEF TiposBase
<1>33. ASSUME NEW u \in Usuarios, B!Escriben # {}, B!Suspender(u) PROVE TiposBase'
  <2>1. base' \in Esquemas
    BY <1>33, Efectos, Zenon
  <2>2. registros' \subseteq Registros
    BY <1>33, Zenon DEF TiposBase, B!Suspender, B!SoloBase, B!SoloPaso, B!Escritura
  <2>3. usuarios' \in [Usuarios -> Filas]
    BY <1>33, Usuarias DEF TiposBase, Recien, Cambiado
  <2>4. trimestre' \in Nat \ {0} /\ visto' \in Nat
    BY <1>33 DEF TiposBase, B!Suspender, B!SoloBase, B!SoloPaso, B!Escritura
  <2>5. semilla' \in Semillas
    BY <1>33, Zenon DEF TiposBase, B!Suspender, B!SoloBase, B!SoloPaso, B!Escritura
  <2>6. cuentas' \in Contadores
    <3>1. cuentas' = cuentas \/ cuentas' = [cuentas EXCEPT !.escrituras = cuentas.escrituras + 1]
      BY <1>33 DEF B!Suspender, B!Escritura
    <3> QED BY <1>0, <3>1 DEF Contadores
  <2> QED BY <2>1, <2>2, <2>3, <2>4, <2>5, <2>6 DEF TiposBase
<1>34. ASSUME NEW v \in B!Escriben, NEW u \in Usuarios, B!Reactivar(v, u) PROVE TiposBase'
  <2>1. base' \in Esquemas
    BY <1>34, Efectos, Zenon
  <2>2. registros' \subseteq Registros
    <3>1. B!Registra(v, "reactiva", u)
      BY <1>34, Zenon DEF B!Reactivar
    <3>2. registros' = registros \/ \E e : registros' = registros \cup {e} /\ e \in Registros
      <4>1. "reactiva" \in {"otro", "elimina", "reactiva"} /\ u \in Usuarios \cup {""}
        OBVIOUS
      <4> QED BY <3>1, <4>1, Anotaciones DEF Anotado
    <3> QED BY <3>2 DEF TiposBase
  <2>3. usuarios' \in [Usuarios -> Filas]
    BY <1>34, Usuarias DEF TiposBase, Recien, Cambiado
  <2>4. trimestre' \in Nat \ {0} /\ visto' \in Nat
    BY <1>34 DEF TiposBase, B!Reactivar, B!SoloBase, B!SoloPaso, B!Escritura
  <2>5. semilla' \in Semillas
    BY <1>34, Zenon DEF TiposBase, B!Reactivar, B!SoloBase, B!SoloPaso, B!Escritura
  <2>6. cuentas' \in Contadores
    <3>1. cuentas' = cuentas \/ cuentas' = [cuentas EXCEPT !.escrituras = cuentas.escrituras + 1]
      BY <1>34 DEF B!Reactivar, B!Escritura
    <3> QED BY <1>0, <3>1 DEF Contadores
  <2> QED BY <2>1, <2>2, <2>3, <2>4, <2>5, <2>6 DEF TiposBase
<1> QED BY <1>1, <1>2, <1>3, <1>4, <1>5, <1>6, <1>7, <1>8, <1>9, <1>10, <1>11, <1>12, <1>13,
           <1>14, <1>15, <1>16, <1>17, <1>18, <1>19, <1>20, <1>21, <1>22, <1>23, <1>24, <1>25,
           <1>26, <1>27, <1>28, <1>29, <1>30, <1>31, <1>32, <1>33, <1>34 DEF B!Next

\* Every step keeps what each statement finds of the audit table.
LEMMA EsquemaPaso ==
  ASSUME TiposBase, Esquema, B!Next
  PROVE  Esquema'
<1>1. CASE B!Conectar
  BY <1>1, Efectos DEF Esquema, Antes, Igual, Esquematiza, B!Conectar, B!Da, B!Fin, B!Escritura
<1>2. CASE B!MigrarSesiones
  BY <1>2, Efectos DEF Esquema, Antes, Igual, Esquematiza, B!MigrarSesiones, B!Da, B!Fin,
                       B!Escritura
<1>3. CASE B!AutoMigrar
  BY <1>3, Efectos DEF Esquema, Antes, Igual, Esquematiza, B!AutoMigrar, B!Da, B!Fin,
                       B!Escritura
<1>4. CASE B!MirarAuditoria
  <2>1. paso = "auditoria" /\ paso' = (CASE base.auditoria = "madre" -> "fijas" [] base.auditoria = "no" -> "crear"
                                [] base.auditoria = "plana" /\ base.legacy -> "remanente" [] OTHER -> "renombrar")
    BY <1>4 DEF B!MirarAuditoria, B!Da, B!Fin, B!Escritura
  <2>2. Igual
    BY <1>4, Efectos, Zenon
  <2>3. base.auditoria \in {"no", "plana", "madre"}
    BY DEF TiposBase, Esquemas
  <2> QED BY <2>1, <2>2, <2>3 DEF Esquema, Antes, Igual, Esquematiza
<1>5. CASE B!QuitarRemanente
  BY <1>5, Efectos DEF Esquema, Antes, Igual, Esquematiza, B!QuitarRemanente, B!Da, B!Fin,
                       B!Escritura
<1>6. CASE B!Renombrar
  BY <1>6, Efectos DEF Esquema, Antes, Igual, Esquematiza, B!Renombrar, B!Da, B!Fin, B!Escritura
<1>7. CASE B!CrearMadre
  BY <1>7, Efectos DEF Esquema, Antes, Igual, Esquematiza, B!CrearMadre, B!Da, B!Fin,
                       B!Escritura
<1>8. CASE B!CrearFijas
  BY <1>8, Efectos DEF Esquema, Antes, Igual, Esquematiza, B!CrearFijas, B!Da, B!Fin,
                       B!Escritura
<1>9. CASE B!CrearOmision
  BY <1>9, Efectos DEF Esquema, Antes, Igual, Esquematiza, B!CrearOmision, B!Da, B!Fin,
                       B!Escritura
<1>10. CASE B!Volcar
  BY <1>10, Efectos DEF Esquema, Antes, Igual, Esquematiza, B!Volcar, B!Da, B!Fin, B!Escritura
<1>11. CASE B!AsegurarActual
  BY <1>11, Efectos DEF Esquema, Antes, Igual, Esquematiza, B!AsegurarActual, B!Da, B!Fin,
                        B!Escritura
<1>12. CASE B!AsegurarSiguiente
  BY <1>12, Efectos DEF Esquema, Antes, Igual, Esquematiza, B!AsegurarSiguiente, B!Da, B!Fin,
                        B!Escritura
<1>13. CASE B!Clasificar
  BY <1>13, Efectos DEF Esquema, Antes, Igual, Esquematiza, B!Clasificar, B!Da, B!Fin,
                        B!Escritura
<1>14. CASE B!AsegurarCheck
  BY <1>14, Efectos DEF Esquema, Antes, Igual, Esquematiza, B!AsegurarCheck, B!Da, B!Fin,
                        B!Escritura
<1>15. CASE B!MirarCorreos
  BY <1>15, Efectos DEF Esquema, Antes, Igual, Esquematiza, B!MirarCorreos, B!Da, B!Fin,
                        B!Escritura
<1>16. CASE B!ReemplazarIndice
  BY <1>16, Efectos DEF Esquema, Antes, Igual, Esquematiza, B!ReemplazarIndice, B!Da, B!Fin,
                        B!Escritura
<1>17. CASE B!CrearTrigger
  BY <1>17, Efectos DEF Esquema, Antes, Igual, Esquematiza, B!CrearTrigger, B!Da, B!Fin,
                        B!Escritura
<1>18. CASE B!Normalizar
  BY <1>18, Efectos DEF Esquema, Antes, Igual, Esquematiza, B!Normalizar, B!Da, B!Fin,
                        B!Escritura
<1>19. CASE B!Revocar
  BY <1>19, Efectos DEF Esquema, Antes, Igual, Esquematiza, B!Revocar, B!Da, B!Fin, B!Escritura
<1>20. CASE B!ContarUsuarios
  BY <1>20, Efectos DEF Esquema, Antes, Igual, Esquematiza, B!ContarUsuarios, B!Da, B!Fin,
                        B!Escritura
<1>21. CASE B!CrearOrganizacion
  BY <1>21, Efectos DEF Esquema, Antes, Igual, Esquematiza, B!CrearOrganizacion, B!Da, B!Fin,
                        B!Escritura
<1>22. CASE B!CrearAdmin
  BY <1>22, Efectos DEF Esquema, Antes, Igual, Esquematiza, B!CrearAdmin, B!Da, B!Fin,
                        B!Escritura
<1>23. CASE B!AsignarCreador
  BY <1>23, Efectos DEF Esquema, Antes, Igual, Esquematiza, B!AsignarCreador, B!Da, B!Fin,
                        B!Escritura
<1>24. CASE B!BuscarOrganizacion
  BY <1>24, Efectos DEF Esquema, Antes, Igual, Esquematiza, B!BuscarOrganizacion, B!Da, B!Fin,
                        B!Escritura
<1>25. CASE B!VerificarCorreo
  BY <1>25, Efectos DEF Esquema, Antes, Igual, Esquematiza, B!VerificarCorreo, B!Da, B!Fin,
                        B!Escritura
<1>26. CASE B!Sembrar
  BY <1>26, Efectos DEF Esquema, Antes, Igual, Esquematiza, B!Sembrar, B!Da, B!Fin, B!Escritura
<1>27. CASE B!PonerCreador
  BY <1>27, Efectos DEF Esquema, Antes, Igual, Esquematiza, B!PonerCreador, B!Da, B!Fin,
                        B!Escritura
<1>28. CASE B!Caer
  BY <1>28, Efectos DEF Esquema, Antes, Igual, Esquematiza, B!Caer, B!Da, B!Fin, B!Escritura
<1>29. CASE B!PasaTrimestre
  BY <1>29, Efectos DEF Esquema, Antes, Igual, Esquematiza, B!PasaTrimestre, B!Da, B!Fin,
                        B!Escritura
<1>30. ASSUME NEW v \in B!Escriben, B!Registrar(v) PROVE Esquema'
  BY <1>30, Efectos DEF Esquema, Antes, Igual, Esquematiza, B!Registrar, B!Da, B!Fin,
                        B!Escritura
<1>31. ASSUME NEW u \in Usuarios, B!Escriben # {}, B!CrearUsuario(u) PROVE Esquema'
  BY <1>31, Efectos DEF Esquema, Antes, Igual, Esquematiza, B!CrearUsuario, B!Da, B!Fin,
                        B!Escritura
<1>32. ASSUME NEW v \in B!Escriben, NEW u \in Usuarios, B!Eliminar(v, u) PROVE Esquema'
  BY <1>32, Efectos DEF Esquema, Antes, Igual, Esquematiza, B!Eliminar, B!Da, B!Fin, B!Escritura
<1>33. ASSUME NEW u \in Usuarios, B!Escriben # {}, B!Suspender(u) PROVE Esquema'
  BY <1>33, Efectos DEF Esquema, Antes, Igual, Esquematiza, B!Suspender, B!Da, B!Fin,
                        B!Escritura
<1>34. ASSUME NEW v \in B!Escriben, NEW u \in Usuarios, B!Reactivar(v, u) PROVE Esquema'
  BY <1>34, Efectos DEF Esquema, Antes, Igual, Esquematiza, B!Reactivar, B!Da, B!Fin,
                        B!Escritura
<1> QED BY <1>1, <1>2, <1>3, <1>4, <1>5, <1>6, <1>7, <1>8, <1>9, <1>10, <1>11, <1>12, <1>13,
           <1>14, <1>15, <1>16, <1>17, <1>18, <1>19, <1>20, <1>21, <1>22, <1>23, <1>24, <1>25,
           <1>26, <1>27, <1>28, <1>29, <1>30, <1>31, <1>32, <1>33, <1>34 DEF B!Next

\* Every step keeps the account of the tables that hold records.
LEMMA TablasPaso ==
  ASSUME TiposBase, Esquema, Tablas, B!Next
  PROVE  Tablas'
<1>1. CASE B!Conectar
  <2>1. paso = "apagada" /\ paso' = "sesiones"
    BY <1>1 DEF B!Conectar, B!Da, B!Fin, B!Escritura
  <2>2. Igual
    BY <1>1, Efectos, Zenon
  <2>3. registros' = registros
    BY <1>1, Zenon DEF B!Conectar, B!SoloBase, B!SoloPaso, B!Escritura
  <2> QED BY <2>1, <2>2, <2>3 DEF Esquema, Tablas, B!EnTabla, B!HistorialIntacto, Igual, Esquematiza
<1>2. CASE B!MigrarSesiones
  BY <1>2, Efectos DEF Esquema, Tablas, B!EnTabla, B!HistorialIntacto, Igual, Esquematiza,
                       B!MigrarSesiones, B!Da, B!SoloBase, B!SoloPaso
<1>3. CASE B!AutoMigrar
  <2>1. paso = "automigrar" /\ paso' = "auditoria"
    BY <1>3 DEF B!AutoMigrar, B!Da, B!Fin, B!Escritura
  <2>2. Igual \/ (base.auditoria = "no" /\
         Esquematiza("plana", base.legacy, base.particiones, base.preparado, base.indices))
    BY <1>3, Efectos, Zenon
  <2>3. registros' = registros
    BY <1>3, Zenon DEF B!AutoMigrar, B!SoloBase, B!SoloPaso, B!Escritura
  <2> QED BY <2>1, <2>2, <2>3 DEF Esquema, Tablas, B!EnTabla, B!HistorialIntacto, Igual, Esquematiza
<1>4. CASE B!MirarAuditoria
  BY <1>4, Efectos DEF Esquema, Tablas, B!EnTabla, B!HistorialIntacto, Igual, Esquematiza,
                       B!MirarAuditoria, B!Da, B!SoloBase, B!SoloPaso
<1>5. CASE B!QuitarRemanente
  <2>1. paso = "remanente" /\ paso' = "crear"
    BY <1>5 DEF B!QuitarRemanente, B!Da, B!Fin, B!Escritura
  <2>2. Esquematiza("no", base.legacy, base.particiones, base.preparado, base.indices)
    BY <1>5, Efectos, Zenon
  <2>3. Traslado("auditoria", "perdido")
    BY <1>5, Traslados, Zenon
  <2> QED BY <2>1, <2>2, <2>3
        DEF Esquema, Tablas, B!EnTabla, B!HistorialIntacto, Igual, Esquematiza, Traslado, Copia
<1>6. CASE B!Renombrar
  <2>1. paso = "renombrar" /\ paso' = "crear"
    BY <1>6 DEF B!Renombrar, B!Da, B!Fin, B!Escritura
  <2>2. Esquematiza("no", TRUE, base.particiones, base.preparado, base.indices)
    BY <1>6, Efectos, Zenon
  <2>3. Traslado("auditoria", "legacy")
    BY <1>6, Traslados, Zenon
  <2> QED BY <2>1, <2>2, <2>3
        DEF Esquema, Tablas, B!EnTabla, B!HistorialIntacto, Igual, Esquematiza, Traslado, Copia
<1>7. CASE B!CrearMadre
  BY <1>7, Efectos DEF Esquema, Tablas, B!EnTabla, B!HistorialIntacto, Igual, Esquematiza,
                       B!CrearMadre, B!Da, B!SoloBase, B!SoloPaso
<1>8. CASE B!CrearFijas
  BY <1>8, Efectos DEF Esquema, Tablas, B!EnTabla, B!HistorialIntacto, Igual, Esquematiza,
                       B!CrearFijas, B!Da, B!SoloBase, B!SoloPaso
<1>9. CASE B!CrearOmision
  BY <1>9, Efectos DEF Esquema, Tablas, B!EnTabla, B!HistorialIntacto, Igual, Esquematiza,
                       B!CrearOmision, B!Da, B!SoloBase, B!SoloPaso
<1>10. CASE B!Volcar
  <2>1. paso = "volcar" /\ paso' = "actual"
    BY <1>10 DEF B!Volcar, B!Da, B!Fin, B!Escritura
  <2>2. Esquematiza(base.auditoria, FALSE, base.particiones, base.preparado, base.indices)
    BY <1>10, Efectos, Zenon
  <2>3. Traslado("legacy", "auditoria")
    BY <1>10, Traslados, Zenon
  <2>4. base'.auditoria = "madre" /\ ~base'.legacy
    BY <2>1, <2>2 DEF Esquema, Antes, Esquematiza
  <2>5. \A f \in registros' : f.en # "legacy" /\ (f.en = "perdido" => f.recreada)
    BY <2>3 DEF Traslado, Copia, Tablas, B!HistorialIntacto
  <2> QED BY <2>4, <2>5 DEF Tablas, B!EnTabla, B!HistorialIntacto
<1>11. CASE B!AsegurarActual
  <2>1. paso = "actual" /\ paso' \in {"siguiente", "apagada"}
    BY <1>11 DEF B!AsegurarActual, B!Da, B!Fin, B!Escritura
  <2>2. (paso' = "siguiente" /\
         Esquematiza(base.auditoria, base.legacy, base.particiones \cup {trimestre}, base.preparado, base.indices)) \/
          (paso' # "siguiente" /\ Igual)
    BY <1>11, Efectos, Zenon
  <2>3. registros' = registros
    BY <1>11, Zenon DEF B!AsegurarActual, B!SoloBase, B!SoloPaso, B!Escritura
  <2> QED BY <2>1, <2>2, <2>3 DEF Esquema, Tablas, B!EnTabla, B!HistorialIntacto, Igual, Esquematiza
<1>12. CASE B!AsegurarSiguiente
  BY <1>12, Efectos DEF Esquema, Tablas, B!EnTabla, B!HistorialIntacto, Igual, Esquematiza,
                        B!AsegurarSiguiente, B!Da, B!SoloBase, B!SoloPaso
<1>13. CASE B!Clasificar
  <2>1. paso = "clasificar" /\ paso' = "check"
    BY <1>13 DEF B!Clasificar, B!Da, B!Fin, B!Escritura
  <2>2. Igual
    BY <1>13, Efectos, Zenon
  <2>3. registros' = registros
    BY <1>13, Zenon DEF B!Clasificar, B!SoloBase, B!SoloPaso, B!Escritura
  <2> QED BY <2>1, <2>2, <2>3 DEF Esquema, Tablas, B!EnTabla, B!HistorialIntacto, Igual, Esquematiza
<1>14. CASE B!AsegurarCheck
  BY <1>14, Efectos DEF Esquema, Tablas, B!EnTabla, B!HistorialIntacto, Igual, Esquematiza,
                        B!AsegurarCheck, B!Da, B!SoloBase, B!SoloPaso
<1>15. CASE B!MirarCorreos
  BY <1>15, Efectos DEF Esquema, Tablas, B!EnTabla, B!HistorialIntacto, Igual, Esquematiza,
                        B!MirarCorreos, B!Da, B!SoloBase, B!SoloPaso
<1>16. CASE B!ReemplazarIndice
  BY <1>16, Efectos DEF Esquema, Tablas, B!EnTabla, B!HistorialIntacto, Igual, Esquematiza,
                        B!ReemplazarIndice, B!Da, B!SoloBase, B!SoloPaso
<1>17. CASE B!CrearTrigger
  BY <1>17, Efectos DEF Esquema, Tablas, B!EnTabla, B!HistorialIntacto, Igual, Esquematiza,
                        B!CrearTrigger, B!Da, B!SoloBase, B!SoloPaso
<1>18. CASE B!Normalizar
  <2>1. paso = "vocabulario" /\ paso' = "revocar"
    BY <1>18 DEF B!Normalizar, B!Da, B!Fin, B!Escritura
  <2>2. Igual
    BY <1>18, Efectos, Zenon
  <2>3. Traslado("auditoria", "auditoria")
    BY <1>18, Traslados, Zenon
  <2> QED BY <2>1, <2>2, <2>3
        DEF Esquema, Tablas, B!EnTabla, B!HistorialIntacto, Igual, Esquematiza, Traslado, Copia
<1>19. CASE B!Revocar
  BY <1>19, Efectos DEF Esquema, Tablas, B!EnTabla, B!HistorialIntacto, Igual, Esquematiza,
                        B!Revocar, B!Da, B!SoloBase, B!SoloPaso
<1>20. CASE B!ContarUsuarios
  BY <1>20, Efectos DEF Esquema, Tablas, B!EnTabla, B!HistorialIntacto, Igual, Esquematiza,
                        B!ContarUsuarios, B!Da, B!SoloBase, B!SoloPaso
<1>21. CASE B!CrearOrganizacion
  BY <1>21, Efectos DEF Esquema, Tablas, B!EnTabla, B!HistorialIntacto, Igual, Esquematiza,
                        B!CrearOrganizacion, B!Da, B!SoloBase, B!SoloPaso
<1>22. CASE B!CrearAdmin
  BY <1>22, Efectos DEF Esquema, Tablas, B!EnTabla, B!HistorialIntacto, Igual, Esquematiza,
                        B!CrearAdmin, B!Da, B!SoloBase, B!SoloPaso
<1>23. CASE B!AsignarCreador
  BY <1>23, Efectos DEF Esquema, Tablas, B!EnTabla, B!HistorialIntacto, Igual, Esquematiza,
                        B!AsignarCreador, B!Da, B!SoloBase, B!SoloPaso
<1>24. CASE B!BuscarOrganizacion
  <2>1. paso = "semilla" /\ paso' = "correo"
    BY <1>24 DEF B!BuscarOrganizacion, B!Da, B!Fin, B!Escritura
  <2>2. Igual
    BY <1>24, Efectos, Zenon
  <2>3. registros' = registros
    BY <1>24, Zenon DEF B!BuscarOrganizacion, B!SoloBase, B!SoloPaso, B!Escritura
  <2> QED BY <2>1, <2>2, <2>3 DEF Esquema, Tablas, B!EnTabla, B!HistorialIntacto, Igual, Esquematiza
<1>25. CASE B!VerificarCorreo
  <2>1. paso = "correo" /\ paso' \in {"apagada", "sembrar"}
    BY <1>25 DEF B!VerificarCorreo, B!Da, B!Fin, B!Escritura
  <2>2. Igual
    BY <1>25, Efectos, Zenon
  <2>3. registros' = registros
    BY <1>25, Zenon DEF B!VerificarCorreo, B!SoloBase, B!SoloPaso, B!Escritura
  <2> QED BY <2>1, <2>2, <2>3 DEF Esquema, Tablas, B!EnTabla, B!HistorialIntacto, Igual, Esquematiza
<1>26. CASE B!Sembrar
  <2>1. paso = "sembrar" /\ paso' \in {"apagada", "creador"}
    BY <1>26 DEF B!Sembrar, B!Da, B!Fin, B!Escritura
  <2>2. Igual
    BY <1>26, Efectos, Zenon
  <2>3. registros' = registros
    BY <1>26, Zenon DEF B!Sembrar, B!SoloBase, B!SoloPaso, B!Escritura
  <2> QED BY <2>1, <2>2, <2>3 DEF Esquema, Tablas, B!EnTabla, B!HistorialIntacto, Igual, Esquematiza
<1>27. CASE B!PonerCreador
  BY <1>27, Efectos DEF Esquema, Tablas, B!EnTabla, B!HistorialIntacto, Igual, Esquematiza,
                        B!PonerCreador, B!Da, B!SoloBase, B!SoloPaso
<1>28. CASE B!Caer
  <2>1. paso # "apagada" /\ paso' = "apagada"
    BY <1>28 DEF B!Caer, B!Da, B!Fin, B!Escritura
  <2>2. Igual
    BY <1>28, Efectos, Zenon
  <2>3. registros' = registros
    BY <1>28, Zenon DEF B!Caer, B!SoloBase, B!SoloPaso, B!Escritura
  <2> QED BY <2>1, <2>2, <2>3 DEF Esquema, Tablas, B!EnTabla, B!HistorialIntacto, Igual, Esquematiza
<1>29. CASE B!PasaTrimestre
  <2>1. paso' = paso
    BY <1>29 DEF B!PasaTrimestre, B!Da, B!Fin, B!Escritura
  <2>2. Igual
    BY <1>29, Efectos, Zenon
  <2>3. registros' = registros
    BY <1>29, Zenon DEF B!PasaTrimestre, B!SoloBase, B!SoloPaso, B!Escritura
  <2> QED BY <2>1, <2>2, <2>3 DEF Esquema, Tablas, B!EnTabla, B!HistorialIntacto, Igual, Esquematiza
<1>30. ASSUME NEW v \in B!Escriben, B!Registrar(v) PROVE Tablas'
  <2>1. paso' = paso
    BY <1>30 DEF B!Registrar, B!Da, B!Fin, B!Escritura
  <2>2. Igual
    BY <1>30, Efectos, Zenon
  <2>3. \/ registros' = registros
        \/ B!Recibe /\ \E e : registros' = registros \cup {e} /\ Anotado(e, "otro", "")
    <3>1. B!Registra(v, "otro", "")
      BY <1>30, Zenon DEF B!Registrar
    <3>2. "otro" \in {"otro", "elimina", "reactiva"} /\ "" \in Usuarios \cup {""}
      OBVIOUS
    <3> QED BY <3>1, <3>2, Anotaciones
  <2> QED BY <2>1, <2>2, <2>3 DEF Esquema, Tablas, B!EnTabla, B!HistorialIntacto, Igual, Esquematiza, Anotado
<1>31. ASSUME NEW u \in Usuarios, B!Escriben # {}, B!CrearUsuario(u) PROVE Tablas'
  <2>1. paso' = paso
    BY <1>31 DEF B!CrearUsuario, B!Da, B!Fin, B!Escritura
  <2>2. Igual
    BY <1>31, Efectos, Zenon
  <2>3. registros' = registros
    BY <1>31, Zenon DEF B!CrearUsuario, B!SoloBase, B!SoloPaso, B!Escritura
  <2> QED BY <2>1, <2>2, <2>3 DEF Esquema, Tablas, B!EnTabla, B!HistorialIntacto, Igual, Esquematiza
<1>32. ASSUME NEW v \in B!Escriben, NEW u \in Usuarios, B!Eliminar(v, u) PROVE Tablas'
  <2>1. paso' = paso
    BY <1>32 DEF B!Eliminar, B!Da, B!Fin, B!Escritura
  <2>2. Igual
    BY <1>32, Efectos, Zenon
  <2>3. \/ registros' = registros
        \/ B!Recibe /\ \E e : registros' = registros \cup {e} /\ Anotado(e, "elimina", u)
    <3>1. B!Registra(v, "elimina", u)
      BY <1>32, Zenon DEF B!Eliminar
    <3>2. "elimina" \in {"otro", "elimina", "reactiva"} /\ u \in Usuarios \cup {""}
      OBVIOUS
    <3> QED BY <3>1, <3>2, Anotaciones
  <2> QED BY <2>1, <2>2, <2>3 DEF Esquema, Tablas, B!EnTabla, B!HistorialIntacto, Igual, Esquematiza, Anotado
<1>33. ASSUME NEW u \in Usuarios, B!Escriben # {}, B!Suspender(u) PROVE Tablas'
  <2>1. paso' = paso
    BY <1>33 DEF B!Suspender, B!Da, B!Fin, B!Escritura
  <2>2. Igual
    BY <1>33, Efectos, Zenon
  <2>3. registros' = registros
    BY <1>33, Zenon DEF B!Suspender, B!SoloBase, B!SoloPaso, B!Escritura
  <2> QED BY <2>1, <2>2, <2>3 DEF Esquema, Tablas, B!EnTabla, B!HistorialIntacto, Igual, Esquematiza
<1>34. ASSUME NEW v \in B!Escriben, NEW u \in Usuarios, B!Reactivar(v, u) PROVE Tablas'
  <2>1. paso' = paso
    BY <1>34 DEF B!Reactivar, B!Da, B!Fin, B!Escritura
  <2>2. Igual
    BY <1>34, Efectos, Zenon
  <2>3. \/ registros' = registros
        \/ B!Recibe /\ \E e : registros' = registros \cup {e} /\ Anotado(e, "reactiva", u)
    <3>1. B!Registra(v, "reactiva", u)
      BY <1>34, Zenon DEF B!Reactivar
    <3>2. "reactiva" \in {"otro", "elimina", "reactiva"} /\ u \in Usuarios \cup {""}
      OBVIOUS
    <3> QED BY <3>1, <3>2, Anotaciones
  <2> QED BY <2>1, <2>2, <2>3 DEF Esquema, Tablas, B!EnTabla, B!HistorialIntacto, Igual, Esquematiza, Anotado
<1> QED BY <1>1, <1>2, <1>3, <1>4, <1>5, <1>6, <1>7, <1>8, <1>9, <1>10, <1>11, <1>12, <1>13,
           <1>14, <1>15, <1>16, <1>17, <1>18, <1>19, <1>20, <1>21, <1>22, <1>23, <1>24, <1>25,
           <1>26, <1>27, <1>28, <1>29, <1>30, <1>31, <1>32, <1>33, <1>34 DEF B!Next

\* Users keep what identifies them, and nobody eliminated comes back.
Conserva == \A u \in Usuarios : Sigue(u) /\ (~usuarios'[u].eliminado => ~usuarios[u].eliminado)

\* While the index stays, users who keep what identifies them keep it satisfied.
LEMMA IndicesEstables ==
  ASSUME Indices, Conserva, base'.indices = base.indices, cuentas'.anterior = cuentas.anterior,
         base.indices = {} => paso' \in SinIndice
  PROVE  Indices'
<1>1. B!Vigentes' \subseteq B!Vigentes
  BY DEF Conserva, Sigue, B!Vigentes
<1>2. \A u \in Usuarios : usuarios'[u].alta = usuarios[u].alta /\ usuarios'[u].grafia = usuarios[u].grafia
  BY DEF Conserva, Sigue
<1> HIDE DEF B!Vigentes
<1>3. /\ "viejo" \in base.indices => \A u, w \in Usuarios :
          usuarios'[u].alta /\ usuarios'[w].alta /\ usuarios'[u].grafia = usuarios'[w].grafia => u = w
      /\ base.indices = {} => \A u \in Usuarios : ~usuarios'[u].alta
  BY <1>2 DEF Indices
<1> QED BY <1>1, <1>3 DEF Indices

\* Every step keeps what the index on the address keeps out.
LEMMA IndicesPaso ==
  ASSUME TiposBase, Indices, B!Next
  PROVE  Indices'
<1>0. cuentas \in Contadores
  BY DEF TiposBase
<1>1. CASE B!Conectar
  <2>1. paso = "apagada" /\ paso' = "sesiones"
    BY <1>1 DEF B!Conectar, B!Da, B!Fin, B!Escritura
  <2>2. Igual
    BY <1>1, Efectos, Zenon
  <2>3. cuentas'.anterior = cuentas.anterior
    <3>1. cuentas' = cuentas \/ cuentas' = [cuentas EXCEPT !.escrituras = cuentas.escrituras + 1]
      BY <1>1 DEF B!Conectar, B!Escritura
    <3> QED BY <1>0, <3>1 DEF Contadores
  <2>4. Conserva
    <3>1. usuarios' = usuarios
      BY <1>1, Zenon DEF B!Conectar, B!SoloBase, B!SoloPaso, B!Escritura
    <3> QED BY <3>1 DEF Conserva, Sigue
  <2>5. base'.indices = base.indices /\ (base.indices = {} => paso' \in SinIndice)
    BY <2>1, <2>2 DEF Indices, SinIndice, Antes, Igual, Esquematiza
  <2> QED BY <2>3, <2>4, <2>5, IndicesEstables
<1>2. CASE B!MigrarSesiones
  BY <1>2, Efectos, IndicesEstables DEF Indices, SinIndice, Antes, Conserva, Sigue, Igual,
                                        Esquematiza, B!MigrarSesiones, B!Da, B!Fin, B!SoloBase,
                                        B!SoloPaso
<1>3. CASE B!AutoMigrar
  BY <1>3, Efectos, IndicesEstables DEF Indices, SinIndice, Antes, Conserva, Sigue, Igual,
                                        Esquematiza, B!AutoMigrar, B!Da, B!Fin, B!SoloBase,
                                        B!SoloPaso
<1>4. CASE B!MirarAuditoria
  BY <1>4, Efectos, IndicesEstables DEF Indices, SinIndice, Antes, Conserva, Sigue, Igual,
                                        Esquematiza, B!MirarAuditoria, B!Da, B!Fin, B!SoloBase,
                                        B!SoloPaso
<1>5. CASE B!QuitarRemanente
  <2>1. paso = "remanente" /\ paso' = "crear"
    BY <1>5 DEF B!QuitarRemanente, B!Da, B!Fin, B!Escritura
  <2>2. Esquematiza("no", base.legacy, base.particiones, base.preparado, base.indices)
    BY <1>5, Efectos, Zenon
  <2>3. cuentas'.anterior = cuentas.anterior
    BY <1>5, Zenon DEF B!QuitarRemanente, B!SoloBase, B!SoloPaso, B!Escritura
  <2>4. Conserva
    <3>1. usuarios' = usuarios
      BY <1>5, Zenon DEF B!QuitarRemanente, B!SoloBase, B!SoloPaso, B!Escritura
    <3> QED BY <3>1 DEF Conserva, Sigue
  <2>5. base'.indices = base.indices /\ (base.indices = {} => paso' \in SinIndice)
    BY <2>1, <2>2 DEF Indices, SinIndice, Antes, Igual, Esquematiza
  <2> QED BY <2>3, <2>4, <2>5, IndicesEstables
<1>6. CASE B!Renombrar
  <2>1. paso = "renombrar" /\ paso' = "crear"
    BY <1>6 DEF B!Renombrar, B!Da, B!Fin, B!Escritura
  <2>2. Esquematiza("no", TRUE, base.particiones, base.preparado, base.indices)
    BY <1>6, Efectos, Zenon
  <2>3. cuentas'.anterior = cuentas.anterior
    BY <1>6, Zenon DEF B!Renombrar, B!SoloBase, B!SoloPaso, B!Escritura
  <2>4. Conserva
    <3>1. usuarios' = usuarios
      BY <1>6, Zenon DEF B!Renombrar, B!SoloBase, B!SoloPaso, B!Escritura
    <3> QED BY <3>1 DEF Conserva, Sigue
  <2>5. base'.indices = base.indices /\ (base.indices = {} => paso' \in SinIndice)
    BY <2>1, <2>2 DEF Indices, SinIndice, Antes, Igual, Esquematiza
  <2> QED BY <2>3, <2>4, <2>5, IndicesEstables
<1>7. CASE B!CrearMadre
  BY <1>7, Efectos, IndicesEstables DEF Indices, SinIndice, Antes, Conserva, Sigue, Igual,
                                        Esquematiza, B!CrearMadre, B!Da, B!Fin, B!SoloBase,
                                        B!SoloPaso
<1>8. CASE B!CrearFijas
  BY <1>8, Efectos, IndicesEstables DEF Indices, SinIndice, Antes, Conserva, Sigue, Igual,
                                        Esquematiza, B!CrearFijas, B!Da, B!Fin, B!SoloBase,
                                        B!SoloPaso
<1>9. CASE B!CrearOmision
  BY <1>9, Efectos, IndicesEstables DEF Indices, SinIndice, Antes, Conserva, Sigue, Igual,
                                        Esquematiza, B!CrearOmision, B!Da, B!Fin, B!SoloBase,
                                        B!SoloPaso
<1>10. CASE B!Volcar
  <2>1. paso = "volcar" /\ paso' = "actual"
    BY <1>10 DEF B!Volcar, B!Da, B!Fin, B!Escritura
  <2>2. Esquematiza(base.auditoria, FALSE, base.particiones, base.preparado, base.indices)
    BY <1>10, Efectos, Zenon
  <2>3. cuentas'.anterior = cuentas.anterior
    BY <1>10, Zenon DEF B!Volcar, B!SoloBase, B!SoloPaso, B!Escritura
  <2>4. Conserva
    <3>1. usuarios' = usuarios
      BY <1>10, Zenon DEF B!Volcar, B!SoloBase, B!SoloPaso, B!Escritura
    <3> QED BY <3>1 DEF Conserva, Sigue
  <2>5. base'.indices = base.indices /\ (base.indices = {} => paso' \in SinIndice)
    BY <2>1, <2>2 DEF Indices, SinIndice, Antes, Igual, Esquematiza
  <2> QED BY <2>3, <2>4, <2>5, IndicesEstables
<1>11. CASE B!AsegurarActual
  <2>1. paso = "actual" /\ paso' \in {"siguiente", "apagada"}
    BY <1>11 DEF B!AsegurarActual, B!Da, B!Fin, B!Escritura
  <2>2. (paso' = "siguiente" /\
         Esquematiza(base.auditoria, base.legacy, base.particiones \cup {trimestre}, base.preparado, base.indices)) \/
          (paso' # "siguiente" /\ Igual)
    BY <1>11, Efectos, Zenon
  <2>3. cuentas'.anterior = cuentas.anterior
    BY <1>11, Zenon DEF B!AsegurarActual, B!SoloBase, B!SoloPaso, B!Escritura
  <2>4. Conserva
    <3>1. usuarios' = usuarios
      BY <1>11, Zenon DEF B!AsegurarActual, B!SoloBase, B!SoloPaso, B!Escritura
    <3> QED BY <3>1 DEF Conserva, Sigue
  <2>5. base'.indices = base.indices /\ (base.indices = {} => paso' \in SinIndice)
    BY <2>1, <2>2 DEF Indices, SinIndice, Antes, Igual, Esquematiza
  <2> QED BY <2>3, <2>4, <2>5, IndicesEstables
<1>12. CASE B!AsegurarSiguiente
  BY <1>12, Efectos, IndicesEstables DEF Indices, SinIndice, Antes, Conserva, Sigue, Igual,
                                         Esquematiza, B!AsegurarSiguiente, B!Da, B!Fin,
                                         B!SoloBase, B!SoloPaso
<1>13. CASE B!Clasificar
  <2>1. paso = "clasificar" /\ paso' = "check"
    BY <1>13 DEF B!Clasificar, B!Da, B!Fin, B!Escritura
  <2>2. Igual
    BY <1>13, Efectos, Zenon
  <2>3. cuentas'.anterior = cuentas.anterior
    BY <1>13, Zenon DEF B!Clasificar, B!SoloBase, B!SoloPaso, B!Escritura
  <2>4. Conserva
    BY <1>13, Usuarias DEF Conserva, Sigue
  <2>5. base'.indices = base.indices /\ (base.indices = {} => paso' \in SinIndice)
    BY <2>1, <2>2 DEF Indices, SinIndice, Antes, Igual, Esquematiza
  <2> QED BY <2>3, <2>4, <2>5, IndicesEstables
<1>14. CASE B!AsegurarCheck
  BY <1>14, Efectos, IndicesEstables DEF Indices, SinIndice, Antes, Conserva, Sigue, Igual,
                                         Esquematiza, B!AsegurarCheck, B!Da, B!Fin, B!SoloBase,
                                         B!SoloPaso
<1>15. CASE B!MirarCorreos
  <2>1. paso = "correos" /\ paso' \in {"trigger", "indice"}
    BY <1>15 DEF B!MirarCorreos, B!Da, B!Fin, B!Escritura
  <2>2. Igual
    BY <1>15, Efectos, Zenon
  <2>3. cuentas'.anterior = cuentas.anterior
    BY <1>15, Zenon DEF B!MirarCorreos, B!SoloBase, B!SoloPaso, B!Escritura
  <2>4. Conserva
    <3>1. usuarios' = usuarios
      BY <1>15, Zenon DEF B!MirarCorreos, B!SoloBase, B!SoloPaso, B!Escritura
    <3> QED BY <3>1 DEF Conserva, Sigue
  <2>5. paso' = "trigger" => base.indices # {}
    BY <1>15 DEF B!MirarCorreos, B!Da, B!Repetidos, B!Vigentes, Indices
  <2>6. base'.indices = base.indices /\ (base.indices = {} => paso' \in SinIndice)
    BY <2>1, <2>2, <2>5 DEF SinIndice, Antes, Igual, Esquematiza
  <2> QED BY <2>3, <2>4, <2>6, IndicesEstables
<1>16. CASE B!ReemplazarIndice
  <2>1. paso = "indice" /\ paso' \in {"trigger", "apagada"}
    BY <1>16 DEF B!ReemplazarIndice, B!Da, B!Fin, B!Escritura
  <2>2. (paso' = "trigger" /\
         Esquematiza(base.auditoria, base.legacy, base.particiones, base.preparado, {"parcial"})) \/
          (paso' # "trigger" /\ Igual)
    BY <1>16, Efectos, Zenon
  <2>3. cuentas'.anterior = cuentas.anterior
    BY <1>16, Zenon DEF B!ReemplazarIndice, B!SoloBase, B!SoloPaso, B!Escritura
  <2>4. Conserva
    <3>1. usuarios' = usuarios
      BY <1>16, Zenon DEF B!ReemplazarIndice, B!SoloBase, B!SoloPaso, B!Escritura
    <3> QED BY <3>1 DEF Conserva, Sigue
  <2>5. paso' = "trigger" => ~B!Repetidos
    BY <1>16 DEF B!ReemplazarIndice, B!Da
  <2> QED BY <2>1, <2>2, <2>3, <2>4, <2>5
        DEF Indices, Conserva, Sigue, B!Vigentes, SinIndice, Antes, Igual, Esquematiza, B!Repetidos
<1>17. CASE B!CrearTrigger
  BY <1>17, Efectos, IndicesEstables DEF Indices, SinIndice, Antes, Conserva, Sigue, Igual,
                                         Esquematiza, B!CrearTrigger, B!Da, B!Fin, B!SoloBase,
                                         B!SoloPaso
<1>18. CASE B!Normalizar
  <2>1. paso = "vocabulario" /\ paso' = "revocar"
    BY <1>18 DEF B!Normalizar, B!Da, B!Fin, B!Escritura
  <2>2. Igual
    BY <1>18, Efectos, Zenon
  <2>3. cuentas'.anterior = cuentas.anterior
    BY <1>18, Zenon DEF B!Normalizar, B!SoloBase, B!SoloPaso, B!Escritura
  <2>4. Conserva
    <3>1. usuarios' = usuarios
      BY <1>18, Zenon DEF B!Normalizar, B!SoloBase, B!SoloPaso, B!Escritura
    <3> QED BY <3>1 DEF Conserva, Sigue
  <2>5. base'.indices = base.indices /\ (base.indices = {} => paso' \in SinIndice)
    BY <2>1, <2>2 DEF Indices, SinIndice, Antes, Igual, Esquematiza
  <2> QED BY <2>3, <2>4, <2>5, IndicesEstables
<1>19. CASE B!Revocar
  BY <1>19, Efectos, IndicesEstables DEF Indices, SinIndice, Antes, Conserva, Sigue, Igual,
                                         Esquematiza, B!Revocar, B!Da, B!Fin, B!SoloBase,
                                         B!SoloPaso
<1>20. CASE B!ContarUsuarios
  BY <1>20, Efectos, IndicesEstables DEF Indices, SinIndice, Antes, Conserva, Sigue, Igual,
                                         Esquematiza, B!ContarUsuarios, B!Da, B!Fin, B!SoloBase,
                                         B!SoloPaso
<1>21. CASE B!CrearOrganizacion
  BY <1>21, Efectos, IndicesEstables DEF Indices, SinIndice, Antes, Conserva, Sigue, Igual,
                                         Esquematiza, B!CrearOrganizacion, B!Da, B!Fin,
                                         B!SoloBase, B!SoloPaso
<1>22. CASE B!CrearAdmin
  BY <1>22, Efectos, IndicesEstables DEF Indices, SinIndice, Antes, Conserva, Sigue, Igual,
                                         Esquematiza, B!CrearAdmin, B!Da, B!Fin, B!SoloBase,
                                         B!SoloPaso
<1>23. CASE B!AsignarCreador
  BY <1>23, Efectos, IndicesEstables DEF Indices, SinIndice, Antes, Conserva, Sigue, Igual,
                                         Esquematiza, B!AsignarCreador, B!Da, B!Fin, B!SoloBase,
                                         B!SoloPaso
<1>24. CASE B!BuscarOrganizacion
  <2>1. paso = "semilla" /\ paso' = "correo"
    BY <1>24 DEF B!BuscarOrganizacion, B!Da, B!Fin, B!Escritura
  <2>2. Igual
    BY <1>24, Efectos, Zenon
  <2>3. cuentas'.anterior = cuentas.anterior
    BY <1>24, Zenon DEF B!BuscarOrganizacion, B!SoloBase, B!SoloPaso, B!Escritura
  <2>4. Conserva
    <3>1. usuarios' = usuarios
      BY <1>24, Zenon DEF B!BuscarOrganizacion, B!SoloBase, B!SoloPaso, B!Escritura
    <3> QED BY <3>1 DEF Conserva, Sigue
  <2>5. base'.indices = base.indices /\ (base.indices = {} => paso' \in SinIndice)
    BY <2>1, <2>2 DEF Indices, SinIndice, Antes, Igual, Esquematiza
  <2> QED BY <2>3, <2>4, <2>5, IndicesEstables
<1>25. CASE B!VerificarCorreo
  <2>1. paso = "correo" /\ paso' \in {"apagada", "sembrar"}
    BY <1>25 DEF B!VerificarCorreo, B!Da, B!Fin, B!Escritura
  <2>2. Igual
    BY <1>25, Efectos, Zenon
  <2>3. cuentas'.anterior = cuentas.anterior
    BY <1>25, Zenon DEF B!VerificarCorreo, B!SoloBase, B!SoloPaso, B!Escritura
  <2>4. Conserva
    <3>1. usuarios' = usuarios
      BY <1>25, Zenon DEF B!VerificarCorreo, B!SoloBase, B!SoloPaso, B!Escritura
    <3> QED BY <3>1 DEF Conserva, Sigue
  <2>5. base'.indices = base.indices /\ (base.indices = {} => paso' \in SinIndice)
    BY <2>1, <2>2 DEF Indices, SinIndice, Antes, Igual, Esquematiza
  <2> QED BY <2>3, <2>4, <2>5, IndicesEstables
<1>26. CASE B!Sembrar
  <2>1. paso = "sembrar" /\ paso' \in {"apagada", "creador"}
    BY <1>26 DEF B!Sembrar, B!Da, B!Fin, B!Escritura
  <2>2. Igual
    BY <1>26, Efectos, Zenon
  <2>3. cuentas'.anterior = cuentas.anterior
    BY <1>26, Zenon DEF B!Sembrar, B!SoloBase, B!SoloPaso, B!Escritura
  <2>4. usuarios' = usuarios \/ \E u \in Usuarios : Recien(u, semilla.grafia)
    BY <1>26, Usuarias, Zenon
  <2>5. base.indices # {}
    BY <2>1 DEF Indices, SinIndice, Antes
  <2>6. CASE usuarios' = usuarios
    BY <2>1, <2>2, <2>3, <2>5, <2>6 DEF Indices, B!Vigentes, Igual, Esquematiza
  <2>7. CASE \E u \in Usuarios : Recien(u, semilla.grafia)
    BY <2>1, <2>2, <2>3, <2>5, <2>7 DEF Indices, B!Vigentes, Recien, Cambiado, B!Admite, Igual, Esquematiza
  <2> QED BY <2>4, <2>6, <2>7
<1>27. CASE B!PonerCreador
  BY <1>27, Efectos, IndicesEstables DEF Indices, SinIndice, Antes, Conserva, Sigue, Igual,
                                         Esquematiza, B!PonerCreador, B!Da, B!Fin, B!SoloBase,
                                         B!SoloPaso
<1>28. CASE B!Caer
  <2>1. paso # "apagada" /\ paso' = "apagada"
    BY <1>28 DEF B!Caer, B!Da, B!Fin, B!Escritura
  <2>2. Igual
    BY <1>28, Efectos, Zenon
  <2>3. cuentas'.anterior = cuentas.anterior
    <3>1. cuentas' = cuentas \/ cuentas' = [cuentas EXCEPT !.caidas = cuentas.caidas + 1]
      BY <1>28 DEF B!Caer, B!Escritura
    <3> QED BY <1>0, <3>1 DEF Contadores
  <2>4. Conserva
    <3>1. usuarios' = usuarios
      BY <1>28, Zenon DEF B!Caer, B!SoloBase, B!SoloPaso, B!Escritura
    <3> QED BY <3>1 DEF Conserva, Sigue
  <2>5. base'.indices = base.indices /\ (base.indices = {} => paso' \in SinIndice)
    BY <2>1, <2>2 DEF Indices, SinIndice, Antes, Igual, Esquematiza
  <2> QED BY <2>3, <2>4, <2>5, IndicesEstables
<1>29. CASE B!PasaTrimestre
  <2>1. paso' = paso
    BY <1>29 DEF B!PasaTrimestre, B!Da, B!Fin, B!Escritura
  <2>2. Igual
    BY <1>29, Efectos, Zenon
  <2>3. cuentas'.anterior = cuentas.anterior
    BY <1>29, Zenon DEF B!PasaTrimestre, B!SoloBase, B!SoloPaso, B!Escritura
  <2>4. Conserva
    <3>1. usuarios' = usuarios
      BY <1>29, Zenon DEF B!PasaTrimestre, B!SoloBase, B!SoloPaso, B!Escritura
    <3> QED BY <3>1 DEF Conserva, Sigue
  <2>5. base'.indices = base.indices /\ (base.indices = {} => paso' \in SinIndice)
    BY <2>1, <2>2 DEF Indices, SinIndice, Antes, Igual, Esquematiza
  <2> QED BY <2>3, <2>4, <2>5, IndicesEstables
<1>30. ASSUME NEW v \in B!Escriben, B!Registrar(v) PROVE Indices'
  <2>1. paso' = paso
    BY <1>30 DEF B!Registrar, B!Da, B!Fin, B!Escritura
  <2>2. Igual
    BY <1>30, Efectos, Zenon
  <2>3. cuentas'.anterior = cuentas.anterior
    <3>1. cuentas' = cuentas \/ cuentas' = [cuentas EXCEPT !.escrituras = cuentas.escrituras + 1]
      BY <1>30 DEF B!Registrar, B!Escritura
    <3> QED BY <1>0, <3>1 DEF Contadores
  <2>4. Conserva
    <3>1. usuarios' = usuarios
      BY <1>30, Zenon DEF B!Registrar, B!SoloBase, B!SoloPaso, B!Escritura
    <3> QED BY <3>1 DEF Conserva, Sigue
  <2>5. base'.indices = base.indices /\ (base.indices = {} => paso' \in SinIndice)
    BY <2>1, <2>2 DEF Indices, SinIndice, Antes, Igual, Esquematiza
  <2> QED BY <2>3, <2>4, <2>5, IndicesEstables
<1>31. ASSUME NEW u \in Usuarios, B!Escriben # {}, B!CrearUsuario(u) PROVE Indices'
  <2>1. paso' = paso
    BY <1>31 DEF B!CrearUsuario, B!Da, B!Fin, B!Escritura
  <2>2. Igual
    BY <1>31, Efectos, Zenon
  <2>3. cuentas'.anterior = cuentas.anterior
    <3>1. cuentas' = cuentas \/ cuentas' = [cuentas EXCEPT !.escrituras = cuentas.escrituras + 1]
      BY <1>31 DEF B!CrearUsuario, B!Escritura
    <3> QED BY <1>0, <3>1 DEF Contadores
  <2>4. \E g \in Grafias : Recien(u, g)
    BY <1>31, Usuarias, Zenon
  <2>5. base.indices # {}
    BY <1>31 DEF Indices, B!Escriben, SinIndice, Antes
  <2> QED BY <2>1, <2>2, <2>3, <2>4, <2>5
        DEF Indices, B!Vigentes, Recien, Cambiado, B!Admite, Igual, Esquematiza
<1>32. ASSUME NEW v \in B!Escriben, NEW u \in Usuarios, B!Eliminar(v, u) PROVE Indices'
  <2>1. paso' = paso
    BY <1>32 DEF B!Eliminar, B!Da, B!Fin, B!Escritura
  <2>2. Igual
    BY <1>32, Efectos, Zenon
  <2>3. cuentas'.anterior = cuentas.anterior
    <3>1. cuentas' = cuentas \/ cuentas' = [cuentas EXCEPT !.escrituras = cuentas.escrituras + 1]
      BY <1>32 DEF B!Eliminar, B!Escritura
    <3> QED BY <1>0, <3>1 DEF Contadores
  <2>4. Conserva
    <3>1. Cambiado(u) /\ Sigue(u) /\ (~usuarios'[u].eliminado => ~usuarios[u].eliminado)
      BY <1>32, Usuarias
    <3> QED BY <3>1 DEF Conserva, Cambiado, Sigue
  <2>5. base'.indices = base.indices /\ (base.indices = {} => paso' \in SinIndice)
    BY <2>1, <2>2 DEF Indices, SinIndice, Antes, Igual, Esquematiza
  <2> QED BY <2>3, <2>4, <2>5, IndicesEstables
<1>33. ASSUME NEW u \in Usuarios, B!Escriben # {}, B!Suspender(u) PROVE Indices'
  <2>1. paso' = paso
    BY <1>33 DEF B!Suspender, B!Da, B!Fin, B!Escritura
  <2>2. Igual
    BY <1>33, Efectos, Zenon
  <2>3. cuentas'.anterior = cuentas.anterior
    <3>1. cuentas' = cuentas \/ cuentas' = [cuentas EXCEPT !.escrituras = cuentas.escrituras + 1]
      BY <1>33 DEF B!Suspender, B!Escritura
    <3> QED BY <1>0, <3>1 DEF Contadores
  <2>4. Conserva
    <3>1. Cambiado(u) /\ Sigue(u) /\ (~usuarios'[u].eliminado => ~usuarios[u].eliminado)
      BY <1>33, Usuarias
    <3> QED BY <3>1 DEF Conserva, Cambiado, Sigue
  <2>5. base'.indices = base.indices /\ (base.indices = {} => paso' \in SinIndice)
    BY <2>1, <2>2 DEF Indices, SinIndice, Antes, Igual, Esquematiza
  <2> QED BY <2>3, <2>4, <2>5, IndicesEstables
<1>34. ASSUME NEW v \in B!Escriben, NEW u \in Usuarios, B!Reactivar(v, u) PROVE Indices'
  <2>1. paso' = paso
    BY <1>34 DEF B!Reactivar, B!Da, B!Fin, B!Escritura
  <2>2. Igual
    BY <1>34, Efectos, Zenon
  <2>3. cuentas'.anterior = cuentas.anterior
    <3>1. cuentas' = cuentas \/ cuentas' = [cuentas EXCEPT !.escrituras = cuentas.escrituras + 1]
      BY <1>34 DEF B!Reactivar, B!Escritura
    <3> QED BY <1>0, <3>1 DEF Contadores
  <2>4. Conserva
    <3>1. Cambiado(u) /\ Sigue(u) /\ (~usuarios'[u].eliminado => ~usuarios[u].eliminado)
      BY <1>34, Usuarias
    <3> QED BY <3>1 DEF Conserva, Cambiado, Sigue
  <2>5. base'.indices = base.indices /\ (base.indices = {} => paso' \in SinIndice)
    BY <2>1, <2>2 DEF Indices, SinIndice, Antes, Igual, Esquematiza
  <2> QED BY <2>3, <2>4, <2>5, IndicesEstables
<1> QED BY <1>1, <1>2, <1>3, <1>4, <1>5, <1>6, <1>7, <1>8, <1>9, <1>10, <1>11, <1>12, <1>13,
           <1>14, <1>15, <1>16, <1>17, <1>18, <1>19, <1>20, <1>21, <1>22, <1>23, <1>24, <1>25,
           <1>26, <1>27, <1>28, <1>29, <1>30, <1>31, <1>32, <1>33, <1>34 DEF B!Next

\* Moving the records, and changing users who stay deleted, undoes no deletion.
LEMMA BajasEstables ==
  ASSUME TiposBase, Bajas, cuentas'.escrituras \in Nat, cuentas.escrituras <= cuentas'.escrituras,
         \A f \in registros' : \E e \in registros : Copia(e, f),
         \A e \in registros : \E f \in registros' : Copia(e, f),
         \A u \in Usuarios : usuarios[u].alta =>
           /\ usuarios'[u].alta
           /\ usuarios[u].borrado \/ ~usuarios[u].rastro => usuarios'[u].borrado \/ ~usuarios'[u].rastro
  PROVE  Bajas'
<1> SUFFICES ASSUME NEW f \in registros'
             PROVE  /\ f.n <= cuentas'.escrituras
                    /\ f.tipo # "otro" => f.u \in Usuarios /\ usuarios'[f.u].alta
                    /\ f.tipo = "elimina" => usuarios'[f.u].borrado \/ ~usuarios'[f.u].rastro \/ Deshecha(f)'
  BY DEF Bajas
<1>1. PICK e \in registros : Copia(e, f)
  OBVIOUS
<1>2. e.n \in Nat /\ cuentas.escrituras \in Nat
  BY DEF TiposBase, Registros, Contadores
<1>3. f.n <= cuentas'.escrituras
  BY <1>1, <1>2 DEF Bajas, Copia
<1>4. f.tipo # "otro" => f.u \in Usuarios /\ usuarios[f.u].alta /\ usuarios'[f.u].alta
  BY <1>1 DEF Bajas, Copia
<1>5. Deshecha(e) => Deshecha(f)'
  BY <1>1 DEF Deshecha, Copia
<1>6. f.tipo = "elimina" => usuarios[f.u].borrado \/ ~usuarios[f.u].rastro \/ Deshecha(e)
  BY <1>1 DEF Bajas, Copia
<1> QED BY <1>3, <1>4, <1>5, <1>6

\* Every user there was stays, and stays deleted unless a reactivation left
\* its record.
Perdura == \A u \in Usuarios : usuarios[u].alta =>
  /\ usuarios'[u].alta
  /\ usuarios[u].borrado \/ ~usuarios[u].rastro => usuarios'[u].borrado \/ ~usuarios'[u].rastro

\* The same with one record more.
LEMMA BajasMas ==
  ASSUME TiposBase, Bajas, cuentas'.escrituras = cuentas.escrituras + 1, Perdura,
         NEW e, registros' = registros \cup {e}, e.n = cuentas.escrituras + 1,
         e.tipo # "otro" => e.u \in Usuarios /\ usuarios'[e.u].alta,
         e.tipo = "elimina" => usuarios'[e.u].borrado
  PROVE  Bajas'
<1> SUFFICES ASSUME NEW f \in registros'
             PROVE  /\ f.n <= cuentas'.escrituras
                    /\ f.tipo # "otro" => f.u \in Usuarios /\ usuarios'[f.u].alta
                    /\ f.tipo = "elimina" => usuarios'[f.u].borrado \/ ~usuarios'[f.u].rastro \/ Deshecha(f)'
  BY DEF Bajas
<1>0. cuentas.escrituras \in Nat
  BY DEF TiposBase, Contadores
<1>1. CASE f = e
  BY <1>0, <1>1
<1>2. CASE f \in registros
  <2>1. f.n \in Nat /\ f.n <= cuentas.escrituras /\ (f.tipo # "otro" => f.u \in Usuarios /\ usuarios[f.u].alta)
    BY <1>2 DEF Bajas, TiposBase, Registros
  <2>2. f.n <= cuentas'.escrituras
    BY <1>0, <2>1
  <2>3. Deshecha(f) => Deshecha(f)'
    BY DEF Deshecha
  <2>4. f.tipo = "elimina" => usuarios[f.u].borrado \/ ~usuarios[f.u].rastro \/ Deshecha(f)
    BY <1>2 DEF Bajas
  <2> QED BY <2>1, <2>2, <2>3, <2>4 DEF Perdura
<1> QED BY <1>1, <1>2

\* Every step keeps the account of the deletions.
LEMMA BajasPaso ==
  ASSUME TiposBase, Bajas, B!Next
  PROVE  Bajas'
<1>0. cuentas \in Contadores /\ cuentas.escrituras \in Nat
  BY DEF TiposBase, Contadores
<1>1. CASE B!Conectar
  <2>1. cuentas'.escrituras \in {cuentas.escrituras, cuentas.escrituras + 1}
    <3>1. cuentas' = cuentas \/ cuentas' = [cuentas EXCEPT !.escrituras = cuentas.escrituras + 1]
      BY <1>1 DEF B!Conectar, B!Escritura
    <3> QED BY <1>0, <3>1 DEF Contadores
  <2>2. Perdura
    <3>1. usuarios' = usuarios
      BY <1>1, Zenon DEF B!Conectar, B!SoloBase, B!SoloPaso, B!Escritura
    <3> QED BY <3>1 DEF Perdura
  <2>3. registros' = registros
    BY <1>1, Zenon DEF B!Conectar, B!SoloBase, B!SoloPaso, B!Escritura
  <2>4. /\ \A f \in registros' : \E e \in registros : Copia(e, f)
        /\ \A e \in registros : \E f \in registros' : Copia(e, f)
    BY <2>3 DEF Copia
  <2> QED BY <1>0, <2>1, <2>2, <2>4, BajasEstables DEF Perdura
<1>2. CASE B!MigrarSesiones
  BY <1>2, <1>0, BajasEstables DEF Copia, B!MigrarSesiones, B!SoloBase, B!SoloPaso
<1>3. CASE B!AutoMigrar
  BY <1>3, <1>0, BajasEstables DEF Copia, B!AutoMigrar, B!SoloBase, B!SoloPaso
<1>4. CASE B!MirarAuditoria
  BY <1>4, <1>0, BajasEstables DEF Copia, B!MirarAuditoria, B!SoloBase, B!SoloPaso
<1>5. CASE B!QuitarRemanente
  <2>1. cuentas'.escrituras \in {cuentas.escrituras, cuentas.escrituras + 1}
    BY <1>5, Zenon DEF B!QuitarRemanente, B!SoloBase, B!SoloPaso, B!Escritura
  <2>2. Perdura
    <3>1. usuarios' = usuarios
      BY <1>5, Zenon DEF B!QuitarRemanente, B!SoloBase, B!SoloPaso, B!Escritura
    <3> QED BY <3>1 DEF Perdura
  <2>3. Traslado("auditoria", "perdido")
    BY <1>5, Traslados, Zenon
  <2>4. /\ \A f \in registros' : \E e \in registros : Copia(e, f)
        /\ \A e \in registros : \E f \in registros' : Copia(e, f)
    BY <2>3 DEF Traslado
  <2> QED BY <1>0, <2>1, <2>2, <2>4, BajasEstables DEF Perdura
<1>6. CASE B!Renombrar
  <2>1. cuentas'.escrituras \in {cuentas.escrituras, cuentas.escrituras + 1}
    BY <1>6, Zenon DEF B!Renombrar, B!SoloBase, B!SoloPaso, B!Escritura
  <2>2. Perdura
    <3>1. usuarios' = usuarios
      BY <1>6, Zenon DEF B!Renombrar, B!SoloBase, B!SoloPaso, B!Escritura
    <3> QED BY <3>1 DEF Perdura
  <2>3. Traslado("auditoria", "legacy")
    BY <1>6, Traslados, Zenon
  <2>4. /\ \A f \in registros' : \E e \in registros : Copia(e, f)
        /\ \A e \in registros : \E f \in registros' : Copia(e, f)
    BY <2>3 DEF Traslado
  <2> QED BY <1>0, <2>1, <2>2, <2>4, BajasEstables DEF Perdura
<1>7. CASE B!CrearMadre
  BY <1>7, <1>0, BajasEstables DEF Copia, B!CrearMadre, B!SoloBase, B!SoloPaso
<1>8. CASE B!CrearFijas
  BY <1>8, <1>0, BajasEstables DEF Copia, B!CrearFijas, B!SoloBase, B!SoloPaso
<1>9. CASE B!CrearOmision
  BY <1>9, <1>0, BajasEstables DEF Copia, B!CrearOmision, B!SoloBase, B!SoloPaso
<1>10. CASE B!Volcar
  <2>1. cuentas'.escrituras \in {cuentas.escrituras, cuentas.escrituras + 1}
    BY <1>10, Zenon DEF B!Volcar, B!SoloBase, B!SoloPaso, B!Escritura
  <2>2. Perdura
    <3>1. usuarios' = usuarios
      BY <1>10, Zenon DEF B!Volcar, B!SoloBase, B!SoloPaso, B!Escritura
    <3> QED BY <3>1 DEF Perdura
  <2>3. Traslado("legacy", "auditoria")
    BY <1>10, Traslados, Zenon
  <2>4. /\ \A f \in registros' : \E e \in registros : Copia(e, f)
        /\ \A e \in registros : \E f \in registros' : Copia(e, f)
    BY <2>3 DEF Traslado
  <2> QED BY <1>0, <2>1, <2>2, <2>4, BajasEstables DEF Perdura
<1>11. CASE B!AsegurarActual
  <2>1. cuentas'.escrituras \in {cuentas.escrituras, cuentas.escrituras + 1}
    BY <1>11, Zenon DEF B!AsegurarActual, B!SoloBase, B!SoloPaso, B!Escritura
  <2>2. Perdura
    <3>1. usuarios' = usuarios
      BY <1>11, Zenon DEF B!AsegurarActual, B!SoloBase, B!SoloPaso, B!Escritura
    <3> QED BY <3>1 DEF Perdura
  <2>3. registros' = registros
    BY <1>11, Zenon DEF B!AsegurarActual, B!SoloBase, B!SoloPaso, B!Escritura
  <2>4. /\ \A f \in registros' : \E e \in registros : Copia(e, f)
        /\ \A e \in registros : \E f \in registros' : Copia(e, f)
    BY <2>3 DEF Copia
  <2> QED BY <1>0, <2>1, <2>2, <2>4, BajasEstables DEF Perdura
<1>12. CASE B!AsegurarSiguiente
  BY <1>12, <1>0, BajasEstables DEF Copia, B!AsegurarSiguiente, B!SoloBase, B!SoloPaso
<1>13. CASE B!Clasificar
  <2>1. cuentas'.escrituras \in {cuentas.escrituras, cuentas.escrituras + 1}
    BY <1>13, Zenon DEF B!Clasificar, B!SoloBase, B!SoloPaso, B!Escritura
  <2>2. Perdura
    BY <1>13, Usuarias DEF Perdura, Sigue
  <2>3. registros' = registros
    BY <1>13, Zenon DEF B!Clasificar, B!SoloBase, B!SoloPaso, B!Escritura
  <2>4. /\ \A f \in registros' : \E e \in registros : Copia(e, f)
        /\ \A e \in registros : \E f \in registros' : Copia(e, f)
    BY <2>3 DEF Copia
  <2> QED BY <1>0, <2>1, <2>2, <2>4, BajasEstables DEF Perdura
<1>14. CASE B!AsegurarCheck
  BY <1>14, <1>0, BajasEstables DEF Copia, B!AsegurarCheck, B!SoloBase, B!SoloPaso
<1>15. CASE B!MirarCorreos
  BY <1>15, <1>0, BajasEstables DEF Copia, B!MirarCorreos, B!SoloBase, B!SoloPaso
<1>16. CASE B!ReemplazarIndice
  BY <1>16, <1>0, BajasEstables DEF Copia, B!ReemplazarIndice, B!SoloBase, B!SoloPaso
<1>17. CASE B!CrearTrigger
  BY <1>17, <1>0, BajasEstables DEF Copia, B!CrearTrigger, B!SoloBase, B!SoloPaso
<1>18. CASE B!Normalizar
  <2>1. cuentas'.escrituras \in {cuentas.escrituras, cuentas.escrituras + 1}
    BY <1>18, Zenon DEF B!Normalizar, B!SoloBase, B!SoloPaso, B!Escritura
  <2>2. Perdura
    <3>1. usuarios' = usuarios
      BY <1>18, Zenon DEF B!Normalizar, B!SoloBase, B!SoloPaso, B!Escritura
    <3> QED BY <3>1 DEF Perdura
  <2>3. Traslado("auditoria", "auditoria")
    BY <1>18, Traslados, Zenon
  <2>4. /\ \A f \in registros' : \E e \in registros : Copia(e, f)
        /\ \A e \in registros : \E f \in registros' : Copia(e, f)
    BY <2>3 DEF Traslado
  <2> QED BY <1>0, <2>1, <2>2, <2>4, BajasEstables DEF Perdura
<1>19. CASE B!Revocar
  BY <1>19, <1>0, BajasEstables DEF Copia, B!Revocar, B!SoloBase, B!SoloPaso
<1>20. CASE B!ContarUsuarios
  BY <1>20, <1>0, BajasEstables DEF Copia, B!ContarUsuarios, B!SoloBase, B!SoloPaso
<1>21. CASE B!CrearOrganizacion
  BY <1>21, <1>0, BajasEstables DEF Copia, B!CrearOrganizacion, B!SoloBase, B!SoloPaso
<1>22. CASE B!CrearAdmin
  BY <1>22, <1>0, BajasEstables DEF Copia, B!CrearAdmin, B!SoloBase, B!SoloPaso
<1>23. CASE B!AsignarCreador
  BY <1>23, <1>0, BajasEstables DEF Copia, B!AsignarCreador, B!SoloBase, B!SoloPaso
<1>24. CASE B!BuscarOrganizacion
  <2>1. cuentas'.escrituras \in {cuentas.escrituras, cuentas.escrituras + 1}
    BY <1>24, Zenon DEF B!BuscarOrganizacion, B!SoloBase, B!SoloPaso, B!Escritura
  <2>2. Perdura
    <3>1. usuarios' = usuarios
      BY <1>24, Zenon DEF B!BuscarOrganizacion, B!SoloBase, B!SoloPaso, B!Escritura
    <3> QED BY <3>1 DEF Perdura
  <2>3. registros' = registros
    BY <1>24, Zenon DEF B!BuscarOrganizacion, B!SoloBase, B!SoloPaso, B!Escritura
  <2>4. /\ \A f \in registros' : \E e \in registros : Copia(e, f)
        /\ \A e \in registros : \E f \in registros' : Copia(e, f)
    BY <2>3 DEF Copia
  <2> QED BY <1>0, <2>1, <2>2, <2>4, BajasEstables DEF Perdura
<1>25. CASE B!VerificarCorreo
  <2>1. cuentas'.escrituras \in {cuentas.escrituras, cuentas.escrituras + 1}
    BY <1>25, Zenon DEF B!VerificarCorreo, B!SoloBase, B!SoloPaso, B!Escritura
  <2>2. Perdura
    <3>1. usuarios' = usuarios
      BY <1>25, Zenon DEF B!VerificarCorreo, B!SoloBase, B!SoloPaso, B!Escritura
    <3> QED BY <3>1 DEF Perdura
  <2>3. registros' = registros
    BY <1>25, Zenon DEF B!VerificarCorreo, B!SoloBase, B!SoloPaso, B!Escritura
  <2>4. /\ \A f \in registros' : \E e \in registros : Copia(e, f)
        /\ \A e \in registros : \E f \in registros' : Copia(e, f)
    BY <2>3 DEF Copia
  <2> QED BY <1>0, <2>1, <2>2, <2>4, BajasEstables DEF Perdura
<1>26. CASE B!Sembrar
  <2>1. cuentas'.escrituras \in {cuentas.escrituras, cuentas.escrituras + 1}
    BY <1>26, Zenon DEF B!Sembrar, B!SoloBase, B!SoloPaso, B!Escritura
  <2>2. Perdura
    <3>1. usuarios' = usuarios \/ \E u \in Usuarios : Recien(u, semilla.grafia)
      BY <1>26, Usuarias, Zenon
    <3> QED BY <3>1 DEF Perdura, Recien, Cambiado
  <2>3. registros' = registros
    BY <1>26, Zenon DEF B!Sembrar, B!SoloBase, B!SoloPaso, B!Escritura
  <2>4. /\ \A f \in registros' : \E e \in registros : Copia(e, f)
        /\ \A e \in registros : \E f \in registros' : Copia(e, f)
    BY <2>3 DEF Copia
  <2> QED BY <1>0, <2>1, <2>2, <2>4, BajasEstables DEF Perdura
<1>27. CASE B!PonerCreador
  BY <1>27, <1>0, BajasEstables DEF Copia, B!PonerCreador, B!SoloBase, B!SoloPaso
<1>28. CASE B!Caer
  <2>1. cuentas'.escrituras \in {cuentas.escrituras, cuentas.escrituras + 1}
    <3>1. cuentas' = [cuentas EXCEPT !.caidas = cuentas.caidas + 1]
      BY <1>28 DEF B!Caer, B!Escritura
    <3> QED BY <1>0, <3>1 DEF Contadores
  <2>2. Perdura
    <3>1. usuarios' = usuarios
      BY <1>28, Zenon DEF B!Caer, B!SoloBase, B!SoloPaso, B!Escritura
    <3> QED BY <3>1 DEF Perdura
  <2>3. registros' = registros
    BY <1>28, Zenon DEF B!Caer, B!SoloBase, B!SoloPaso, B!Escritura
  <2>4. /\ \A f \in registros' : \E e \in registros : Copia(e, f)
        /\ \A e \in registros : \E f \in registros' : Copia(e, f)
    BY <2>3 DEF Copia
  <2> QED BY <1>0, <2>1, <2>2, <2>4, BajasEstables DEF Perdura
<1>29. CASE B!PasaTrimestre
  <2>1. cuentas'.escrituras \in {cuentas.escrituras, cuentas.escrituras + 1}
    BY <1>29, Zenon DEF B!PasaTrimestre, B!SoloBase, B!SoloPaso, B!Escritura
  <2>2. Perdura
    <3>1. usuarios' = usuarios
      BY <1>29, Zenon DEF B!PasaTrimestre, B!SoloBase, B!SoloPaso, B!Escritura
    <3> QED BY <3>1 DEF Perdura
  <2>3. registros' = registros
    BY <1>29, Zenon DEF B!PasaTrimestre, B!SoloBase, B!SoloPaso, B!Escritura
  <2>4. /\ \A f \in registros' : \E e \in registros : Copia(e, f)
        /\ \A e \in registros : \E f \in registros' : Copia(e, f)
    BY <2>3 DEF Copia
  <2> QED BY <1>0, <2>1, <2>2, <2>4, BajasEstables DEF Perdura
<1>30. ASSUME NEW v \in B!Escriben, B!Registrar(v) PROVE Bajas'
  <2>1. cuentas'.escrituras = cuentas.escrituras + 1
    <3>1. cuentas' = [cuentas EXCEPT !.escrituras = cuentas.escrituras + 1]
      BY <1>30 DEF B!Registrar, B!Escritura
    <3> QED BY <1>0, <3>1 DEF Contadores
  <2>2. \/ registros' = registros
        \/ B!Recibe /\ \E e : registros' = registros \cup {e} /\ Anotado(e, "otro", "")
    <3>1. B!Registra(v, "otro", "")
      BY <1>30, Zenon DEF B!Registrar
    <3>2. "otro" \in {"otro", "elimina", "reactiva"} /\ "" \in Usuarios \cup {""}
      OBVIOUS
    <3> QED BY <3>1, <3>2, Anotaciones
  <2>3. Perdura
    <3>1. usuarios' = usuarios
      BY <1>30, Zenon DEF B!Registrar, B!SoloBase, B!SoloPaso, B!Escritura
    <3> QED BY <3>1 DEF Perdura
  <2>4. CASE registros' = registros
    BY <1>0, <2>1, <2>3, <2>4, BajasEstables DEF Perdura, Copia
  <2>5. CASE \E e : registros' = registros \cup {e} /\ Anotado(e, "otro", "")
    BY <1>0, <2>1, <2>3, <2>5, BajasMas DEF Perdura, Anotado
  <2> QED BY <2>2, <2>4, <2>5
<1>31. ASSUME NEW u \in Usuarios, B!Escriben # {}, B!CrearUsuario(u) PROVE Bajas'
  <2>1. cuentas'.escrituras = cuentas.escrituras + 1
    <3>1. cuentas' = [cuentas EXCEPT !.escrituras = cuentas.escrituras + 1]
      BY <1>31 DEF B!CrearUsuario, B!Escritura
    <3> QED BY <1>0, <3>1 DEF Contadores
  <2>2. Perdura
    <3>1. \E g \in Grafias : Recien(u, g)
      BY <1>31, Usuarias, Zenon
    <3> QED BY <3>1 DEF Perdura, Recien, Cambiado
  <2>3. registros' = registros
    BY <1>31, Zenon DEF B!CrearUsuario, B!SoloBase, B!SoloPaso, B!Escritura
  <2>4. /\ \A f \in registros' : \E e \in registros : Copia(e, f)
        /\ \A e \in registros : \E f \in registros' : Copia(e, f)
    BY <2>3 DEF Copia
  <2> QED BY <1>0, <2>1, <2>2, <2>4, BajasEstables DEF Perdura
<1>32. ASSUME NEW v \in B!Escriben, NEW u \in Usuarios, B!Eliminar(v, u) PROVE Bajas'
  <2>1. cuentas'.escrituras = cuentas.escrituras + 1
    <3>1. cuentas' = [cuentas EXCEPT !.escrituras = cuentas.escrituras + 1]
      BY <1>32 DEF B!Eliminar, B!Escritura
    <3> QED BY <1>0, <3>1 DEF Contadores
  <2>2. Cambiado(u) /\ Sigue(u) /\ usuarios[u].alta /\ usuarios'[u].borrado
    BY <1>32, Usuarias
  <2>3. \/ registros' = registros
        \/ B!Recibe /\ \E e : registros' = registros \cup {e} /\ Anotado(e, "elimina", u)
    <3>1. B!Registra(v, "elimina", u)
      BY <1>32, Zenon DEF B!Eliminar
    <3>2. "elimina" \in {"otro", "elimina", "reactiva"} /\ u \in Usuarios \cup {""}
      OBVIOUS
    <3> QED BY <3>1, <3>2, Anotaciones
  <2>4. Perdura
    BY <2>2 DEF Perdura, Cambiado, Sigue
  <2>5. CASE registros' = registros
    BY <1>0, <2>1, <2>4, <2>5, BajasEstables DEF Perdura, Copia
  <2>6. CASE \E e : registros' = registros \cup {e} /\ Anotado(e, "elimina", u)
    BY <1>0, <2>1, <2>2, <2>4, <2>6, BajasMas DEF Perdura, Anotado, Sigue
  <2> QED BY <2>3, <2>5, <2>6
<1>33. ASSUME NEW u \in Usuarios, B!Escriben # {}, B!Suspender(u) PROVE Bajas'
  <2>1. cuentas'.escrituras = cuentas.escrituras + 1
    <3>1. cuentas' = [cuentas EXCEPT !.escrituras = cuentas.escrituras + 1]
      BY <1>33 DEF B!Suspender, B!Escritura
    <3> QED BY <1>0, <3>1 DEF Contadores
  <2>2. Perdura
    <3>1. Cambiado(u) /\ Sigue(u) /\ usuarios'[u].borrado = usuarios[u].borrado /\ usuarios'[u].rastro = usuarios[u].rastro
      BY <1>33, Usuarias
    <3> QED BY <3>1 DEF Perdura, Sigue, Cambiado
  <2>3. registros' = registros
    BY <1>33, Zenon DEF B!Suspender, B!SoloBase, B!SoloPaso, B!Escritura
  <2>4. /\ \A f \in registros' : \E e \in registros : Copia(e, f)
        /\ \A e \in registros : \E f \in registros' : Copia(e, f)
    BY <2>3 DEF Copia
  <2> QED BY <1>0, <2>1, <2>2, <2>4, BajasEstables DEF Perdura
<1>34. ASSUME NEW v \in B!Escriben, NEW u \in Usuarios, B!Reactivar(v, u) PROVE Bajas'
  <2>1. cuentas'.escrituras = cuentas.escrituras + 1
    <3>1. cuentas' = [cuentas EXCEPT !.escrituras = cuentas.escrituras + 1]
      BY <1>34 DEF B!Reactivar, B!Escritura
    <3> QED BY <1>0, <3>1 DEF Contadores
  <2>2. Cambiado(u) /\ Sigue(u) /\ usuarios[u].alta /\ usuarios'[u].rastro = B!Recibe
    BY <1>34, Usuarias
  <2>3. \/ ~B!Recibe /\ registros' = registros
        \/ B!Recibe /\ \E e : registros' = registros \cup {e} /\ Anotado(e, "reactiva", u)
    <3>1. B!Registra(v, "reactiva", u)
      BY <1>34, Zenon DEF B!Reactivar
    <3> QED BY <3>1, Anotaciones
  <2>4. CASE ~B!Recibe /\ registros' = registros
    <3>1. Perdura
      BY <2>2, <2>4 DEF Perdura, Cambiado, Sigue
    <3> QED BY <1>0, <2>1, <2>4, <3>1, BajasEstables DEF Perdura, Copia
  <2>5. CASE \E e : registros' = registros \cup {e} /\ Anotado(e, "reactiva", u)
    <3>1. PICK e : registros' = registros \cup {e} /\ Anotado(e, "reactiva", u)
      BY <2>5
    <3>2. e.n = cuentas.escrituras + 1 /\ e.tipo = "reactiva" /\ e.u = u
      BY <3>1 DEF Anotado
    <3> SUFFICES ASSUME NEW f \in registros'
                 PROVE  /\ f.n <= cuentas'.escrituras
                        /\ f.tipo # "otro" => f.u \in Usuarios /\ usuarios'[f.u].alta
                        /\ f.tipo = "elimina" => usuarios'[f.u].borrado \/ ~usuarios'[f.u].rastro \/ Deshecha(f)'
      BY DEF Bajas
    <3>3. CASE f = e
      <4>1. f.n <= cuentas'.escrituras
        BY <1>0, <2>1, <3>2, <3>3
      <4>2. usuarios'[u].alta
        BY <2>2 DEF Sigue
      <4> QED BY <3>2, <3>3, <4>1, <4>2
    <3>4. CASE f \in registros /\ (f.tipo = "elimina" => f.u # u)
      <4>1. f.n \in Nat /\ f.n <= cuentas.escrituras /\ (f.tipo # "otro" => f.u \in Usuarios /\ usuarios[f.u].alta)
        BY <3>4 DEF Bajas, TiposBase, Registros
      <4>2. f.n <= cuentas'.escrituras
        BY <1>0, <2>1, <4>1
      <4>3. f.tipo # "otro" => usuarios'[f.u].alta
        BY <2>2, <4>1 DEF Cambiado, Sigue
      <4>4. Deshecha(f) => Deshecha(f)'
        BY <3>1 DEF Deshecha
      <4>5. f.tipo = "elimina" => usuarios'[f.u] = usuarios[f.u]
        BY <2>2, <3>4, <4>1 DEF Cambiado
      <4>6. f.tipo = "elimina" => usuarios[f.u].borrado \/ ~usuarios[f.u].rastro \/ Deshecha(f)
        BY <3>4 DEF Bajas
      <4> QED BY <4>1, <4>2, <4>3, <4>4, <4>5, <4>6
    <3>5. CASE f \in registros /\ f.tipo = "elimina" /\ f.u = u
      <4>1. f.n \in Nat /\ f.n <= cuentas.escrituras
        BY <3>5 DEF Bajas, TiposBase, Registros
      <4>2. f.n <= cuentas'.escrituras /\ e.n > f.n
        BY <1>0, <2>1, <3>2, <4>1
      <4>3. Deshecha(f)'
        BY <3>1, <3>2, <3>5, <4>2 DEF Deshecha
      <4> QED BY <2>2, <3>5, <4>2, <4>3 DEF Sigue
    <3> QED BY <3>1, <3>3, <3>4, <3>5
  <2> QED BY <2>3, <2>4, <2>5
<1> QED BY <1>1, <1>2, <1>3, <1>4, <1>5, <1>6, <1>7, <1>8, <1>9, <1>10, <1>11, <1>12, <1>13,
           <1>14, <1>15, <1>16, <1>17, <1>18, <1>19, <1>20, <1>21, <1>22, <1>23, <1>24, <1>25,
           <1>26, <1>27, <1>28, <1>29, <1>30, <1>31, <1>32, <1>33, <1>34 DEF B!Next

\* More partitions, and records moved or written since the last start that
\* prepared them, change nothing of that.
LEMMA ParticionesEstables ==
  ASSUME Particiones, base.particiones \subseteq base'.particiones, base'.preparado = base.preparado,
         visto' = visto, trimestre' \in {trimestre, trimestre + 1}, trimestre \in Nat, visto \in Nat, base.preparado \in Nat,
         \A f \in registros' : f.preparado = base.preparado \/ \E e \in registros : f.preparado = e.preparado,
         paso' \in {"omision", "volcar", "actual", "siguiente"} => Fijas \subseteq base'.particiones,
         paso' = "siguiente" => visto > 0 /\ visto \in base'.particiones
  PROVE  Particiones'
<1>0. visto <= trimestre'
  BY DEF Particiones
<1>1. \A p : Preparado(p) => Preparado(p)'
  BY DEF Preparado
<1>2. base'.preparado <= visto' /\ Preparado(base.preparado)'
  BY <1>1 DEF Particiones
<1>3. base.preparado <= base.preparado
  OBVIOUS
<1>4. \A f \in registros' : f.preparado <= base'.preparado /\ Preparado(f.preparado)'
  BY <1>1, <1>3 DEF Particiones
<1> QED BY <1>0, <1>2, <1>4 DEF Particiones

\* Every step keeps the account of the quarters with a partition.
LEMMA ParticionesPaso ==
  ASSUME TiposBase, Particiones, B!Next
  PROVE  Particiones'
<1>0. trimestre \in Nat /\ trimestre # 0 /\ visto \in Nat /\ base.preparado \in Nat
  BY DEF TiposBase, Esquemas
<1>1. CASE B!Conectar
  <2>1. paso = "apagada" /\ paso' = "sesiones"
    BY <1>1 DEF B!Conectar, B!Da, B!Fin, B!Escritura
  <2>2. Igual
    BY <1>1, Efectos, Zenon
  <2>3. \A f \in registros' : f.preparado = base.preparado \/ \E e \in registros : f.preparado = e.preparado
    <3>1. registros' = registros
      BY <1>1, Zenon DEF B!Conectar, B!SoloBase, B!SoloPaso, B!Escritura
    <3> QED BY <3>1
  <2>4. visto' = visto /\ trimestre' \in {trimestre, trimestre + 1}
    BY <1>1, Zenon DEF B!Conectar, B!SoloBase, B!SoloPaso, B!Escritura
  <2>5. base.particiones \subseteq base'.particiones /\ base'.preparado = base.preparado
    BY <2>2 DEF Igual, Esquematiza
  <2>6. /\ paso' \in {"omision", "volcar", "actual", "siguiente"} => Fijas \subseteq base'.particiones
        /\ paso' = "siguiente" => visto > 0 /\ visto \in base'.particiones
    BY <2>1, <2>2 DEF Particiones, Igual, Esquematiza
  <2> QED BY <1>0, <2>3, <2>4, <2>5, <2>6, ParticionesEstables
<1>2. CASE B!MigrarSesiones
  BY <1>2, <1>0, Efectos, ParticionesEstables DEF Particiones, Igual, Esquematiza,
                                                  B!MigrarSesiones, B!Da, B!Fin, B!SoloBase,
                                                  B!SoloPaso
<1>3. CASE B!AutoMigrar
  BY <1>3, <1>0, Efectos, ParticionesEstables DEF Particiones, Igual, Esquematiza, B!AutoMigrar,
                                                  B!Da, B!Fin, B!SoloBase, B!SoloPaso
<1>4. CASE B!MirarAuditoria
  BY <1>4, <1>0, Efectos, ParticionesEstables DEF Particiones, Igual, Esquematiza,
                                                  B!MirarAuditoria, B!Da, B!Fin, B!SoloBase,
                                                  B!SoloPaso
<1>5. CASE B!QuitarRemanente
  <2>1. paso = "remanente" /\ paso' = "crear"
    BY <1>5 DEF B!QuitarRemanente, B!Da, B!Fin, B!Escritura
  <2>2. Esquematiza("no", base.legacy, base.particiones, base.preparado, base.indices)
    BY <1>5, Efectos, Zenon
  <2>3. \A f \in registros' : f.preparado = base.preparado \/ \E e \in registros : f.preparado = e.preparado
    <3>1. Traslado("auditoria", "perdido")
      BY <1>5, Traslados, Zenon
    <3> QED BY <3>1 DEF Traslado
  <2>4. visto' = visto /\ trimestre' \in {trimestre, trimestre + 1}
    BY <1>5, Zenon DEF B!QuitarRemanente, B!SoloBase, B!SoloPaso, B!Escritura
  <2>5. base.particiones \subseteq base'.particiones /\ base'.preparado = base.preparado
    BY <2>2 DEF Igual, Esquematiza
  <2>6. /\ paso' \in {"omision", "volcar", "actual", "siguiente"} => Fijas \subseteq base'.particiones
        /\ paso' = "siguiente" => visto > 0 /\ visto \in base'.particiones
    BY <2>1, <2>2 DEF Particiones, Igual, Esquematiza
  <2> QED BY <1>0, <2>3, <2>4, <2>5, <2>6, ParticionesEstables
<1>6. CASE B!Renombrar
  <2>1. paso = "renombrar" /\ paso' = "crear"
    BY <1>6 DEF B!Renombrar, B!Da, B!Fin, B!Escritura
  <2>2. Esquematiza("no", TRUE, base.particiones, base.preparado, base.indices)
    BY <1>6, Efectos, Zenon
  <2>3. \A f \in registros' : f.preparado = base.preparado \/ \E e \in registros : f.preparado = e.preparado
    <3>1. Traslado("auditoria", "legacy")
      BY <1>6, Traslados, Zenon
    <3> QED BY <3>1 DEF Traslado
  <2>4. visto' = visto /\ trimestre' \in {trimestre, trimestre + 1}
    BY <1>6, Zenon DEF B!Renombrar, B!SoloBase, B!SoloPaso, B!Escritura
  <2>5. base.particiones \subseteq base'.particiones /\ base'.preparado = base.preparado
    BY <2>2 DEF Igual, Esquematiza
  <2>6. /\ paso' \in {"omision", "volcar", "actual", "siguiente"} => Fijas \subseteq base'.particiones
        /\ paso' = "siguiente" => visto > 0 /\ visto \in base'.particiones
    BY <2>1, <2>2 DEF Particiones, Igual, Esquematiza
  <2> QED BY <1>0, <2>3, <2>4, <2>5, <2>6, ParticionesEstables
<1>7. CASE B!CrearMadre
  BY <1>7, <1>0, Efectos, ParticionesEstables DEF Particiones, Igual, Esquematiza, B!CrearMadre,
                                                  B!Da, B!Fin, B!SoloBase, B!SoloPaso
<1>8. CASE B!CrearFijas
  BY <1>8, <1>0, Efectos, ParticionesEstables DEF Particiones, Igual, Esquematiza, B!CrearFijas,
                                                  B!Da, B!Fin, B!SoloBase, B!SoloPaso
<1>9. CASE B!CrearOmision
  BY <1>9, <1>0, Efectos, ParticionesEstables DEF Particiones, Igual, Esquematiza,
                                                  B!CrearOmision, B!Da, B!Fin, B!SoloBase,
                                                  B!SoloPaso
<1>10. CASE B!Volcar
  <2>1. paso = "volcar" /\ paso' = "actual"
    BY <1>10 DEF B!Volcar, B!Da, B!Fin, B!Escritura
  <2>2. Esquematiza(base.auditoria, FALSE, base.particiones, base.preparado, base.indices)
    BY <1>10, Efectos, Zenon
  <2>3. \A f \in registros' : f.preparado = base.preparado \/ \E e \in registros : f.preparado = e.preparado
    <3>1. Traslado("legacy", "auditoria")
      BY <1>10, Traslados, Zenon
    <3> QED BY <3>1 DEF Traslado
  <2>4. visto' = visto /\ trimestre' \in {trimestre, trimestre + 1}
    BY <1>10, Zenon DEF B!Volcar, B!SoloBase, B!SoloPaso, B!Escritura
  <2>5. base.particiones \subseteq base'.particiones /\ base'.preparado = base.preparado
    BY <2>2 DEF Igual, Esquematiza
  <2>6. /\ paso' \in {"omision", "volcar", "actual", "siguiente"} => Fijas \subseteq base'.particiones
        /\ paso' = "siguiente" => visto > 0 /\ visto \in base'.particiones
    BY <2>1, <2>2 DEF Particiones, Igual, Esquematiza
  <2> QED BY <1>0, <2>3, <2>4, <2>5, <2>6, ParticionesEstables
<1>11. CASE B!AsegurarActual
  <2>1. paso = "actual" /\ paso' \in {"siguiente", "apagada"}
    BY <1>11 DEF B!AsegurarActual, B!Da, B!Fin, B!Escritura
  <2>2. (paso' = "siguiente" /\
         Esquematiza(base.auditoria, base.legacy, base.particiones \cup {trimestre}, base.preparado, base.indices)) \/
          (paso' # "siguiente" /\ Igual)
    BY <1>11, Efectos, Zenon
  <2>3. \A f \in registros' : f.preparado = base.preparado \/ \E e \in registros : f.preparado = e.preparado
    <3>1. registros' = registros
      BY <1>11, Zenon DEF B!AsegurarActual, B!SoloBase, B!SoloPaso, B!Escritura
    <3> QED BY <3>1
  <2>4. visto' = trimestre /\ trimestre' = trimestre /\ base'.preparado = base.preparado
    <3>1. visto' = trimestre /\ trimestre' = trimestre
      BY <1>11, Zenon DEF B!AsegurarActual
    <3> QED BY <2>2, <3>1 DEF Igual, Esquematiza
  <2>5. base.particiones \subseteq base'.particiones /\ (paso' = "siguiente" => trimestre \in base'.particiones)
    BY <2>2 DEF Igual, Esquematiza
  <2>6. \A p : Preparado(p) => Preparado(p)'
    BY <2>5 DEF Preparado
  <2>7. \A f \in registros' : f.preparado <= base.preparado /\ Preparado(f.preparado)'
    BY <1>0, <2>3, <2>6 DEF Particiones
  <2>8. trimestre > 0 /\ trimestre <= trimestre /\ base.preparado <= trimestre
    BY <1>0 DEF Particiones
  <2>9. Fijas \subseteq base'.particiones /\ Preparado(base.preparado)'
    BY <2>1, <2>4, <2>5, <2>6 DEF Particiones
  <2> QED BY <2>1, <2>4, <2>5, <2>7, <2>8, <2>9 DEF Particiones
<1>12. CASE B!AsegurarSiguiente
  <2>1. paso = "siguiente" /\ paso' \in {"clasificar", "apagada"}
    BY <1>12 DEF B!AsegurarSiguiente, B!Da, B!Fin, B!Escritura
  <2>2. (paso' = "clasificar" /\
         Esquematiza(base.auditoria, base.legacy, base.particiones \cup {visto + 1}, visto, base.indices)) \/
          (paso' # "clasificar" /\ Igual)
    BY <1>12, Efectos, Zenon
  <2>3. \A f \in registros' : f.preparado = base.preparado \/ \E e \in registros : f.preparado = e.preparado
    <3>1. registros' = registros
      BY <1>12, Zenon DEF B!AsegurarSiguiente, B!SoloBase, B!SoloPaso, B!Escritura
    <3> QED BY <3>1
  <2>4. visto' = visto /\ trimestre' = trimestre
    BY <1>12, Zenon DEF B!AsegurarSiguiente, B!SoloBase
  <2>5. CASE paso' = "clasificar"
    <3>1. base'.preparado = visto /\ base'.particiones = base.particiones \cup {visto + 1}
      BY <2>2, <2>5 DEF Igual, Esquematiza
    <3>2. visto \in base'.particiones /\ visto + 1 \in base'.particiones /\ visto > 0
      BY <2>1, <3>1 DEF Particiones
    <3>3. \A p : Preparado(p) => Preparado(p)'
      BY <3>1 DEF Preparado
    <3>4. Preparado(visto)'
      BY <2>4, <3>2 DEF Preparado
    <3>5. base.preparado <= visto /\ \A f \in registros' : f.preparado \in Nat
      <4>1. registros' \subseteq Registros
        BY TiposBasePaso DEF TiposBase
      <4>2. \A f \in registros' : f.preparado \in Nat
        BY <4>1 DEF Registros
      <4>3. base.preparado <= visto
        BY Zenon DEF Particiones
      <4> QED BY <4>2, <4>3, Zenon
    <3>6. \A f \in registros' : f.preparado <= visto /\ Preparado(f.preparado)'
      <4> TAKE f \in registros'
      <4>1. f.preparado \in Nat /\ f.preparado <= base.preparado /\ Preparado(f.preparado)'
        BY <1>0, <2>3, <3>3, <3>5 DEF Particiones
      <4> QED BY <1>0, <3>5, <4>1
    <3>7. visto <= trimestre
      BY Zenon DEF Particiones
    <3>8. base'.preparado <= visto' /\ visto' <= trimestre'
      BY <1>0, <2>4, <3>1, <3>7
    <3>9. Preparado(base.preparado)'
      BY <2>4, <3>1, <3>4 DEF Preparado
    <3>10. \A f \in registros' : f.preparado <= base'.preparado /\ Preparado(f.preparado)'
      BY <3>1, <3>6, Zenon
    <3> QED BY <2>5, <3>8, <3>9, <3>10 DEF Particiones
  <2>6. CASE paso' # "clasificar"
    <3>1. base'.particiones = base.particiones /\ base'.preparado = base.preparado /\ paso' = "apagada"
      BY <2>1, <2>2, <2>6 DEF Igual, Esquematiza
    <3> QED BY <1>0, <2>3, <2>4, <3>1, ParticionesEstables
  <2> QED BY <2>5, <2>6
<1>13. CASE B!Clasificar
  <2>1. paso = "clasificar" /\ paso' = "check"
    BY <1>13 DEF B!Clasificar, B!Da, B!Fin, B!Escritura
  <2>2. Igual
    BY <1>13, Efectos, Zenon
  <2>3. \A f \in registros' : f.preparado = base.preparado \/ \E e \in registros : f.preparado = e.preparado
    <3>1. registros' = registros
      BY <1>13, Zenon DEF B!Clasificar, B!SoloBase, B!SoloPaso, B!Escritura
    <3> QED BY <3>1
  <2>4. visto' = visto /\ trimestre' \in {trimestre, trimestre + 1}
    BY <1>13, Zenon DEF B!Clasificar, B!SoloBase, B!SoloPaso, B!Escritura
  <2>5. base.particiones \subseteq base'.particiones /\ base'.preparado = base.preparado
    BY <2>2 DEF Igual, Esquematiza
  <2>6. /\ paso' \in {"omision", "volcar", "actual", "siguiente"} => Fijas \subseteq base'.particiones
        /\ paso' = "siguiente" => visto > 0 /\ visto \in base'.particiones
    BY <2>1, <2>2 DEF Particiones, Igual, Esquematiza
  <2> QED BY <1>0, <2>3, <2>4, <2>5, <2>6, ParticionesEstables
<1>14. CASE B!AsegurarCheck
  BY <1>14, <1>0, Efectos, ParticionesEstables DEF Particiones, Igual, Esquematiza,
                                                   B!AsegurarCheck, B!Da, B!Fin, B!SoloBase,
                                                   B!SoloPaso
<1>15. CASE B!MirarCorreos
  BY <1>15, <1>0, Efectos, ParticionesEstables DEF Particiones, Igual, Esquematiza,
                                                   B!MirarCorreos, B!Da, B!Fin, B!SoloBase,
                                                   B!SoloPaso
<1>16. CASE B!ReemplazarIndice
  BY <1>16, <1>0, Efectos, ParticionesEstables DEF Particiones, Igual, Esquematiza,
                                                   B!ReemplazarIndice, B!Da, B!Fin, B!SoloBase,
                                                   B!SoloPaso
<1>17. CASE B!CrearTrigger
  BY <1>17, <1>0, Efectos, ParticionesEstables DEF Particiones, Igual, Esquematiza,
                                                   B!CrearTrigger, B!Da, B!Fin, B!SoloBase,
                                                   B!SoloPaso
<1>18. CASE B!Normalizar
  <2>1. paso = "vocabulario" /\ paso' = "revocar"
    BY <1>18 DEF B!Normalizar, B!Da, B!Fin, B!Escritura
  <2>2. Igual
    BY <1>18, Efectos, Zenon
  <2>3. \A f \in registros' : f.preparado = base.preparado \/ \E e \in registros : f.preparado = e.preparado
    <3>1. Traslado("auditoria", "auditoria")
      BY <1>18, Traslados, Zenon
    <3> QED BY <3>1 DEF Traslado
  <2>4. visto' = visto /\ trimestre' \in {trimestre, trimestre + 1}
    BY <1>18, Zenon DEF B!Normalizar, B!SoloBase, B!SoloPaso, B!Escritura
  <2>5. base.particiones \subseteq base'.particiones /\ base'.preparado = base.preparado
    BY <2>2 DEF Igual, Esquematiza
  <2>6. /\ paso' \in {"omision", "volcar", "actual", "siguiente"} => Fijas \subseteq base'.particiones
        /\ paso' = "siguiente" => visto > 0 /\ visto \in base'.particiones
    BY <2>1, <2>2 DEF Particiones, Igual, Esquematiza
  <2> QED BY <1>0, <2>3, <2>4, <2>5, <2>6, ParticionesEstables
<1>19. CASE B!Revocar
  BY <1>19, <1>0, Efectos, ParticionesEstables DEF Particiones, Igual, Esquematiza, B!Revocar,
                                                   B!Da, B!Fin, B!SoloBase, B!SoloPaso
<1>20. CASE B!ContarUsuarios
  BY <1>20, <1>0, Efectos, ParticionesEstables DEF Particiones, Igual, Esquematiza,
                                                   B!ContarUsuarios, B!Da, B!Fin, B!SoloBase,
                                                   B!SoloPaso
<1>21. CASE B!CrearOrganizacion
  BY <1>21, <1>0, Efectos, ParticionesEstables DEF Particiones, Igual, Esquematiza,
                                                   B!CrearOrganizacion, B!Da, B!Fin, B!SoloBase,
                                                   B!SoloPaso
<1>22. CASE B!CrearAdmin
  BY <1>22, <1>0, Efectos, ParticionesEstables DEF Particiones, Igual, Esquematiza,
                                                   B!CrearAdmin, B!Da, B!Fin, B!SoloBase,
                                                   B!SoloPaso
<1>23. CASE B!AsignarCreador
  BY <1>23, <1>0, Efectos, ParticionesEstables DEF Particiones, Igual, Esquematiza,
                                                   B!AsignarCreador, B!Da, B!Fin, B!SoloBase,
                                                   B!SoloPaso
<1>24. CASE B!BuscarOrganizacion
  <2>1. paso = "semilla" /\ paso' = "correo"
    BY <1>24 DEF B!BuscarOrganizacion, B!Da, B!Fin, B!Escritura
  <2>2. Igual
    BY <1>24, Efectos, Zenon
  <2>3. \A f \in registros' : f.preparado = base.preparado \/ \E e \in registros : f.preparado = e.preparado
    <3>1. registros' = registros
      BY <1>24, Zenon DEF B!BuscarOrganizacion, B!SoloBase, B!SoloPaso, B!Escritura
    <3> QED BY <3>1
  <2>4. visto' = visto /\ trimestre' \in {trimestre, trimestre + 1}
    BY <1>24, Zenon DEF B!BuscarOrganizacion, B!SoloBase, B!SoloPaso, B!Escritura
  <2>5. base.particiones \subseteq base'.particiones /\ base'.preparado = base.preparado
    BY <2>2 DEF Igual, Esquematiza
  <2>6. /\ paso' \in {"omision", "volcar", "actual", "siguiente"} => Fijas \subseteq base'.particiones
        /\ paso' = "siguiente" => visto > 0 /\ visto \in base'.particiones
    BY <2>1, <2>2 DEF Particiones, Igual, Esquematiza
  <2> QED BY <1>0, <2>3, <2>4, <2>5, <2>6, ParticionesEstables
<1>25. CASE B!VerificarCorreo
  <2>1. paso = "correo" /\ paso' \in {"apagada", "sembrar"}
    BY <1>25 DEF B!VerificarCorreo, B!Da, B!Fin, B!Escritura
  <2>2. Igual
    BY <1>25, Efectos, Zenon
  <2>3. \A f \in registros' : f.preparado = base.preparado \/ \E e \in registros : f.preparado = e.preparado
    <3>1. registros' = registros
      BY <1>25, Zenon DEF B!VerificarCorreo, B!SoloBase, B!SoloPaso, B!Escritura
    <3> QED BY <3>1
  <2>4. visto' = visto /\ trimestre' \in {trimestre, trimestre + 1}
    BY <1>25, Zenon DEF B!VerificarCorreo, B!SoloBase, B!SoloPaso, B!Escritura
  <2>5. base.particiones \subseteq base'.particiones /\ base'.preparado = base.preparado
    BY <2>2 DEF Igual, Esquematiza
  <2>6. /\ paso' \in {"omision", "volcar", "actual", "siguiente"} => Fijas \subseteq base'.particiones
        /\ paso' = "siguiente" => visto > 0 /\ visto \in base'.particiones
    BY <2>1, <2>2 DEF Particiones, Igual, Esquematiza
  <2> QED BY <1>0, <2>3, <2>4, <2>5, <2>6, ParticionesEstables
<1>26. CASE B!Sembrar
  <2>1. paso = "sembrar" /\ paso' \in {"apagada", "creador"}
    BY <1>26 DEF B!Sembrar, B!Da, B!Fin, B!Escritura
  <2>2. Igual
    BY <1>26, Efectos, Zenon
  <2>3. \A f \in registros' : f.preparado = base.preparado \/ \E e \in registros : f.preparado = e.preparado
    <3>1. registros' = registros
      BY <1>26, Zenon DEF B!Sembrar, B!SoloBase, B!SoloPaso, B!Escritura
    <3> QED BY <3>1
  <2>4. visto' = visto /\ trimestre' \in {trimestre, trimestre + 1}
    BY <1>26, Zenon DEF B!Sembrar, B!SoloBase, B!SoloPaso, B!Escritura
  <2>5. base.particiones \subseteq base'.particiones /\ base'.preparado = base.preparado
    BY <2>2 DEF Igual, Esquematiza
  <2>6. /\ paso' \in {"omision", "volcar", "actual", "siguiente"} => Fijas \subseteq base'.particiones
        /\ paso' = "siguiente" => visto > 0 /\ visto \in base'.particiones
    BY <2>1, <2>2 DEF Particiones, Igual, Esquematiza
  <2> QED BY <1>0, <2>3, <2>4, <2>5, <2>6, ParticionesEstables
<1>27. CASE B!PonerCreador
  BY <1>27, <1>0, Efectos, ParticionesEstables DEF Particiones, Igual, Esquematiza,
                                                   B!PonerCreador, B!Da, B!Fin, B!SoloBase,
                                                   B!SoloPaso
<1>28. CASE B!Caer
  <2>1. paso # "apagada" /\ paso' = "apagada"
    BY <1>28 DEF B!Caer, B!Da, B!Fin, B!Escritura
  <2>2. Igual
    BY <1>28, Efectos, Zenon
  <2>3. \A f \in registros' : f.preparado = base.preparado \/ \E e \in registros : f.preparado = e.preparado
    <3>1. registros' = registros
      BY <1>28, Zenon DEF B!Caer, B!SoloBase, B!SoloPaso, B!Escritura
    <3> QED BY <3>1
  <2>4. visto' = visto /\ trimestre' \in {trimestre, trimestre + 1}
    BY <1>28, Zenon DEF B!Caer, B!SoloBase, B!SoloPaso, B!Escritura
  <2>5. base.particiones \subseteq base'.particiones /\ base'.preparado = base.preparado
    BY <2>2 DEF Igual, Esquematiza
  <2>6. /\ paso' \in {"omision", "volcar", "actual", "siguiente"} => Fijas \subseteq base'.particiones
        /\ paso' = "siguiente" => visto > 0 /\ visto \in base'.particiones
    BY <2>1, <2>2 DEF Particiones, Igual, Esquematiza
  <2> QED BY <1>0, <2>3, <2>4, <2>5, <2>6, ParticionesEstables
<1>29. CASE B!PasaTrimestre
  <2>1. paso' = paso
    BY <1>29 DEF B!PasaTrimestre, B!Da, B!Fin, B!Escritura
  <2>2. Igual
    BY <1>29, Efectos, Zenon
  <2>3. \A f \in registros' : f.preparado = base.preparado \/ \E e \in registros : f.preparado = e.preparado
    <3>1. registros' = registros
      BY <1>29, Zenon DEF B!PasaTrimestre, B!SoloBase, B!SoloPaso, B!Escritura
    <3> QED BY <3>1
  <2>4. visto' = visto /\ trimestre' \in {trimestre, trimestre + 1}
    BY <1>29 DEF B!PasaTrimestre, B!SoloBase, B!SoloPaso, B!Escritura
  <2>5. base.particiones \subseteq base'.particiones /\ base'.preparado = base.preparado
    BY <2>2 DEF Igual, Esquematiza
  <2>6. /\ paso' \in {"omision", "volcar", "actual", "siguiente"} => Fijas \subseteq base'.particiones
        /\ paso' = "siguiente" => visto > 0 /\ visto \in base'.particiones
    BY <2>1, <2>2 DEF Particiones, Igual, Esquematiza
  <2> QED BY <1>0, <2>3, <2>4, <2>5, <2>6, ParticionesEstables
<1>30. ASSUME NEW v \in B!Escriben, B!Registrar(v) PROVE Particiones'
  <2>1. paso' = paso
    BY <1>30 DEF B!Registrar, B!Da, B!Fin, B!Escritura
  <2>2. Igual
    BY <1>30, Efectos, Zenon
  <2>3. \A f \in registros' : f.preparado = base.preparado \/ \E e \in registros : f.preparado = e.preparado
    <3>1. \/ registros' = registros
          \/ B!Recibe /\ \E e : registros' = registros \cup {e} /\ Anotado(e, "otro", "")
      <4>1. B!Registra(v, "otro", "")
        BY <1>30, Zenon DEF B!Registrar
      <4>2. "otro" \in {"otro", "elimina", "reactiva"} /\ "" \in Usuarios \cup {""}
        OBVIOUS
      <4> QED BY <4>1, <4>2, Anotaciones
    <3> QED BY <3>1 DEF Anotado
  <2>4. visto' = visto /\ trimestre' \in {trimestre, trimestre + 1}
    BY <1>30, Zenon DEF B!Registrar, B!SoloBase, B!SoloPaso, B!Escritura
  <2>5. base.particiones \subseteq base'.particiones /\ base'.preparado = base.preparado
    BY <2>2 DEF Igual, Esquematiza
  <2>6. /\ paso' \in {"omision", "volcar", "actual", "siguiente"} => Fijas \subseteq base'.particiones
        /\ paso' = "siguiente" => visto > 0 /\ visto \in base'.particiones
    BY <2>1, <2>2 DEF Particiones, Igual, Esquematiza
  <2> QED BY <1>0, <2>3, <2>4, <2>5, <2>6, ParticionesEstables
<1>31. ASSUME NEW u \in Usuarios, B!Escriben # {}, B!CrearUsuario(u) PROVE Particiones'
  <2>1. paso' = paso
    BY <1>31 DEF B!CrearUsuario, B!Da, B!Fin, B!Escritura
  <2>2. Igual
    BY <1>31, Efectos, Zenon
  <2>3. \A f \in registros' : f.preparado = base.preparado \/ \E e \in registros : f.preparado = e.preparado
    <3>1. registros' = registros
      BY <1>31, Zenon DEF B!CrearUsuario, B!SoloBase, B!SoloPaso, B!Escritura
    <3> QED BY <3>1
  <2>4. visto' = visto /\ trimestre' \in {trimestre, trimestre + 1}
    BY <1>31, Zenon DEF B!CrearUsuario, B!SoloBase, B!SoloPaso, B!Escritura
  <2>5. base.particiones \subseteq base'.particiones /\ base'.preparado = base.preparado
    BY <2>2 DEF Igual, Esquematiza
  <2>6. /\ paso' \in {"omision", "volcar", "actual", "siguiente"} => Fijas \subseteq base'.particiones
        /\ paso' = "siguiente" => visto > 0 /\ visto \in base'.particiones
    BY <2>1, <2>2 DEF Particiones, Igual, Esquematiza
  <2> QED BY <1>0, <2>3, <2>4, <2>5, <2>6, ParticionesEstables
<1>32. ASSUME NEW v \in B!Escriben, NEW u \in Usuarios, B!Eliminar(v, u) PROVE Particiones'
  <2>1. paso' = paso
    BY <1>32 DEF B!Eliminar, B!Da, B!Fin, B!Escritura
  <2>2. Igual
    BY <1>32, Efectos, Zenon
  <2>3. \A f \in registros' : f.preparado = base.preparado \/ \E e \in registros : f.preparado = e.preparado
    <3>1. \/ registros' = registros
          \/ B!Recibe /\ \E e : registros' = registros \cup {e} /\ Anotado(e, "elimina", u)
      <4>1. B!Registra(v, "elimina", u)
        BY <1>32, Zenon DEF B!Eliminar
      <4>2. "elimina" \in {"otro", "elimina", "reactiva"} /\ u \in Usuarios \cup {""}
        OBVIOUS
      <4> QED BY <4>1, <4>2, Anotaciones
    <3> QED BY <3>1 DEF Anotado
  <2>4. visto' = visto /\ trimestre' \in {trimestre, trimestre + 1}
    BY <1>32, Zenon DEF B!Eliminar, B!SoloBase, B!SoloPaso, B!Escritura
  <2>5. base.particiones \subseteq base'.particiones /\ base'.preparado = base.preparado
    BY <2>2 DEF Igual, Esquematiza
  <2>6. /\ paso' \in {"omision", "volcar", "actual", "siguiente"} => Fijas \subseteq base'.particiones
        /\ paso' = "siguiente" => visto > 0 /\ visto \in base'.particiones
    BY <2>1, <2>2 DEF Particiones, Igual, Esquematiza
  <2> QED BY <1>0, <2>3, <2>4, <2>5, <2>6, ParticionesEstables
<1>33. ASSUME NEW u \in Usuarios, B!Escriben # {}, B!Suspender(u) PROVE Particiones'
  <2>1. paso' = paso
    BY <1>33 DEF B!Suspender, B!Da, B!Fin, B!Escritura
  <2>2. Igual
    BY <1>33, Efectos, Zenon
  <2>3. \A f \in registros' : f.preparado = base.preparado \/ \E e \in registros : f.preparado = e.preparado
    <3>1. registros' = registros
      BY <1>33, Zenon DEF B!Suspender, B!SoloBase, B!SoloPaso, B!Escritura
    <3> QED BY <3>1
  <2>4. visto' = visto /\ trimestre' \in {trimestre, trimestre + 1}
    BY <1>33, Zenon DEF B!Suspender, B!SoloBase, B!SoloPaso, B!Escritura
  <2>5. base.particiones \subseteq base'.particiones /\ base'.preparado = base.preparado
    BY <2>2 DEF Igual, Esquematiza
  <2>6. /\ paso' \in {"omision", "volcar", "actual", "siguiente"} => Fijas \subseteq base'.particiones
        /\ paso' = "siguiente" => visto > 0 /\ visto \in base'.particiones
    BY <2>1, <2>2 DEF Particiones, Igual, Esquematiza
  <2> QED BY <1>0, <2>3, <2>4, <2>5, <2>6, ParticionesEstables
<1>34. ASSUME NEW v \in B!Escriben, NEW u \in Usuarios, B!Reactivar(v, u) PROVE Particiones'
  <2>1. paso' = paso
    BY <1>34 DEF B!Reactivar, B!Da, B!Fin, B!Escritura
  <2>2. Igual
    BY <1>34, Efectos, Zenon
  <2>3. \A f \in registros' : f.preparado = base.preparado \/ \E e \in registros : f.preparado = e.preparado
    <3>1. \/ registros' = registros
          \/ B!Recibe /\ \E e : registros' = registros \cup {e} /\ Anotado(e, "reactiva", u)
      <4>1. B!Registra(v, "reactiva", u)
        BY <1>34, Zenon DEF B!Reactivar
      <4>2. "reactiva" \in {"otro", "elimina", "reactiva"} /\ u \in Usuarios \cup {""}
        OBVIOUS
      <4> QED BY <4>1, <4>2, Anotaciones
    <3> QED BY <3>1 DEF Anotado
  <2>4. visto' = visto /\ trimestre' \in {trimestre, trimestre + 1}
    BY <1>34, Zenon DEF B!Reactivar, B!SoloBase, B!SoloPaso, B!Escritura
  <2>5. base.particiones \subseteq base'.particiones /\ base'.preparado = base.preparado
    BY <2>2 DEF Igual, Esquematiza
  <2>6. /\ paso' \in {"omision", "volcar", "actual", "siguiente"} => Fijas \subseteq base'.particiones
        /\ paso' = "siguiente" => visto > 0 /\ visto \in base'.particiones
    BY <2>1, <2>2 DEF Particiones, Igual, Esquematiza
  <2> QED BY <1>0, <2>3, <2>4, <2>5, <2>6, ParticionesEstables
<1> QED BY <1>1, <1>2, <1>3, <1>4, <1>5, <1>6, <1>7, <1>8, <1>9, <1>10, <1>11, <1>12, <1>13,
           <1>14, <1>15, <1>16, <1>17, <1>18, <1>19, <1>20, <1>21, <1>22, <1>23, <1>24, <1>25,
           <1>26, <1>27, <1>28, <1>29, <1>30, <1>31, <1>32, <1>33, <1>34 DEF B!Next

\* The base starts new, or as the previous version leaves it.
LEMMA BaseInicial == B!Init => BaseInv
<1> SUFFICES ASSUME B!Init PROVE BaseInv
  OBVIOUS
<1>1. /\ paso = "apagada" /\ trimestre = 1 /\ visto = 0 /\ base \in {B!BaseNueva, B!BaseVieja}
      /\ semilla = B!SinSemilla("api")
      /\ cuentas = [anterior |-> base = B!BaseVieja, escrituras |-> 0, caidas |-> 0]
  BY DEF B!Init
<1>2. PICK u \in Usuarios, g \in Grafias :
        /\ registros = IF base = B!BaseNueva THEN {} ELSE {[B!Evento(0, "elimina", u, TRUE) EXCEPT !.t = 0]}
        /\ usuarios = [w \in Usuarios |-> IF base = B!BaseVieja /\ w = u THEN B!Borrado(g) ELSE B!SinUsuario]
  BY Zenon DEF B!Init
<1> DEFINE e == [B!Evento(0, "elimina", u, TRUE) EXCEPT !.t = 0]
<1>3. /\ base \in Esquemas /\ base.legacy = FALSE /\ base.preparado = 0
      /\ base = B!BaseNueva => base.auditoria = "no" /\ base.indices = {}
      /\ base = B!BaseVieja => base.auditoria = "plana" /\ base.indices = {"viejo"}
  <2>1. /\ B!BaseNueva \in Esquemas /\ B!BaseNueva.legacy = FALSE /\ B!BaseNueva.preparado = 0
        /\ B!BaseNueva.auditoria = "no" /\ B!BaseNueva.indices = {}
    BY DEF B!BaseNueva, Esquemas
  <2> DEFINE b == B!BaseNueva
  <2>2. B!BaseVieja = [b EXCEPT !.auditoria = "plana", !.indices = {"viejo"}, !.sesiones = "vieja", !.admin = TRUE]
    BY Zenon DEF B!BaseVieja
  <2>3. b \in Esquemas /\ b.legacy = FALSE /\ b.preparado = 0
    BY <2>1
  <2> HIDE DEF b
  <2>4. {"viejo"} \in SUBSET {"viejo", "parcial"}
    OBVIOUS
  <2>5. /\ B!BaseVieja \in Esquemas /\ B!BaseVieja.legacy = FALSE /\ B!BaseVieja.preparado = 0
        /\ B!BaseVieja.auditoria = "plana" /\ B!BaseVieja.indices = {"viejo"}
    BY <2>2, <2>3, <2>4 DEF Esquemas
  <2> QED BY <1>1, <2>1, <2>5
<1>4. base # B!BaseNueva => /\ e \in Registros /\ e.n = 0 /\ e.tipo = "elimina" /\ e.u = u
                           /\ e.en = "auditoria" /\ e.preparado = 0
  <2> DEFINE x == B!Evento(0, "elimina", u, TRUE)
  <2>1. base.auditoria \in {"no", "plana", "madre"} /\ base.preparado = 0 /\ base.normalizada \in BOOLEAN
    BY <1>3 DEF Esquemas
  <2>2. x.parte \in {"omision", "propia"} /\ x.recreada \in BOOLEAN
    BY DEF B!Evento
  <2>3. x \in Registros /\ x.n = 0 /\ x.tipo = "elimina" /\ x.u = u /\ x.en = "auditoria" /\ x.preparado = 0
    <3>1. trimestre \in Nat /\ base.preparado \in Nat /\ 0 \in Nat
      BY <1>1, <2>1
    <3>2. x \in Registros
      BY <2>1, <2>2, <3>1 DEF B!Evento, Registros
    <3>3. x.n = 0 /\ x.tipo = "elimina" /\ x.u = u /\ x.en = "auditoria" /\ x.preparado = base.preparado
      BY DEF B!Evento
    <3> QED BY <2>1, <3>2, <3>3
  <2> HIDE DEF x
  <2>4. e = [x EXCEPT !.t = 0]
    BY DEF x
  <2> QED BY <2>3, <2>4 DEF Registros
<1> HIDE DEF e
<1>5. registros \subseteq Registros
  BY <1>2, <1>4 DEF e
<1>6. B!Borrado(g) \in Filas /\ B!SinUsuario \in Filas /\ B!Borrado(g).alta /\ B!Borrado(g).borrado /\ ~B!SinUsuario.alta
  BY DEF B!Borrado, B!SinUsuario, Filas
<1>7. /\ usuarios \in [Usuarios -> Filas] /\ \A w \in Usuarios : w # u => ~usuarios[w].alta
      /\ base = B!BaseVieja => usuarios[u].alta /\ usuarios[u].borrado
      /\ base # B!BaseVieja => ~usuarios[u].alta
  BY <1>2, <1>6
<1>8. B!BaseNueva # B!BaseVieja
  BY DEF B!BaseNueva, B!BaseVieja
<1>9. semilla \in Semillas /\ cuentas \in Contadores /\ cuentas.escrituras = 0 /\ (cuentas.anterior <=> base = B!BaseVieja)
  <2> DEFINE x == base = B!BaseVieja
  <2>1. cuentas = [anterior |-> x, escrituras |-> 0, caidas |-> 0] /\ x \in BOOLEAN
    BY <1>1
  <2> HIDE DEF x
  <2>2. cuentas \in Contadores /\ cuentas.escrituras = 0 /\ cuentas.anterior = x
    BY <2>1 DEF Contadores
  <2>3. semilla \in Semillas
    BY <1>1 DEF B!SinSemilla, Semillas
  <2> QED BY <2>1, <2>2, <2>3 DEF x
<1>10. registros = IF base = B!BaseNueva THEN {} ELSE {e}
  BY <1>2, Zenon DEF e
<1>11. TiposBase
  BY <1>1, <1>3, <1>5, <1>7, <1>9 DEF TiposBase
<1>12. Esquema
  BY <1>1 DEF Esquema, Antes
<1>13. Tablas
  BY <1>1, <1>3, <1>4, <1>8, <1>10 DEF Tablas, B!EnTabla, B!HistorialIntacto
<1>14. Indices
  BY <1>1, <1>3, <1>7, <1>8, <1>9 DEF Indices, SinIndice, Antes, B!Vigentes
<1>15. Bajas
  BY <1>1, <1>4, <1>7, <1>9, <1>10 DEF Bajas
<1>16. Particiones
  BY <1>1, <1>3, <1>4, <1>10 DEF Particiones, Preparado
<1> QED BY <1>11, <1>12, <1>13, <1>14, <1>15, <1>16 DEF BaseInv

\* Every step of the base keeps all of it.
LEMMA BasePaso == BaseInv /\ B!Next => BaseInv'
BY TiposBasePaso, EsquemaPaso, TablasPaso, IndicesPaso, BajasPaso, ParticionesPaso DEF BaseInv

\* A step of the other pieces leaves the base as it is.
LEMMA BaseQuieta == ASSUME BaseInv, UNCHANGED varsBase PROVE BaseInv'
<1>1. /\ paso' = paso /\ base' = base /\ registros' = registros /\ usuarios' = usuarios
      /\ trimestre' = trimestre /\ visto' = visto /\ semilla' = semilla /\ cuentas' = cuentas
  BY DEF varsBase
<1>2. TiposBase'
  BY <1>1 DEF BaseInv, TiposBase
<1>3. Esquema' /\ Tablas'
  BY <1>1 DEF BaseInv, Esquema, Tablas, B!EnTabla, B!HistorialIntacto
<1>4. Indices'
  BY <1>1 DEF BaseInv, Indices, B!Vigentes
<1>5. Bajas'
  BY <1>1 DEF BaseInv, Bajas, Deshecha
<1>6. Particiones'
  BY <1>1 DEF BaseInv, Particiones, Preparado
<1> QED BY <1>2, <1>3, <1>4, <1>5, <1>6 DEF BaseInv

\* The invariant of the base, in every behaviour of what is kept.
LEMMA BaseSiempre == SpecPiezas => []BaseInv
<1>1. Piezas => BaseInv
  BY BaseInicial DEF Piezas
<1>2. BaseInv /\ [MuevePieza]_varsPiezas => BaseInv'
  <2> SUFFICES ASSUME BaseInv, [MuevePieza]_varsPiezas PROVE BaseInv'
    OBVIOUS
  <2>1. B!Next \/ UNCHANGED varsBase
    BY Zenon DEF MuevePieza, varsPiezas
  <2> QED BY <2>1, BasePaso, BaseQuieta
<1> QED BY <1>1, <1>2, PTL DEF SpecPiezas

\* A step that eliminates a user while the start is at its classification.
Marca == paso = "clasificar" /\ \E u \in Usuarios : usuarios'[u].eliminado /\ ~usuarios[u].eliminado

\* At the classification only the start eliminates users.
LEMMA SoloClasificar ==
  ASSUME TiposBase, B!Next
  PROVE  Marca => B!Clasificar
<1>0. usuarios \in [Usuarios -> Filas]
  BY DEF TiposBase
<1>1. CASE B!Conectar
  <2>1. usuarios' = usuarios
    BY <1>1, Zenon DEF B!Conectar, B!SoloBase, B!SoloPaso, B!Escritura
  <2> QED BY <1>0, <2>1 DEF Marca
<1>2. CASE B!MigrarSesiones
  <2>1. usuarios' = usuarios
    BY <1>2, Zenon DEF B!MigrarSesiones, B!SoloBase, B!SoloPaso, B!Escritura
  <2> QED BY <1>0, <2>1 DEF Marca
<1>3. CASE B!AutoMigrar
  <2>1. usuarios' = usuarios
    BY <1>3, Zenon DEF B!AutoMigrar, B!SoloBase, B!SoloPaso, B!Escritura
  <2> QED BY <1>0, <2>1 DEF Marca
<1>4. CASE B!MirarAuditoria
  <2>1. usuarios' = usuarios
    BY <1>4, Zenon DEF B!MirarAuditoria, B!SoloBase, B!SoloPaso, B!Escritura
  <2> QED BY <1>0, <2>1 DEF Marca
<1>5. CASE B!QuitarRemanente
  <2>1. usuarios' = usuarios
    BY <1>5, Zenon DEF B!QuitarRemanente, B!SoloBase, B!SoloPaso, B!Escritura
  <2> QED BY <1>0, <2>1 DEF Marca
<1>6. CASE B!Renombrar
  <2>1. usuarios' = usuarios
    BY <1>6, Zenon DEF B!Renombrar, B!SoloBase, B!SoloPaso, B!Escritura
  <2> QED BY <1>0, <2>1 DEF Marca
<1>7. CASE B!CrearMadre
  <2>1. usuarios' = usuarios
    BY <1>7, Zenon DEF B!CrearMadre, B!SoloBase, B!SoloPaso, B!Escritura
  <2> QED BY <1>0, <2>1 DEF Marca
<1>8. CASE B!CrearFijas
  <2>1. usuarios' = usuarios
    BY <1>8, Zenon DEF B!CrearFijas, B!SoloBase, B!SoloPaso, B!Escritura
  <2> QED BY <1>0, <2>1 DEF Marca
<1>9. CASE B!CrearOmision
  <2>1. usuarios' = usuarios
    BY <1>9, Zenon DEF B!CrearOmision, B!SoloBase, B!SoloPaso, B!Escritura
  <2> QED BY <1>0, <2>1 DEF Marca
<1>10. CASE B!Volcar
  <2>1. usuarios' = usuarios
    BY <1>10, Zenon DEF B!Volcar, B!SoloBase, B!SoloPaso, B!Escritura
  <2> QED BY <1>0, <2>1 DEF Marca
<1>11. CASE B!AsegurarActual
  <2>1. usuarios' = usuarios
    BY <1>11, Zenon DEF B!AsegurarActual, B!SoloBase, B!SoloPaso, B!Escritura
  <2> QED BY <1>0, <2>1 DEF Marca
<1>12. CASE B!AsegurarSiguiente
  <2>1. usuarios' = usuarios
    BY <1>12, Zenon DEF B!AsegurarSiguiente, B!SoloBase, B!SoloPaso, B!Escritura
  <2> QED BY <1>0, <2>1 DEF Marca
<1>13. CASE B!Clasificar
  BY <1>0, <1>13 DEF Marca
<1>14. CASE B!AsegurarCheck
  <2>1. usuarios' = usuarios
    BY <1>14, Zenon DEF B!AsegurarCheck, B!SoloBase, B!SoloPaso, B!Escritura
  <2> QED BY <1>0, <2>1 DEF Marca
<1>15. CASE B!MirarCorreos
  <2>1. usuarios' = usuarios
    BY <1>15, Zenon DEF B!MirarCorreos, B!SoloBase, B!SoloPaso, B!Escritura
  <2> QED BY <1>0, <2>1 DEF Marca
<1>16. CASE B!ReemplazarIndice
  <2>1. usuarios' = usuarios
    BY <1>16, Zenon DEF B!ReemplazarIndice, B!SoloBase, B!SoloPaso, B!Escritura
  <2> QED BY <1>0, <2>1 DEF Marca
<1>17. CASE B!CrearTrigger
  <2>1. usuarios' = usuarios
    BY <1>17, Zenon DEF B!CrearTrigger, B!SoloBase, B!SoloPaso, B!Escritura
  <2> QED BY <1>0, <2>1 DEF Marca
<1>18. CASE B!Normalizar
  <2>1. usuarios' = usuarios
    BY <1>18, Zenon DEF B!Normalizar, B!SoloBase, B!SoloPaso, B!Escritura
  <2> QED BY <1>0, <2>1 DEF Marca
<1>19. CASE B!Revocar
  <2>1. usuarios' = usuarios
    BY <1>19, Zenon DEF B!Revocar, B!SoloBase, B!SoloPaso, B!Escritura
  <2> QED BY <1>0, <2>1 DEF Marca
<1>20. CASE B!ContarUsuarios
  <2>1. usuarios' = usuarios
    BY <1>20, Zenon DEF B!ContarUsuarios, B!SoloBase, B!SoloPaso, B!Escritura
  <2> QED BY <1>0, <2>1 DEF Marca
<1>21. CASE B!CrearOrganizacion
  <2>1. usuarios' = usuarios
    BY <1>21, Zenon DEF B!CrearOrganizacion, B!SoloBase, B!SoloPaso, B!Escritura
  <2> QED BY <1>0, <2>1 DEF Marca
<1>22. CASE B!CrearAdmin
  <2>1. usuarios' = usuarios
    BY <1>22, Zenon DEF B!CrearAdmin, B!SoloBase, B!SoloPaso, B!Escritura
  <2> QED BY <1>0, <2>1 DEF Marca
<1>23. CASE B!AsignarCreador
  <2>1. usuarios' = usuarios
    BY <1>23, Zenon DEF B!AsignarCreador, B!SoloBase, B!SoloPaso, B!Escritura
  <2> QED BY <1>0, <2>1 DEF Marca
<1>24. CASE B!BuscarOrganizacion
  <2>1. usuarios' = usuarios
    BY <1>24, Zenon DEF B!BuscarOrganizacion, B!SoloBase, B!SoloPaso, B!Escritura
  <2> QED BY <1>0, <2>1 DEF Marca
<1>25. CASE B!VerificarCorreo
  <2>1. usuarios' = usuarios
    BY <1>25, Zenon DEF B!VerificarCorreo, B!SoloBase, B!SoloPaso, B!Escritura
  <2> QED BY <1>0, <2>1 DEF Marca
<1>26. CASE B!Sembrar
  <2>1. usuarios' = usuarios \/ \E u \in Usuarios : Recien(u, semilla.grafia)
    BY <1>26, Usuarias, Zenon
  <2> QED BY <1>0, <2>1 DEF Marca, Recien, Cambiado
<1>27. CASE B!PonerCreador
  <2>1. usuarios' = usuarios
    BY <1>27, Zenon DEF B!PonerCreador, B!SoloBase, B!SoloPaso, B!Escritura
  <2> QED BY <1>0, <2>1 DEF Marca
<1>28. CASE B!Caer
  <2>1. usuarios' = usuarios
    BY <1>28, Zenon DEF B!Caer, B!SoloBase, B!SoloPaso, B!Escritura
  <2> QED BY <1>0, <2>1 DEF Marca
<1>29. CASE B!PasaTrimestre
  <2>1. usuarios' = usuarios
    BY <1>29, Zenon DEF B!PasaTrimestre, B!SoloBase, B!SoloPaso, B!Escritura
  <2> QED BY <1>0, <2>1 DEF Marca
<1>30. ASSUME NEW v \in B!Escriben, B!Registrar(v) PROVE Marca => B!Clasificar
  <2>1. usuarios' = usuarios
    BY <1>30, Zenon DEF B!Registrar, B!SoloBase, B!SoloPaso, B!Escritura
  <2> QED BY <1>0, <2>1 DEF Marca
<1>31. ASSUME NEW u \in Usuarios, B!Escriben # {}, B!CrearUsuario(u) PROVE Marca => B!Clasificar
  <2>1. \E g \in Grafias : Recien(u, g)
    BY <1>31, Usuarias, Zenon
  <2> QED BY <1>0, <2>1 DEF Marca, Recien, Cambiado
<1>32. ASSUME NEW v \in B!Escriben, NEW u \in Usuarios, B!Eliminar(v, u) PROVE Marca => B!Clasificar
  <2>1. Cambiado(u) /\ (usuarios'[u].eliminado <=> v = "esta")
    BY <1>32, Usuarias
  <2>2. v # "esta" \/ paso = "lista"
    BY DEF B!Escriben
  <2> QED BY <1>0, <2>1, <2>2 DEF Marca, Cambiado
<1>33. ASSUME NEW u \in Usuarios, B!Escriben # {}, B!Suspender(u) PROVE Marca => B!Clasificar
  <2>1. Cambiado(u) /\ usuarios'[u].eliminado = usuarios[u].eliminado
    BY <1>33, Usuarias
  <2> QED BY <1>0, <2>1 DEF Marca, Cambiado
<1>34. ASSUME NEW v \in B!Escriben, NEW u \in Usuarios, B!Reactivar(v, u) PROVE Marca => B!Clasificar
  <2>1. Cambiado(u) /\ usuarios'[u].eliminado = usuarios[u].eliminado
    BY <1>34, Usuarias
  <2> QED BY <1>0, <2>1 DEF Marca, Cambiado
<1> QED BY <1>1, <1>2, <1>3, <1>4, <1>5, <1>6, <1>7, <1>8, <1>9, <1>10, <1>11, <1>12, <1>13,
           <1>14, <1>15, <1>16, <1>17, <1>18, <1>19, <1>20, <1>21, <1>22, <1>23, <1>24, <1>25,
           <1>26, <1>27, <1>28, <1>29, <1>30, <1>31, <1>32, <1>33, <1>34 DEF B!Next

\* At the partitions a start ends only there, or stopped.
LEMMA EsOtro ==
  ASSUME paso' = "apagada", paso \in {"actual", "siguiente"}, B!Next
  PROVE  B!Caer \/ B!AsegurarActual \/ B!AsegurarSiguiente
<1>1. CASE B!Conectar
  BY <1>1 DEF B!Conectar, B!Da, B!Fin, B!Escritura
<1>2. CASE B!MigrarSesiones
  BY <1>2 DEF B!MigrarSesiones, B!Da, B!Fin, B!Escritura
<1>3. CASE B!AutoMigrar
  BY <1>3 DEF B!AutoMigrar, B!Da, B!Fin, B!Escritura
<1>4. CASE B!MirarAuditoria
  BY <1>4 DEF B!MirarAuditoria, B!Da, B!Fin, B!Escritura
<1>5. CASE B!QuitarRemanente
  BY <1>5 DEF B!QuitarRemanente, B!Da, B!Fin, B!Escritura
<1>6. CASE B!Renombrar
  BY <1>6 DEF B!Renombrar, B!Da, B!Fin, B!Escritura
<1>7. CASE B!CrearMadre
  BY <1>7 DEF B!CrearMadre, B!Da, B!Fin, B!Escritura
<1>8. CASE B!CrearFijas
  BY <1>8 DEF B!CrearFijas, B!Da, B!Fin, B!Escritura
<1>9. CASE B!CrearOmision
  BY <1>9 DEF B!CrearOmision, B!Da, B!Fin, B!Escritura
<1>10. CASE B!Volcar
  BY <1>10 DEF B!Volcar, B!Da, B!Fin, B!Escritura
<1>11. CASE B!AsegurarActual
  BY <1>11 DEF B!AsegurarActual, B!Da, B!Fin, B!Escritura
<1>12. CASE B!AsegurarSiguiente
  BY <1>12 DEF B!AsegurarSiguiente, B!Da, B!Fin, B!Escritura
<1>13. CASE B!Clasificar
  BY <1>13 DEF B!Clasificar, B!Da, B!Fin, B!Escritura
<1>14. CASE B!AsegurarCheck
  BY <1>14 DEF B!AsegurarCheck, B!Da, B!Fin, B!Escritura
<1>15. CASE B!MirarCorreos
  BY <1>15 DEF B!MirarCorreos, B!Da, B!Fin, B!Escritura
<1>16. CASE B!ReemplazarIndice
  BY <1>16 DEF B!ReemplazarIndice, B!Da, B!Fin, B!Escritura
<1>17. CASE B!CrearTrigger
  BY <1>17 DEF B!CrearTrigger, B!Da, B!Fin, B!Escritura
<1>18. CASE B!Normalizar
  BY <1>18 DEF B!Normalizar, B!Da, B!Fin, B!Escritura
<1>19. CASE B!Revocar
  BY <1>19 DEF B!Revocar, B!Da, B!Fin, B!Escritura
<1>20. CASE B!ContarUsuarios
  BY <1>20 DEF B!ContarUsuarios, B!Da, B!Fin, B!Escritura
<1>21. CASE B!CrearOrganizacion
  BY <1>21 DEF B!CrearOrganizacion, B!Da, B!Fin, B!Escritura
<1>22. CASE B!CrearAdmin
  BY <1>22 DEF B!CrearAdmin, B!Da, B!Fin, B!Escritura
<1>23. CASE B!AsignarCreador
  BY <1>23 DEF B!AsignarCreador, B!Da, B!Fin, B!Escritura
<1>24. CASE B!BuscarOrganizacion
  BY <1>24 DEF B!BuscarOrganizacion, B!Da, B!Fin, B!Escritura
<1>25. CASE B!VerificarCorreo
  BY <1>25 DEF B!VerificarCorreo, B!Da, B!Fin, B!Escritura
<1>26. CASE B!Sembrar
  BY <1>26 DEF B!Sembrar, B!Da, B!Fin, B!Escritura
<1>27. CASE B!PonerCreador
  BY <1>27 DEF B!PonerCreador, B!Da, B!Fin, B!Escritura
<1>28. CASE B!Caer
  BY <1>28 DEF B!Caer, B!Da, B!Fin, B!Escritura
<1>29. CASE B!PasaTrimestre
  BY <1>29 DEF B!PasaTrimestre, B!Da, B!Fin, B!Escritura
<1>30. ASSUME NEW v \in B!Escriben, B!Registrar(v) PROVE B!Caer \/ B!AsegurarActual \/ B!AsegurarSiguiente
  BY <1>30 DEF B!Registrar, B!Da, B!Fin, B!Escritura
<1>31. ASSUME NEW u \in Usuarios, B!Escriben # {}, B!CrearUsuario(u)
      PROVE  B!Caer \/ B!AsegurarActual \/ B!AsegurarSiguiente
  BY <1>31 DEF B!CrearUsuario, B!Da, B!Fin, B!Escritura
<1>32. ASSUME NEW v \in B!Escriben, NEW u \in Usuarios, B!Eliminar(v, u)
      PROVE  B!Caer \/ B!AsegurarActual \/ B!AsegurarSiguiente
  BY <1>32 DEF B!Eliminar, B!Da, B!Fin, B!Escritura
<1>33. ASSUME NEW u \in Usuarios, B!Escriben # {}, B!Suspender(u)
      PROVE  B!Caer \/ B!AsegurarActual \/ B!AsegurarSiguiente
  BY <1>33 DEF B!Suspender, B!Da, B!Fin, B!Escritura
<1>34. ASSUME NEW v \in B!Escriben, NEW u \in Usuarios, B!Reactivar(v, u)
      PROVE  B!Caer \/ B!AsegurarActual \/ B!AsegurarSiguiente
  BY <1>34 DEF B!Reactivar, B!Da, B!Fin, B!Escritura
<1> QED BY <1>1, <1>2, <1>3, <1>4, <1>5, <1>6, <1>7, <1>8, <1>9, <1>10, <1>11, <1>12, <1>13,
           <1>14, <1>15, <1>16, <1>17, <1>18, <1>19, <1>20, <1>21, <1>22, <1>23, <1>24, <1>25,
           <1>26, <1>27, <1>28, <1>29, <1>30, <1>31, <1>32, <1>33, <1>34 DEF B!Next

\* Whom the classification eliminates.
LEMMA QuienSeElimina ==
  ASSUME BaseInv, B!Clasificar, NEW u \in Usuarios, usuarios'[u].eliminado, ~usuarios[u].eliminado
  PROVE  \/ usuarios[u].borrado \/ ~usuarios[u].rastro
         \/ \E e \in registros : e.en = "perdido" /\ e.tipo = "reactiva" /\ e.u = u
<1>1. u \in B!Eliminables
  BY Zenon DEF B!Clasificar, BaseInv, TiposBase
<1>2. PICK e \in B!EnTabla("auditoria") :
        /\ e.tipo = "elimina" /\ e.u = u
        /\ \A r \in B!EnTabla("auditoria") : r.tipo = "reactiva" /\ r.u = u => r.n < e.n
  BY <1>1, Zenon DEF B!Eliminables
<1>3. e \in registros
  BY <1>2 DEF B!EnTabla
<1>4. usuarios[u].borrado \/ ~usuarios[u].rastro \/ Deshecha(e)
  BY <1>2, <1>3 DEF BaseInv, Bajas
<1>5. ASSUME Deshecha(e) PROVE \E r \in registros : r.en = "perdido" /\ r.tipo = "reactiva" /\ r.u = u
  <2>1. PICK r \in registros : r.tipo = "reactiva" /\ r.u = u /\ r.n > e.n
    BY <1>2, <1>5 DEF Deshecha
  <2>2. registros \subseteq Registros
    BY DEF BaseInv, TiposBase
  <2>3. r.n \in Nat /\ e.n \in Nat /\ r.en \in {"auditoria", "legacy", "perdido"}
    BY <1>3, <2>1, <2>2 DEF Registros
  <2>4. r.en # "auditoria"
    BY <1>2, <2>1, <2>3 DEF B!EnTabla
  <2>5. paso = "clasificar"
    BY Zenon DEF B!Clasificar, B!Da
  <2>6. r.en # "legacy"
    BY <2>1, <2>5 DEF BaseInv, Esquema, Tablas, B!EnTabla
  <2> QED BY <2>1, <2>3, <2>4, <2>6
<1> QED BY <1>4, <1>5

\* A start that fails at its partitions, and was not stopped there.
LEMMA PorQueTraba ==
  ASSUME BaseInv, B!Next, paso' = "apagada", paso \in {"actual", "siguiente"}, cuentas' = cuentas
  PROVE  \E e \in B!EnTabla("auditoria") : e.parte = "omision" /\ e.t \notin Fijas /\ e.t > e.preparado + 1
<1>0. TiposBase /\ Particiones /\ registros \subseteq Registros /\ cuentas.caidas \in Nat
  BY DEF BaseInv, TiposBase, Contadores
<1>1. PICK t \in {trimestre, visto + 1} : ~B!Cabe(t)
  <2>1. CASE B!Caer
    <3>1. cuentas' = [cuentas EXCEPT !.caidas = cuentas.caidas + 1] /\ cuentas \in Contadores
      BY <1>0, <2>1 DEF B!Caer, TiposBase
    <3>2. cuentas.caidas = cuentas.caidas + 1
      BY <3>1 DEF Contadores
    <3> QED BY <1>0, <3>2
  <2>2. CASE B!AsegurarActual
    <3>1. paso' = "siguiente" \/ ~B!Cabe(trimestre)
      BY <2>2, Zenon DEF B!AsegurarActual, B!Da
    <3> QED BY <3>1
  <2>3. CASE B!AsegurarSiguiente
    <3>1. paso' = "clasificar" \/ ~B!Cabe(visto + 1)
      BY <2>3, Zenon DEF B!AsegurarSiguiente, B!Da
    <3> QED BY <3>1
  <2>4. CASE ~B!Caer /\ ~B!AsegurarActual /\ ~B!AsegurarSiguiente
    BY <2>4, EsOtro
  <2> QED BY <2>1, <2>2, <2>3, <2>4
<1>2. PICK e \in B!EnTabla("auditoria") : e.parte = "omision" /\ e.t = t
  BY <1>1, Zenon DEF B!Cabe
<1>3. t \notin base.particiones
  BY <1>1, Zenon DEF B!Cabe
<1>4. e \in registros
  BY <1>2 DEF B!EnTabla
<1>5. e.preparado \in Nat
  BY <1>0, <1>4 DEF Registros
<1>6. trimestre \in Nat /\ trimestre # 0 /\ visto \in Nat /\ base.preparado \in Nat
  BY <1>0 DEF TiposBase, Esquemas
<1>7. /\ e.preparado <= base.preparado /\ base.preparado <= visto /\ visto <= trimestre
      /\ Preparado(e.preparado) /\ Fijas \subseteq base.particiones
  BY <1>0, <1>4 DEF Particiones
<1>8. e.preparado <= t /\ t \in Nat /\ t >= 1
  BY <1>1, <1>5, <1>6, <1>7
<1>9. t \notin Fijas /\ t # 1
  BY <1>3, <1>7, PersistenciaAssumption DEF B!Supuestos
<1>10. e.preparado > 0 => t # e.preparado /\ t # e.preparado + 1
  BY <1>3, <1>7 DEF Preparado
<1>11. t > e.preparado + 1
  BY <1>5, <1>8, <1>9, <1>10
<1> QED BY <1>2, <1>9, <1>11

\* The audit history survives the migration of a start, whatever the writers
\* do meanwhile and wherever the starts are interrupted.
THEOREM HistorialSiempre == SpecPiezas => []HistorialIntacto
<1>1. BaseInv => HistorialIntacto
  BY DEF BaseInv, Tablas, HistorialIntacto
<1> QED BY <1>1, BaseSiempre, PTL

\* Two users not eliminated never share an address, while the index that keeps
\* it is replaced.
THEOREM CorreoSiempre == SpecPiezas => []CorreoUnico
<1>1. BaseInv => CorreoUnico
  BY DEF BaseInv, Indices, CorreoUnico, B!CorreoUnico, B!Vigentes
<1> QED BY <1>1, BaseSiempre, PTL

\* A start eliminates only users who were deleted.
THEOREM ClasificacionSiempre == SpecPiezas => ClasificacionFiel
<1> DEFINE Fiel == \A u \in Usuarios :
             paso = "clasificar" /\ usuarios'[u].eliminado /\ ~usuarios[u].eliminado =>
               \/ usuarios[u].borrado \/ ~usuarios[u].rastro
               \/ \E e \in registros : e.en = "perdido" /\ e.tipo = "reactiva" /\ e.u = u
<1>1. BaseInv /\ [MuevePieza]_varsPiezas => [Fiel]_B!vars
  <2> SUFFICES ASSUME BaseInv, [MuevePieza]_varsPiezas PROVE Fiel \/ UNCHANGED B!vars
    OBVIOUS
  <2>1. B!Next \/ UNCHANGED B!vars
    BY Zenon DEF MuevePieza, varsPiezas, varsBase, B!vars
  <2>2. ASSUME B!Next, NEW u \in Usuarios, paso = "clasificar", usuarios'[u].eliminado, ~usuarios[u].eliminado
        PROVE  \/ usuarios[u].borrado \/ ~usuarios[u].rastro
               \/ \E e \in registros : e.en = "perdido" /\ e.tipo = "reactiva" /\ e.u = u
    <3>1. TiposBase /\ Marca
      BY <2>2 DEF BaseInv, Marca
    <3>2. B!Clasificar
      BY <2>2, <3>1, SoloClasificar
    <3> QED BY <2>2, <3>2, QuienSeElimina
  <2> QED BY <2>1, <2>2
<1> QED BY <1>1, BaseSiempre, PTL DEF SpecPiezas, ClasificacionFiel, B!ClasificacionFiel

\* A start that fails at its partitions has the cause that the comment gives.
THEOREM TrabaSiempre == SpecPiezas => TrabaConCausa
<1> DEFINE Causa == paso' = "apagada" /\ paso \in {"actual", "siguiente"} /\ cuentas' = cuentas =>
             \E e \in B!EnTabla("auditoria") :
               /\ e.parte = "omision" /\ e.t \notin Fijas
               /\ e.t > e.preparado + 1
<1>1. BaseInv /\ [MuevePieza]_varsPiezas => [Causa]_B!vars
  <2> SUFFICES ASSUME BaseInv, [MuevePieza]_varsPiezas PROVE Causa \/ UNCHANGED B!vars
    OBVIOUS
  <2>1. B!Next \/ UNCHANGED B!vars
    BY Zenon DEF MuevePieza, varsPiezas, varsBase, B!vars
  <2> QED BY <2>1, PorQueTraba
<1> QED BY <1>1, BaseSiempre, PTL DEF SpecPiezas, TrabaConCausa, B!TrabaConCausa

-------------------------------------------------------------------------------
(***************************************************************************)
(* The audit log as it is read (Persistencia, Auditoria). Pages and        *)
(* downloads, while records are committed, leave nothing out.              *)
(***************************************************************************)

\* The values that a record of the log and the client take.
Alcances == Organizaciones \cup {"nadie"}
Asientos == [n : Nat, t : Nat, accion : Nat, autor : Alcances, org : Alcances]
Clientes ==
  [tipo : {"ninguno", "total", "corta", "exporta"}, org : Alcances, orden : L!Opciones, excluye : L!Excluidas,
   fase : {"nada", "contar", "leer", "fin", "fila", "agotado", "cortada"},
   pagina : Nat \ {0}, total : Nat, desde : Nat, primero : Nat,
   iniciales : SUBSET Asientos, vistos : SUBSET Asientos, crecio : BOOLEAN,
   foto : Seq(Asientos), leidas : Nat, recibidas : Nat, falla : BOOLEAN]
TiposLog ==
  /\ instante \in Nat \ {0}
  /\ log \subseteq Asientos /\ pendientes \subseteq Asientos
  /\ alerta \in [faltan : SUBSET Alcances, filas : SUBSET Asientos]
  /\ IsFiniteSet(log) /\ IsFiniteSet(pendientes) /\ IsFiniteSet(alerta.filas)
  /\ cliente \in Clientes

\* What the download has written.
Descarga ==
  cliente.tipo = "exporta" =>
    /\ cliente.fase \in {"fila", "agotado", "cortada", "fin"}
    /\ cliente.leidas <= Len(cliente.foto)
    /\ cliente.fase = "agotado" /\ ~cliente.falla => cliente.leidas = Len(cliente.foto)
    /\ L!ExportacionEntera

\* While the client pages over one same quarter, the initial records that it
\* has not met have a page before them for every page already read.
Previos(r) == {x \in L!Filtrados(cliente.primero) : L!Antes(x, r, cliente.orden)}
Pendiente(r) == Cardinality(Previos(r)) >= (cliente.pagina - 1) * Tamano
Pagina ==
  cliente.tipo \in {"total", "corta"} =>
    /\ cliente.fase \in {"contar", "leer", "fin"}
    /\ cliente.fase = "leer" \/ cliente.pagina > 1 =>
         /\ cliente.primero <= cliente.desde /\ cliente.desde <= L!InicioTrimestre(instante)
         /\ cliente.iniciales \subseteq L!Filtrados(cliente.primero)
    /\ cliente.fase = "contar" /\ cliente.pagina = 1 => cliente.vistos = {}
    /\ cliente.fase \in {"contar", "leer"} /\ cliente.desde = cliente.primero =>
         \A r \in cliente.iniciales \ cliente.vistos : Pendiente(r)
    /\ L!PaginadoSinHuecos
Reposo == cliente.tipo = "ninguno" => cliente.fase = "nada"
LogInv == TiposLog /\ Reposo /\ Descarga /\ Pagina

\* What the constants of the log are.
LEMMA ConstantesLog ==
  Tamano \in Nat \ {0} /\ Lote \in Nat \ {0} /\ LargoTrimestre \in Nat \ {0} /\ Acciones \subseteq Nat
BY PersistenciaAssumption DEF L!Supuestos

\* The operators that the module of the log takes from the library.
LEMMA MismaCardinalidad == \A S : L!Cardinality(S) = Cardinality(S)
BY Zenon DEF L!Cardinality, Cardinality, L!IsFiniteSet, IsFiniteSet

\* A division leaves less than one divisor.
LEMMA Division == \A a \in Nat, b \in Nat \ {0} : (a \div b) \in Nat /\ (a \div b) * b <= a /\ a < (a \div b) * b + b
OBVIOUS

\* Products keep the order, and only they.
LEMMA ProductoCrece == ASSUME NEW q \in Nat, NEW r \in Nat, NEW b \in Nat, q <= r PROVE q * b <= r * b
OBVIOUS
\* A product below the next multiple has no larger a quotient.
LEMMA Cociente == ASSUME NEW q \in Nat, NEW r \in Nat, NEW b \in Nat, q * b < r * b + b PROVE q <= r
OBVIOUS
\* One page after another.
LEMMA Siguiente == ASSUME NEW p \in Nat \ {0}, NEW b \in Nat
                   PROVE  (p - 1) * b + b = p * b /\ (p - 1) * b \in Nat /\ p * b \in Nat
OBVIOUS

\* Quarters begin in the order of their days.
LEMMA InicioCrece ==
  ASSUME NEW t \in Nat \ {0}, NEW u \in Nat \ {0}, t <= u
  PROVE  /\ L!InicioTrimestre(t) \in Nat /\ L!InicioTrimestre(u) \in Nat
         /\ L!InicioTrimestre(t) <= L!InicioTrimestre(u)
<1> DEFINE q == (t - 1) \div LargoTrimestre
           r == (u - 1) \div LargoTrimestre
<1>0. LargoTrimestre \in Nat \ {0} /\ t - 1 \in Nat /\ u - 1 \in Nat /\ t - 1 <= u - 1
  BY ConstantesLog
<1>1. q \in Nat /\ q * LargoTrimestre <= t - 1 /\ t - 1 < q * LargoTrimestre + LargoTrimestre
  BY <1>0, Division
<1>2. r \in Nat /\ r * LargoTrimestre <= u - 1 /\ u - 1 < r * LargoTrimestre + LargoTrimestre
  BY <1>0, Division
<1>3. L!InicioTrimestre(t) = q * LargoTrimestre + 1 /\ L!InicioTrimestre(u) = r * LargoTrimestre + 1
  BY DEF L!InicioTrimestre
<1> HIDE DEF q, r
<1> DEFINE x == q * LargoTrimestre
           y == r * LargoTrimestre
<1>4. x \in Nat /\ y \in Nat
  BY <1>0, <1>1, <1>2
<1>5. x < y + LargoTrimestre
  <2>1. x <= t - 1 /\ u - 1 < y + LargoTrimestre
    BY <1>1, <1>2
  <2> HIDE DEF x, y
  <2> QED BY <1>0, <1>4, <2>1
<1>6. q <= r
  BY <1>0, <1>1, <1>2, <1>5, Cociente
<1>7. x <= y
  BY <1>0, <1>1, <1>2, <1>6, ProductoCrece
<1>8. L!InicioTrimestre(t) = x + 1 /\ L!InicioTrimestre(u) = y + 1
  BY <1>3
<1> HIDE DEF x, y
<1> QED BY <1>4, <1>7, <1>8

\* The order of a listing is strict.
LEMMA OrdenEstricto ==
  ASSUME NEW x \in Asientos, NEW y \in Asientos, NEW o \in L!Opciones
  PROVE  ~L!Antes(x, x, o) /\ ~(L!Antes(x, y, o) /\ L!Antes(y, x, o))
<1> DEFINE a == L!Clave(x, o.por)
           b == L!Clave(y, o.por)
           m == x.n
           n == y.n
<1>1. a \in Nat /\ b \in Nat /\ m \in Nat /\ n \in Nat
  BY DEF Asientos, L!Clave
<1>2. L!Antes(x, x, o) <=> IF o.baja THEN a > a \/ (a = a /\ m > m) ELSE a < a \/ (a = a /\ m < m)
  BY DEF L!Antes
<1>3. L!Antes(x, y, o) <=> IF o.baja THEN a > b \/ (a = b /\ m > n) ELSE a < b \/ (a = b /\ m < n)
  BY DEF L!Antes
<1>4. L!Antes(y, x, o) <=> IF o.baja THEN b > a \/ (b = a /\ n > m) ELSE b < a \/ (b = a /\ n < m)
  BY DEF L!Antes
<1> HIDE DEF a, b, m, n
<1>5. CASE o.baja
  BY <1>1, <1>2, <1>3, <1>4, <1>5
<1>6. CASE ~o.baja
  BY <1>1, <1>2, <1>3, <1>4, <1>6
<1> QED BY <1>5, <1>6

\* What PostgreSQL lists has every record once, and before each one as many as
\* its place says.
LEMMA Listado ==
  ASSUME NEW S \in SUBSET Asientos, IsFiniteSet(S), NEW o \in L!Opciones, NEW s \in L!Listados(S, o)
  PROVE  /\ s \in Seq(S) /\ Len(s) = Cardinality(S)
         /\ \A r \in S : \E i \in 1..Len(s) : s[i] = r
         /\ \A i \in 1..Len(s) : Cardinality({x \in S : L!Antes(x, s[i], o)}) = i - 1
<1> DEFINE n == Cardinality(S)
<1>1. n \in Nat
  BY FS_CardinalityType
<1>2. s \in L!SetToSeqs(S) /\ \A i, j \in 1..Len(s) : i < j => L!Antes(s[i], s[j], o)
  BY Zenon DEF L!Listados
<1>3. s \in [1..n -> S] /\ \A i, j \in 1..n : i # j => s[i] # s[j]
  <2>1. s \in {f \in [1..L!Cardinality(S) -> S] : \A i, j \in 1..L!Cardinality(S) : i # j => f[i] # f[j]}
    BY <1>2, Zenon DEF L!SetToSeqs
  <2>2. L!Cardinality(S) = n
    BY MismaCardinalidad
  <2> HIDE DEF n
  <2> QED BY <2>1, <2>2
<1> HIDE DEF n
<1>4. s \in Seq(S) /\ Len(s) = n
  BY <1>1, <1>3
<1>5. \A r \in S : \E i \in 1..n : s[i] = r
  <2>1. s \in Injection(1..n, S)
    BY <1>3 DEF Injection, IsInjective
  <2>2. Cardinality(1..n) = n
    BY <1>1, FS_Interval
  <2>3. s \in Surjection(1..n, S)
    BY <2>1, <2>2, FS_Injection DEF n
  <2> QED BY <2>3 DEF Surjection
<1>6. ASSUME NEW i \in 1..n PROVE Cardinality({x \in S : L!Antes(x, s[i], o)}) = i - 1
  <2> DEFINE T == {x \in S : L!Antes(x, s[i], o)}
             f == [j \in 1..(i - 1) |-> s[j]]
  <2>1. i \in Nat /\ 1 <= i /\ i <= n /\ i - 1 \in Nat /\ \A j \in 1..(i - 1) : j \in 1..n /\ j < i
    BY <1>1, <1>6
  <2>2. \A j \in 1..(i - 1) : s[j] \in T
    BY <1>2, <1>3, <1>4, <1>6, <2>1
  <2>3. f \in Injection(1..(i - 1), T)
    BY <1>3, <2>1, <2>2 DEF Injection, IsInjective
  <2>4. \A x \in T : \E j \in 1..(i - 1) : f[j] = x
    <3>1. SUFFICES ASSUME NEW x \in T PROVE \E j \in 1..(i - 1) : f[j] = x
      OBVIOUS
    <3>2. PICK j \in 1..n : s[j] = x
      BY <1>5
    <3>3. L!Antes(s[j], s[i], o) /\ s[j] \in Asientos /\ s[i] \in Asientos
      BY <1>3, <1>6, <3>2
    <3>4. j # i /\ ~(i < j)
      BY <1>2, <1>4, <1>6, <3>3, OrdenEstricto
    <3>5. j \in 1..(i - 1)
      BY <2>1, <3>4
    <3> QED BY <3>2, <3>5
  <2>5. f \in Bijection(1..(i - 1), T)
    BY <2>3, <2>4 DEF Bijection, Surjection, Injection
  <2>6. IsFiniteSet(1..(i - 1)) /\ Cardinality(1..(i - 1)) = i - 1
    BY <2>1, FS_Interval
  <2>7. ExistsBijection(1..(i - 1), T)
    BY <2>5 DEF ExistsBijection
  <2> HIDE DEF T, f
  <2>8. Cardinality(T) = i - 1
    BY <2>6, <2>7, FS_Bijection
  <2> QED BY <2>8 DEF T
<1> QED BY <1>4, <1>5, <1>6 DEF n

\* A record that is written now.
LEMMA AsientoNuevo ==
  ASSUME TiposLog, NEW a \in Nat, NEW autor \in Alcances, NEW org \in Alcances
  PROVE  L!Registro(L!Proximo, a, autor, org) \in Asientos
<1> DEFINE k == Cardinality(L!Todos)
<1>1. IsFiniteSet(log \cup pendientes \cup alerta.filas)
  BY FS_Union DEF TiposLog
<1>2. k \in Nat
  BY <1>1, FS_CardinalityType DEF L!Todos
<1>3. L!Proximo = k + 1
  BY MismaCardinalidad DEF L!Proximo
<1> HIDE DEF k
<1>4. L!Proximo \in Nat /\ instante \in Nat
  BY <1>2, <1>3 DEF TiposLog
<1> QED BY <1>4 DEF L!Registro, Asientos

\* What the writers leave in the log: more records, of their type.
LEMMA Escribientes ==
  ASSUME TiposLog, cliente' = cliente,
         \/ L!Tic \/ L!CerrarAlerta
         \/ \E o \in Organizaciones, a \in Acciones : L!Tomar(o, a)
         \/ \E r \in pendientes : L!Confirmar(r)
         \/ \E audiencia \in SUBSET Organizaciones : L!AbrirAlerta(audiencia)
         \/ \E o \in alerta.faltan : L!InsertarAlerta(o)
  PROVE  TiposLog' /\ log \subseteq log' /\ instante' \in {instante, instante + 1}
<1>0. /\ instante \in Nat \ {0} /\ log \subseteq Asientos /\ pendientes \subseteq Asientos
      /\ alerta \in [faltan : SUBSET Alcances, filas : SUBSET Asientos]
      /\ IsFiniteSet(log) /\ IsFiniteSet(pendientes) /\ IsFiniteSet(alerta.filas)
      /\ cliente \in Clientes
  BY DEF TiposLog
<1>1. CASE L!Tic
  <2>1. /\ instante' = instante + 1 /\ log' = log /\ pendientes' = pendientes /\ alerta' = alerta
    BY <1>1, Zenon DEF L!Tic
  <2>2. instante' \in Nat \ {0}
    BY <1>0, <2>1
  <2> QED BY <1>0, <2>1, <2>2 DEF TiposLog
<1>2. CASE L!CerrarAlerta
  <2>1. /\ instante' = instante /\ pendientes' = pendientes
        /\ alerta' = L!SinAlerta /\ (log' = log \/ log' = log \cup alerta.filas)
    BY <1>2, Zenon DEF L!CerrarAlerta
  <2>2. L!SinAlerta \in [faltan : SUBSET Alcances, filas : SUBSET Asientos] /\ L!SinAlerta.filas = {}
    BY DEF L!SinAlerta
  <2>3. IsFiniteSet(log \cup alerta.filas) /\ log \cup alerta.filas \subseteq Asientos
    BY <1>0, FS_Union
  <2>4. IsFiniteSet(alerta'.filas)
    BY <2>1, <2>2, FS_EmptySet
  <2> QED BY <1>0, <2>1, <2>2, <2>3, <2>4 DEF TiposLog
<1>3. ASSUME NEW o \in Organizaciones, NEW a \in Acciones, L!Tomar(o, a)
      PROVE  TiposLog' /\ log \subseteq log' /\ instante' \in {instante, instante + 1}
  <2> DEFINE r == L!Registro(L!Proximo, a, o, L!Nadie)
  <2>1. /\ instante' = instante /\ log' = log /\ alerta' = alerta /\ pendientes' = pendientes \cup {r}
    BY <1>3, Zenon DEF L!Tomar
  <2>2. a \in Nat /\ o \in Alcances /\ L!Nadie \in Alcances
    BY ConstantesLog DEF Alcances, L!Nadie
  <2>3. r \in Asientos
    BY <2>2, AsientoNuevo
  <2> HIDE DEF r
  <2>4. IsFiniteSet(pendientes \cup {r})
    BY <1>0, FS_AddElement
  <2> QED BY <1>0, <2>1, <2>3, <2>4 DEF TiposLog
<1>4. ASSUME NEW r \in pendientes, L!Confirmar(r)
      PROVE  TiposLog' /\ log \subseteq log' /\ instante' \in {instante, instante + 1}
  <2>1. /\ instante' = instante /\ log' = log \cup {r} /\ alerta' = alerta /\ pendientes' = pendientes \ {r}
    BY <1>4, Zenon DEF L!Confirmar
  <2>2. IsFiniteSet(log \cup {r})
    BY <1>0, FS_AddElement
  <2>3. IsFiniteSet(pendientes \ {r})
    BY <1>0, FS_Difference
  <2> QED BY <1>0, <1>4, <2>1, <2>2, <2>3 DEF TiposLog
<1>5. ASSUME NEW audiencia \in SUBSET Organizaciones, L!AbrirAlerta(audiencia)
      PROVE  TiposLog' /\ log \subseteq log' /\ instante' \in {instante, instante + 1}
  <2> DEFINE S == IF audiencia = {} THEN {L!Nadie} ELSE audiencia
  <2>1. /\ instante' = instante /\ log' = log /\ pendientes' = pendientes
        /\ alerta' = [faltan |-> S, filas |-> {}]
    BY <1>5, Zenon DEF L!AbrirAlerta
  <2>2. S \subseteq Alcances
    BY <1>5 DEF Alcances, L!Nadie
  <2> HIDE DEF S
  <2>3. alerta' \in [faltan : SUBSET Alcances, filas : SUBSET Asientos] /\ alerta'.filas = {}
    BY <2>1, <2>2
  <2>4. IsFiniteSet(alerta'.filas)
    BY <2>3, FS_EmptySet
  <2> QED BY <1>0, <2>1, <2>3, <2>4 DEF TiposLog
<1>6. ASSUME NEW o \in alerta.faltan, L!InsertarAlerta(o)
      PROVE  TiposLog' /\ log \subseteq log' /\ instante' \in {instante, instante + 1}
  <2> DEFINE r == L!Registro(L!Proximo, 0, L!Nadie, o)
  <2>1. /\ instante' = instante /\ log' = log /\ pendientes' = pendientes
        /\ alerta' = [alerta EXCEPT !.faltan = alerta.faltan \ {o}, !.filas = alerta.filas \cup {r}]
    BY <1>6 DEF L!InsertarAlerta
  <2>2. 0 \in Nat /\ o \in Alcances /\ L!Nadie \in Alcances
    BY <1>0, <1>6 DEF Alcances, L!Nadie
  <2>3. r \in Asientos
    BY <2>2, AsientoNuevo
  <2> HIDE DEF r
  <2>4. IsFiniteSet(alerta.filas \cup {r})
    BY <1>0, FS_AddElement
  <2>5. alerta' \in [faltan : SUBSET Alcances, filas : SUBSET Asientos] /\ alerta'.filas = alerta.filas \cup {r}
    BY <1>0, <2>1, <2>3
  <2> QED BY <1>0, <2>1, <2>4, <2>5 DEF TiposLog
<1> QED BY <1>1, <1>2, <1>3, <1>4, <1>5, <1>6

\* More records only put more of them before one that a client has not met.
LEMMA PaginaCrece ==
  ASSUME TiposLog, Pagina, TiposLog', cliente' = cliente, log \subseteq log',
         instante' \in {instante, instante + 1}
  PROVE  Pagina'
<1> SUFFICES ASSUME cliente.tipo \in {"total", "corta"} PROVE Pagina'
  BY DEF Pagina
<1>1. L!InicioTrimestre(instante) <= L!InicioTrimestre(instante') /\ L!InicioTrimestre(instante) \in Nat
      /\ L!InicioTrimestre(instante') \in Nat
  BY InicioCrece DEF TiposLog
<1>2. L!Filtrados(cliente.primero) \subseteq L!Filtrados(cliente.primero)'
  BY DEF L!Filtrados, L!Visible
<1>3. IsFiniteSet(L!Filtrados(cliente.primero)')
  <2>1. L!Filtrados(cliente.primero)' \subseteq log' /\ IsFiniteSet(log')
    BY DEF L!Filtrados, TiposLog
  <2> QED BY <2>1, FS_Subset
<1>4. ASSUME NEW r, Pendiente(r) PROVE Pendiente(r)'
  <2>1. Previos(r) \subseteq Previos(r)' /\ Previos(r)' \subseteq L!Filtrados(cliente.primero)'
    BY <1>2 DEF Previos, L!Antes, L!Clave
  <2>2. IsFiniteSet(Previos(r)')
    BY <1>3, <2>1, FS_Subset
  <2>3. Cardinality(Previos(r)) <= Cardinality(Previos(r)') /\ IsFiniteSet(Previos(r))
    BY <2>1, <2>2, FS_Subset
  <2>4. Cardinality(Previos(r)) \in Nat /\ Cardinality(Previos(r)') \in Nat
    BY <2>2, <2>3, FS_CardinalityType
  <2>5. (cliente.pagina - 1) * Tamano \in Nat
    BY ConstantesLog, Siguiente DEF TiposLog, Clientes
  <2>6. Cardinality(Previos(r)) >= (cliente.pagina - 1) * Tamano
    BY <1>4 DEF Pendiente
  <2>7. Cardinality(Previos(r)') >= (cliente.pagina - 1) * Tamano
    BY <2>3, <2>4, <2>5, <2>6
  <2> QED BY <2>7 DEF Pendiente
<1>5. cliente.primero \in Nat /\ cliente.desde \in Nat
  BY DEF TiposLog, Clientes
<1>6. cliente.fase = "leer" \/ cliente.pagina > 1 =>
         /\ cliente.primero <= cliente.desde /\ cliente.desde <= L!InicioTrimestre(instante')
         /\ cliente.iniciales \subseteq L!Filtrados(cliente.primero)'
  BY <1>1, <1>2, <1>5 DEF Pagina
<1>7. L!PaginadoSinHuecos'
  BY DEF Pagina, L!PaginadoSinHuecos
<1>8. L!InicioTrimestre(instante)' = L!InicioTrimestre(instante')
  BY DEF L!InicioTrimestre
<1> QED BY <1>4, <1>6, <1>7, <1>8 DEF Pagina

\* The writers do not touch the client.
LEMMA EscribienPaso ==
  ASSUME LogInv, TiposLog', cliente' = cliente, log \subseteq log', instante' \in {instante, instante + 1}
  PROVE  LogInv'
<1>1. Pagina'
  BY PaginaCrece DEF LogInv
<1>2. Reposo' /\ Descarga'
  BY DEF LogInv, Reposo, Descarga, L!ExportacionEntera
<1> QED BY <1>1, <1>2 DEF LogInv

\* The client before its first request.
LEMMA ClienteNuevo ==
  L!Cliente0 \in Clientes /\ L!Cliente0.tipo = "ninguno" /\ L!Cliente0.fase = "nada" /\ L!Cliente0.pagina = 1
    /\ L!Cliente0.iniciales = {} /\ L!Cliente0.vistos = {} /\ L!Cliente0.leidas = 0
<1>1. L!PorDefecto \in L!Opciones
  BY DEF L!PorDefecto, L!Opciones
<1>2. {} \in L!Excluidas
  BY DEF L!Excluidas
<1>3. <<>> \in Seq(Asientos)
  OBVIOUS
<1>4. L!Nadie \in Alcances
  BY DEF L!Nadie, Alcances
<1>5. {} \in SUBSET Asientos /\ 1 \in Nat \ {0} /\ 0 \in Nat /\ FALSE \in BOOLEAN
  OBVIOUS
<1> QED BY <1>1, <1>2, <1>3, <1>4, <1>5 DEF L!Cliente0, Clientes

\* The writers' state stays in the steps of the reader.
LEMMA LecturaPaso ==
  ASSUME LogInv, cliente' \in Clientes, instante' = instante, log' = log, pendientes' = pendientes, alerta' = alerta,
         Reposo', Descarga', Pagina'
  PROVE  LogInv'
BY DEF LogInv, TiposLog

\* A client begins to page: it has met nothing yet.
LEMMA PasoPedir ==
  ASSUME LogInv, NEW tipo \in {"total", "corta"}, NEW o \in Organizaciones, L!Pedir(tipo, o)
  PROVE  LogInv'
<1>1. PICK orden \in L!Opciones, excluye \in L!Excluidas :
        L!Sirve([L!Cliente0 EXCEPT !.tipo = tipo, !.org = o, !.orden = orden, !.excluye = excluye, !.fase = "contar"])
  BY Zenon DEF L!Pedir
<1> DEFINE c == L!Cliente0
<1>2. /\ cliente' = [c EXCEPT !.tipo = tipo, !.org = o, !.orden = orden, !.excluye = excluye, !.fase = "contar"]
      /\ instante' = instante /\ log' = log /\ pendientes' = pendientes /\ alerta' = alerta
  BY <1>1 DEF L!Sirve
<1>3. c \in Clientes /\ c.pagina = 1 /\ c.iniciales = {} /\ c.vistos = {}
  BY ClienteNuevo
<1>4. o \in Alcances
  BY DEF Alcances
<1> HIDE DEF c
<1>5. /\ cliente' \in Clientes /\ cliente'.tipo = tipo /\ cliente'.fase = "contar" /\ cliente'.pagina = 1
      /\ cliente'.iniciales = {} /\ cliente'.vistos = {}
  BY <1>2, <1>3, <1>4 DEF Clientes
<1>6. Reposo' /\ Descarga' /\ Pagina'
  BY <1>5 DEF Reposo, Descarga, Pagina, L!PaginadoSinHuecos
<1> QED BY <1>2, <1>5, <1>6, LecturaPaso

\* What is read of the log is finite.
LEMMA FiltradosFinitos ==
  ASSUME TiposLog, NEW d
  PROVE  L!Filtrados(d) \in SUBSET Asientos /\ IsFiniteSet(L!Filtrados(d))
<1>1. L!Filtrados(d) \subseteq log
  BY DEF L!Filtrados
<1> QED BY <1>1, FS_Subset DEF TiposLog

\* The count of a page: the first one fixes what the client must meet, and the quarter may change.
LEMMA PasoContar ==
  ASSUME LogInv, L!Contar
  PROVE  LogInv'
<1> DEFINE d == L!InicioTrimestre(instante)
           S == L!Filtrados(d)
<1>0. TiposLog /\ cliente \in Clientes /\ instante \in Nat \ {0}
  BY DEF LogInv, TiposLog
<1>1. d \in Nat
  BY <1>0, InicioCrece
<1>2. S \in SUBSET Asientos /\ IsFiniteSet(S)
  BY <1>0, FiltradosFinitos
<1>3. L!Cardinality(S) \in Nat
  BY <1>2, MismaCardinalidad, FS_CardinalityType
<1>4. /\ cliente.fase = "contar"
      /\ cliente' = [cliente EXCEPT !.fase = "leer", !.total = L!Cardinality(S), !.desde = d,
                                    !.primero = IF cliente.pagina = 1 THEN d ELSE cliente.primero,
                                    !.iniciales = IF cliente.pagina = 1 THEN S ELSE cliente.iniciales]
      /\ instante' = instante /\ log' = log /\ pendientes' = pendientes /\ alerta' = alerta
  BY DEF L!Contar, L!Sirve
<1> DEFINE n == L!Cardinality(S)
           i == IF cliente.pagina = 1 THEN S ELSE cliente.iniciales
           p == IF cliente.pagina = 1 THEN d ELSE cliente.primero
<1>5. n \in Nat /\ i \in SUBSET Asientos /\ p \in Nat
  BY <1>0, <1>1, <1>2, <1>3 DEF Clientes
<1>6. cliente' = [cliente EXCEPT !.fase = "leer", !.total = n, !.desde = d, !.primero = p, !.iniciales = i]
  BY <1>4
<1>7. p = (IF cliente.pagina = 1 THEN d ELSE cliente.primero) /\ i = (IF cliente.pagina = 1 THEN S ELSE cliente.iniciales)
  OBVIOUS
<1> HIDE DEF n, i, p, d, S
<1>8. /\ cliente' \in Clientes /\ cliente'.fase = "leer" /\ cliente'.tipo = cliente.tipo /\ cliente'.desde = d
      /\ cliente'.primero = p /\ cliente'.iniciales = i /\ cliente'.vistos = cliente.vistos
      /\ cliente'.pagina = cliente.pagina /\ cliente'.orden = cliente.orden
      /\ cliente'.org = cliente.org /\ cliente'.excluye = cliente.excluye
  BY <1>0, <1>1, <1>5, <1>6 DEF Clientes
<1>9. cliente.tipo \in {"total", "corta"}
  BY <1>0, <1>4 DEF LogInv, Reposo, Descarga, Clientes
<1>10. Reposo' /\ Descarga'
  BY <1>8, <1>9 DEF Reposo, Descarga
<1>11. \A x : L!Filtrados(x)' = L!Filtrados(x)
  BY <1>4, <1>8 DEF L!Filtrados, L!Visible
<1>12. L!Filtrados(cliente.primero)' = L!Filtrados(p)
  BY <1>4, <1>8 DEF L!Filtrados, L!Visible
<1>13. L!InicioTrimestre(instante)' = d
  BY <1>4 DEF d, L!InicioTrimestre
<1>14. \A r : Previos(r)' = {x \in L!Filtrados(p) : L!Antes(x, r, cliente.orden)}
  BY <1>8, <1>12 DEF Previos, L!Antes, L!Clave
<1>15. Tamano \in Nat
  BY ConstantesLog
<1>16. CASE cliente.pagina = 1
  <2>1. p = d /\ i = S /\ cliente.vistos = {}
    BY <1>4, <1>7, <1>9, <1>16 DEF LogInv, Pagina
  <2>2. ASSUME NEW r PROVE Pendiente(r)'
    <3>1. Previos(r)' \subseteq L!Filtrados(p) /\ IsFiniteSet(L!Filtrados(p))
      BY <1>0, <1>14, FiltradosFinitos
    <3>2. IsFiniteSet(Previos(r)')
      BY <3>1, FS_Subset
    <3>3. Cardinality(Previos(r)') \in Nat
      BY <3>2, FS_CardinalityType
    <3>4. (cliente'.pagina - 1) * Tamano = 0
      BY <1>8, <1>15, <1>16
    <3>5. Cardinality(Previos(r)') >= (cliente'.pagina - 1) * Tamano
      BY <3>3, <3>4
    <3> QED BY <3>5 DEF Pendiente
  <2>3. cliente'.primero <= cliente'.desde /\ cliente'.desde <= L!InicioTrimestre(instante)'
    BY <1>1, <1>8, <1>13, <2>1
  <2>4. cliente'.iniciales \subseteq L!Filtrados(cliente.primero)'
    BY <1>8, <1>12, <2>1 DEF S
  <2>5. Pagina'
    BY <1>8, <2>2, <2>3, <2>4 DEF Pagina, L!PaginadoSinHuecos
  <2> QED BY <1>4, <1>8, <1>10, <2>5, LecturaPaso
<1>17. CASE cliente.pagina # 1
  <2>1. cliente.pagina > 1
    BY <1>0, <1>17 DEF Clientes
  <2>2. p = cliente.primero /\ i = cliente.iniciales
    BY <1>7, <1>17
  <2>3. /\ cliente.primero <= cliente.desde /\ cliente.desde <= d
        /\ cliente.iniciales \subseteq L!Filtrados(cliente.primero)
        /\ cliente.desde = cliente.primero => \A r \in cliente.iniciales \ cliente.vistos : Pendiente(r)
    BY <1>4, <1>9, <2>1 DEF LogInv, Pagina, d
  <2>4. cliente.primero \in Nat /\ cliente.desde \in Nat
    BY <1>0 DEF Clientes
  <2>5. cliente'.primero <= cliente'.desde /\ cliente'.desde <= L!InicioTrimestre(instante)'
    BY <1>1, <1>8, <1>13, <2>2, <2>3, <2>4
  <2>6. cliente'.iniciales \subseteq L!Filtrados(cliente.primero)'
    BY <1>8, <1>12, <2>2, <2>3
  <2>7. cliente'.desde = cliente'.primero => cliente.desde = cliente.primero
    BY <1>1, <1>8, <2>2, <2>3, <2>4
  <2>8. \A r : Previos(r)' = Previos(r)
    BY <1>14, <2>2 DEF Previos
  <2>9. \A r : Pendiente(r) => Pendiente(r)'
    BY <1>8, <2>8 DEF Pendiente
  <2>10. cliente'.desde = cliente'.primero => \A r \in cliente'.iniciales \ cliente'.vistos : Pendiente(r)'
    BY <1>8, <2>2, <2>3, <2>7, <2>9
  <2>11. Pagina'
    BY <1>8, <2>5, <2>6, <2>10 DEF Pagina, L!PaginadoSinHuecos
  <2> QED BY <1>4, <1>8, <1>10, <2>11, LecturaPaso
<1> QED BY <1>16, <1>17

\* A page of a listing: it has every record from its offset to its end, and is
\* short only when the listing ends in it.
LEMMA Hoja ==
  ASSUME NEW X, NEW s \in Seq(X), NEW k \in Nat, NEW b \in Nat \ {0}, NEW h \in Nat,
         h = IF Len(s) < k + b THEN Len(s) ELSE k + b
  PROVE  /\ SubSeq(s, k + 1, h) \in Seq(X)
         /\ \A i \in 1..Len(s) : k < i /\ i <= k + b =>
              \E j \in 1..Len(SubSeq(s, k + 1, h)) : SubSeq(s, k + 1, h)[j] = s[i]
         /\ Len(SubSeq(s, k + 1, h)) < b => Len(s) < k + b
<1>0. Len(s) \in Nat /\ \A i \in 1..Len(s) : s[i] \in X
  OBVIOUS
<1>1. \A i \in (k + 1)..h : s[i] \in X
  BY <1>0
<1> DEFINE t == SubSeq(s, k + 1, h)
<1>2. /\ t \in Seq(X) /\ Len(t) = IF k + 1 <= h THEN h - (k + 1) + 1 ELSE 0
      /\ \A i \in 1..(h - (k + 1) + 1) : t[i] = s[(k + 1) + i - 1]
  BY <1>1, SubSeqProperties
<1> HIDE DEF t
<1>3. ASSUME NEW i \in 1..Len(s), k < i, i <= k + b
      PROVE  \E j \in 1..Len(t) : t[j] = s[i]
  <2>1. i \in Nat /\ i <= h
    BY <1>0, <1>3
  <2>2. i - k \in 1..Len(t) /\ i - k \in 1..(h - (k + 1) + 1) /\ (k + 1) + (i - k) - 1 = i
    BY <1>2, <1>3, <2>1
  <2>3. t[i - k] = s[i]
    BY <1>2, <2>2
  <2> QED BY <2>2, <2>3
<1>4. ASSUME Len(t) < b PROVE Len(s) < k + b
  BY <1>0, <1>2, <1>4
<1> QED BY <1>2, <1>3, <1>4 DEF t

\* The pages that a total promises cover it.
LEMMA Cubre ==
  ASSUME NEW n \in Nat, NEW p \in Nat \ {0}, p >= L!Paginas(n)
  PROVE  n <= p * Tamano
<1> DEFINE q == (n + Tamano - 1) \div Tamano
<1>0. Tamano \in Nat \ {0}
  BY ConstantesLog
<1>1. n + Tamano - 1 \in Nat
  BY <1>0
<1>2. q \in Nat /\ n + Tamano - 1 < q * Tamano + Tamano
  BY <1>0, <1>1, Division
<1>3. L!Paginas(n) = q
  BY DEF L!Paginas
<1> HIDE DEF q
<1>4. q <= p
  BY <1>3
<1> DEFINE x == q * Tamano
           y == p * Tamano
<1>5. x <= y
  BY <1>0, <1>2, <1>4, ProductoCrece
<1>6. x \in Nat /\ y \in Nat
  BY <1>0, <1>2
<1>7. n + Tamano - 1 < x + Tamano
  BY <1>2
<1> HIDE DEF x, y
<1>8. n <= y
  BY <1>0, <1>5, <1>6, <1>7
<1> QED BY <1>8 DEF y

\* A page: a record that is not in it and was not met before has this page
\* before it too, so the last page leaves none.
LEMMA PasoLeer ==
  ASSUME LogInv, L!Leer
  PROVE  LogInv'
<1> DEFINE S == L!Filtrados(cliente.desde)
           k == (cliente.pagina - 1) * Tamano
<1>0. TiposLog /\ cliente \in Clientes
  BY DEF LogInv, TiposLog
<1>1. S \in SUBSET Asientos /\ IsFiniteSet(S) /\ Cardinality(S) \in Nat /\ L!Cardinality(S) = Cardinality(S)
  BY <1>0, FiltradosFinitos, MismaCardinalidad, FS_CardinalityType
<1>2. Tamano \in Nat \ {0} /\ cliente.pagina \in Nat \ {0} /\ cliente.orden \in L!Opciones
  BY <1>0, ConstantesLog DEF Clientes
<1>3. k \in Nat /\ k + Tamano = cliente.pagina * Tamano
  BY <1>2, Siguiente
<1>4. cliente.fase = "leer"
  BY Zenon DEF L!Leer
<1> DEFINE H(s) == IF Len(s) < k + Tamano THEN Len(s) ELSE k + Tamano
           I(s) == SubSeq(s, k + 1, H(s))
           U(s) == IF cliente.tipo = "total" THEN cliente.pagina >= L!Paginas(cliente.total)
                                             ELSE Len(I(s)) < Tamano
<1>5. PICK s \in L!Listados(S, cliente.orden) :
        /\ cliente' = [cliente EXCEPT !.vistos = cliente.vistos \cup {I(s)[i] : i \in 1..Len(I(s))},
                                      !.crecio = L!Cardinality(S) > cliente.total,
                                      !.pagina = cliente.pagina + 1,
                                      !.fase = IF U(s) THEN "fin" ELSE "contar"]
        /\ instante' = instante /\ log' = log /\ pendientes' = pendientes /\ alerta' = alerta
  BY DEF L!Leer, L!Sirve
<1>6. /\ s \in Seq(S) /\ Len(s) = Cardinality(S)
      /\ \A r \in S : \E i \in 1..Len(s) : s[i] = r
      /\ \A i \in 1..Len(s) : Cardinality({x \in S : L!Antes(x, s[i], cliente.orden)}) = i - 1
  BY <1>1, <1>2, <1>5, Listado
<1> DEFINE t == I(s)
           g == {t[i] : i \in 1..Len(t)}
           u == U(s)
           m == L!Cardinality(S) > cliente.total
           f == IF u THEN "fin" ELSE "contar"
<1>7. /\ t \in Seq(S) /\ \A i \in 1..Len(s) : k < i /\ i <= k + Tamano => \E j \in 1..Len(t) : t[j] = s[i]
      /\ Len(t) < Tamano => Len(s) < k + Tamano
  <2>1. H(s) \in Nat
    BY <1>1, <1>2, <1>3, <1>6
  <2>2. H(s) = IF Len(s) < k + Tamano THEN Len(s) ELSE k + Tamano
    OBVIOUS
  <2> HIDE DEF H, k, S
  <2> QED BY <1>2, <1>3, <1>6, <2>1, <2>2, Hoja, ZenonT(60)
<1>8. u <=> IF cliente.tipo = "total" THEN cliente.pagina >= L!Paginas(cliente.total) ELSE Len(t) < Tamano
  OBVIOUS
<1>9. cliente' = [cliente EXCEPT !.vistos = cliente.vistos \cup g, !.crecio = m, !.pagina = cliente.pagina + 1, !.fase = f]
  BY <1>5
<1>10. f = (IF u THEN "fin" ELSE "contar") /\ (m <=> Cardinality(S) > cliente.total) /\ m \in BOOLEAN
  BY <1>1
<1>11. \A r : r \in g <=> \E j \in 1..Len(t) : t[j] = r
  OBVIOUS
<1> HIDE DEF H, I, U, t, g, u, m, f
<1>12. g \subseteq Asientos
  BY <1>1, <1>7, <1>11
<1> HIDE DEF S, k
<1>13. cliente.pagina + 1 \in Nat \ {0} /\ cliente.vistos \cup g \in SUBSET Asientos
       /\ f \in {"nada", "contar", "leer", "fin", "fila", "agotado", "cortada"}
  BY <1>0, <1>2, <1>10, <1>12 DEF Clientes
<1>14. /\ cliente' \in Clientes /\ cliente'.fase = f /\ cliente'.tipo = cliente.tipo /\ cliente'.desde = cliente.desde
       /\ cliente'.primero = cliente.primero /\ cliente'.iniciales = cliente.iniciales
       /\ cliente'.vistos = cliente.vistos \cup g
       /\ cliente'.pagina = cliente.pagina + 1 /\ cliente'.orden = cliente.orden
       /\ cliente'.org = cliente.org /\ cliente'.excluye = cliente.excluye /\ cliente'.crecio = m
  BY <1>0, <1>9, <1>10, <1>13, ZenonT(60) DEF Clientes
<1>15. cliente.tipo \in {"total", "corta"}
  BY <1>0, <1>4 DEF LogInv, Reposo, Descarga, Clientes
<1>16. Reposo' /\ Descarga'
  BY <1>14, <1>15 DEF Reposo, Descarga
<1>17. L!Filtrados(cliente.primero)' = L!Filtrados(cliente.primero)
  BY <1>5, <1>14 DEF L!Filtrados, L!Visible
<1>18. L!InicioTrimestre(instante)' = L!InicioTrimestre(instante)
  BY <1>5 DEF L!InicioTrimestre
<1>19. \A r : Previos(r)' = Previos(r)
  BY <1>14, <1>17 DEF Previos, L!Antes, L!Clave
<1>20. /\ cliente.primero <= cliente.desde /\ cliente.desde <= L!InicioTrimestre(instante)
       /\ cliente.iniciales \subseteq L!Filtrados(cliente.primero)
       /\ cliente.desde = cliente.primero => \A r \in cliente.iniciales \ cliente.vistos : Pendiente(r)
  BY <1>4, <1>15 DEF LogInv, Pagina
<1>21. ASSUME cliente.desde = cliente.primero, NEW r \in cliente.iniciales, r \notin cliente.vistos, r \notin g
       PROVE  \E i \in 1..Len(s) : Cardinality(Previos(r)) = i - 1 /\ i > k + Tamano
  <2>1. S = L!Filtrados(cliente.primero)
    BY <1>21 DEF S
  <2>2. PICK i \in 1..Len(s) : s[i] = r
    BY <1>6, <1>20, <1>21, <2>1
  <2>3. Cardinality(Previos(r)) = i - 1
    BY <1>6, <2>1, <2>2 DEF Previos
  <2>4. Cardinality(Previos(r)) >= k
    BY <1>20, <1>21 DEF Pendiente, k
  <2>5. i \in Nat /\ k < i
    BY <1>3, <1>6, <2>3, <2>4
  <2>6. ~(i <= k + Tamano)
    BY <1>7, <1>11, <1>21, <2>2, <2>5
  <2>7. i > k + Tamano
    BY <1>2, <1>3, <2>5, <2>6
  <2> QED BY <2>3, <2>7
<1>22. ASSUME cliente.desde = cliente.primero, NEW r \in cliente.iniciales, r \notin cliente.vistos, r \notin g
       PROVE  Pendiente(r)'
  <2>1. PICK i \in 1..Len(s) : Cardinality(Previos(r)) = i - 1 /\ i > k + Tamano
    BY <1>21, <1>22
  <2>2. (cliente'.pagina - 1) * Tamano = k + Tamano
    BY <1>2, <1>3, <1>14
  <2>3. Cardinality(Previos(r)') >= k + Tamano
    BY <1>2, <1>3, <1>19, <2>1
  <2>4. Cardinality(Previos(r)') >= (cliente'.pagina - 1) * Tamano
    BY <2>2, <2>3
  <2> QED BY <2>4 DEF Pendiente
<1>23. ASSUME u, cliente.desde = cliente.primero, NEW r \in cliente.iniciales, r \notin cliente.vistos, r \notin g
       PROVE  cliente.tipo = "total" /\ m
  <2>1. PICK i \in 1..Len(s) : i > k + Tamano
    BY <1>21, <1>23
  <2>2. Len(s) \in Nat /\ ~(Len(s) < k + Tamano) /\ Len(s) > k + Tamano
    BY <1>1, <1>2, <1>3, <1>6, <2>1
  <2>3. cliente.tipo = "total" /\ cliente.pagina >= L!Paginas(cliente.total)
    BY <1>7, <1>8, <1>15, <1>23, <2>2
  <2>4. cliente.total \in Nat
    BY <1>0 DEF Clientes
  <2>5. cliente.total <= cliente.pagina * Tamano
    BY <1>2, <2>3, <2>4, Cubre
  <2>6. Cardinality(S) > cliente.total
    BY <1>1, <1>2, <1>3, <1>6, <2>2, <2>4, <2>5
  <2> QED BY <1>10, <2>3, <2>6
<1>24. L!PaginadoSinHuecos'
  <2>1. SUFFICES ASSUME cliente'.tipo \in {"total", "corta"}, cliente'.fase = "fin"
                 PROVE  \/ cliente'.iniciales \subseteq cliente'.vistos
                        \/ cliente'.desde # cliente'.primero
                        \/ cliente'.tipo = "total" /\ cliente'.crecio
    BY Zenon DEF L!PaginadoSinHuecos
  <2>2. u
    BY <1>10, <1>14, <2>1
  <2> QED BY <1>14, <1>23, <2>2
<1>25. Pagina'
  <2>1. cliente'.fase \in {"contar", "fin"} /\ ~(cliente'.fase = "contar" /\ cliente'.pagina = 1)
    BY <1>2, <1>10, <1>14
  <2>2. /\ cliente'.primero <= cliente'.desde /\ cliente'.desde <= L!InicioTrimestre(instante)'
        /\ cliente'.iniciales \subseteq L!Filtrados(cliente.primero)'
    BY <1>14, <1>17, <1>18, <1>20
  <2>3. cliente'.desde = cliente'.primero => \A r \in cliente'.iniciales \ cliente'.vistos : Pendiente(r)'
    BY <1>14, <1>22
  <2> QED BY <1>24, <2>1, <2>2, <2>3 DEF Pagina
<1> QED BY <1>5, <1>14, <1>16, <1>25, LecturaPaso

\* The download opens on the records of one moment, in the order of the log.
LEMMA PasoAbrir ==
  ASSUME LogInv, NEW o \in Organizaciones, L!AbrirExportacion(o)
  PROVE  LogInv'
<1> DEFINE S(e) == {r \in log : L!Visible(r, o) /\ r.accion \notin e /\ r.t >= L!InicioTrimestre(instante)}
           c == L!Cliente0
<1>0. TiposLog
  BY DEF LogInv
<1>a. PICK e \in L!Excluidas : \E s \in L!Listados(S(e), L!PorDefecto) :
        L!Sirve([[c EXCEPT !.org = o, !.excluye = e] EXCEPT !.tipo = "exporta", !.fase = "fila", !.foto = s])
  BY Zenon DEF L!AbrirExportacion
<1>1. PICK s \in L!Listados(S(e), L!PorDefecto) :
        /\ cliente' = [[c EXCEPT !.org = o, !.excluye = e] EXCEPT !.tipo = "exporta", !.fase = "fila", !.foto = s]
        /\ instante' = instante /\ log' = log /\ pendientes' = pendientes /\ alerta' = alerta
  BY <1>a DEF L!Sirve
<1>2. S(e) \in SUBSET Asientos /\ IsFiniteSet(S(e))
  <2>1. S(e) \subseteq log
    OBVIOUS
  <2> HIDE DEF S
  <2> QED BY <1>0, <2>1, FS_Subset DEF TiposLog
<1>3. L!PorDefecto \in L!Opciones
  BY DEF L!PorDefecto, L!Opciones
<1>4. s \in Seq(S(e))
  <2> HIDE DEF S
  <2> QED BY <1>1, <1>2, <1>3, Listado
<1> HIDE DEF S
<1>5. s \in Seq(Asientos)
  BY <1>2, <1>4
<1>6. c \in Clientes /\ c.leidas = 0
  BY ClienteNuevo
<1>7. o \in Alcances
  BY DEF Alcances
<1> HIDE DEF c
<1>8. /\ cliente' \in Clientes /\ cliente'.tipo = "exporta" /\ cliente'.fase = "fila" /\ cliente'.leidas = 0
      /\ cliente'.foto = s
  BY <1>1, <1>5, <1>6, <1>7 DEF Clientes
<1>9. 0 <= Len(cliente'.foto)
  BY <1>5, <1>8
<1>10. Reposo' /\ Descarga' /\ Pagina'
  BY <1>8, <1>9 DEF Reposo, Descarga, Pagina, L!ExportacionEntera
<1> QED BY <1>1, <1>8, <1>10, LecturaPaso

\* Only a download writes rows.
LEMMA EsDescarga ==
  ASSUME LogInv, cliente.fase \in {"fila", "agotado"}
  PROVE  /\ cliente.tipo = "exporta" /\ cliente \in Clientes
         /\ cliente.leidas \in Nat /\ cliente.recibidas \in Nat /\ cliente.foto \in Seq(Asientos)
         /\ Len(cliente.foto) \in Nat /\ cliente.leidas <= Len(cliente.foto)
         /\ cliente.fase = "agotado" /\ ~cliente.falla => cliente.leidas = Len(cliente.foto)
<1>1. cliente \in Clientes
  BY DEF LogInv, TiposLog
<1>2. cliente.tipo = "exporta"
  BY <1>1 DEF LogInv, Reposo, Pagina, Clientes
<1>3. cliente.leidas \in Nat /\ cliente.recibidas \in Nat /\ cliente.foto \in Seq(Asientos)
  BY <1>1 DEF Clientes
<1>4. Len(cliente.foto) \in Nat
  BY <1>3
<1> QED BY <1>1, <1>2, <1>3, <1>4 DEF LogInv, Descarga

\* What the steps of a download leave: as many rows as were read, and the whole
\* file only at its end.
LEMMA DescargaPaso ==
  ASSUME LogInv, cliente.fase \in {"fila", "agotado"},
         NEW n \in Nat, NEW m \in Nat, NEW f \in {"fila", "agotado", "cortada", "fin"}, NEW b \in BOOLEAN,
         cliente' = [cliente EXCEPT !.leidas = n, !.recibidas = m, !.fase = f, !.falla = b],
         n <= Len(cliente.foto), f = "agotado" /\ ~b => n = Len(cliente.foto), f = "fin" => m = Len(cliente.foto),
         instante' = instante, log' = log, pendientes' = pendientes, alerta' = alerta
  PROVE  LogInv'
<1>1. cliente.tipo = "exporta" /\ cliente \in Clientes
  BY EsDescarga
<1>2. /\ cliente' \in Clientes /\ cliente'.tipo = "exporta" /\ cliente'.fase = f /\ cliente'.leidas = n
      /\ cliente'.recibidas = m /\ cliente'.falla = b /\ cliente'.foto = cliente.foto
  BY <1>1 DEF Clientes
<1>3. Reposo' /\ Descarga' /\ Pagina'
  BY <1>2 DEF Reposo, Descarga, Pagina, L!ExportacionEntera
<1> QED BY <1>2, <1>3, LecturaPaso

\* A row is written, or cuts the connection.
LEMMA PasoFila ==
  ASSUME LogInv, L!EscribirFila
  PROVE  LogInv'
<1>1. cliente.fase = "fila" /\ cliente.leidas < Len(cliente.foto)
  BY Zenon DEF L!EscribirFila
<1>2. /\ cliente \in Clientes /\ cliente.leidas \in Nat /\ cliente.recibidas \in Nat /\ Len(cliente.foto) \in Nat
      /\ cliente.falla \in BOOLEAN
  BY <1>1, EsDescarga DEF Clientes
<1> DEFINE n == cliente.leidas + 1
<1>3. n \in Nat /\ n <= Len(cliente.foto)
  BY <1>1, <1>2
<1>4. /\ instante' = instante /\ log' = log /\ pendientes' = pendientes /\ alerta' = alerta
      /\ \/ \E sale \in BOOLEAN :
              cliente' = [cliente EXCEPT !.leidas = n, !.recibidas = IF sale THEN n ELSE cliente.recibidas]
         \/ cliente' = [cliente EXCEPT !.leidas = n, !.fase = "cortada"]
  BY DEF L!EscribirFila, L!Sirve
<1> HIDE DEF n
<1>5. ASSUME NEW sale \in BOOLEAN,
             cliente' = [cliente EXCEPT !.leidas = n, !.recibidas = IF sale THEN n ELSE cliente.recibidas]
      PROVE  LogInv'
  <2> DEFINE m == IF sale THEN n ELSE cliente.recibidas
  <2>1. m \in Nat
    BY <1>2, <1>3
  <2>2. cliente' = [cliente EXCEPT !.leidas = n, !.recibidas = m]
    BY <1>5
  <2> HIDE DEF m
  <2>3. cliente' = [cliente EXCEPT !.leidas = n, !.recibidas = m, !.fase = "fila", !.falla = cliente.falla]
    BY <1>1, <1>2, <2>2 DEF Clientes
  <2> QED BY <1>1, <1>2, <1>3, <1>4, <2>1, <2>3, DescargaPaso
<1>6. ASSUME cliente' = [cliente EXCEPT !.leidas = n, !.fase = "cortada"]
      PROVE  LogInv'
  <2>1. cliente' = [cliente EXCEPT !.leidas = n, !.recibidas = cliente.recibidas, !.fase = "cortada",
                                   !.falla = cliente.falla]
    BY <1>2, <1>6 DEF Clientes
  <2> QED BY <1>1, <1>2, <1>3, <1>4, <2>1, DescargaPaso
<1> QED BY <1>4, <1>5, <1>6

\* The cursor ends.
LEMMA PasoAgotar ==
  ASSUME LogInv, L!AgotarCursor
  PROVE  LogInv'
<1>1. PICK b \in BOOLEAN :
        /\ cliente.fase = "fila" /\ (~b => cliente.leidas = Len(cliente.foto))
        /\ cliente' = [cliente EXCEPT !.fase = "agotado", !.falla = b]
        /\ instante' = instante /\ log' = log /\ pendientes' = pendientes /\ alerta' = alerta
  BY DEF L!AgotarCursor, L!Sirve
<1>2. /\ cliente \in Clientes /\ cliente.leidas \in Nat /\ cliente.recibidas \in Nat /\ cliente.leidas <= Len(cliente.foto)
  BY <1>1, EsDescarga
<1>3. cliente' = [cliente EXCEPT !.leidas = cliente.leidas, !.recibidas = cliente.recibidas, !.fase = "agotado",
                                 !.falla = b]
  BY <1>1, <1>2 DEF Clientes
<1> QED BY <1>1, <1>2, <1>3, DescargaPaso

\* The end of the file.
LEMMA PasoTerminar ==
  ASSUME LogInv, L!Terminar
  PROVE  LogInv'
<1>1. /\ cliente.fase = "agotado"
      /\ instante' = instante /\ log' = log /\ pendientes' = pendientes /\ alerta' = alerta
      /\ \/ ~cliente.falla /\ cliente' = [cliente EXCEPT !.fase = "fin", !.recibidas = cliente.leidas]
         \/ cliente' = [cliente EXCEPT !.fase = "cortada"]
  BY DEF L!Terminar, L!Sirve
<1>2. /\ cliente \in Clientes /\ cliente.leidas \in Nat /\ cliente.recibidas \in Nat /\ cliente.leidas <= Len(cliente.foto)
      /\ (~cliente.falla => cliente.leidas = Len(cliente.foto)) /\ cliente.falla \in BOOLEAN
  BY <1>1, EsDescarga DEF Clientes
<1>3. CASE ~cliente.falla /\ cliente' = [cliente EXCEPT !.fase = "fin", !.recibidas = cliente.leidas]
  <2>1. cliente' = [cliente EXCEPT !.leidas = cliente.leidas, !.recibidas = cliente.leidas, !.fase = "fin",
                                   !.falla = cliente.falla]
    BY <1>2, <1>3 DEF Clientes
  <2> QED BY <1>1, <1>2, <1>3, <2>1, DescargaPaso
<1>4. CASE cliente' = [cliente EXCEPT !.fase = "cortada"]
  <2>1. cliente' = [cliente EXCEPT !.leidas = cliente.leidas, !.recibidas = cliente.recibidas, !.fase = "cortada",
                                   !.falla = cliente.falla]
    BY <1>2, <1>4 DEF Clientes
  <2> QED BY <1>1, <1>2, <2>1, DescargaPaso
<1> QED BY <1>1, <1>3, <1>4

\* The client leaves.
LEMMA PasoIrse ==
  ASSUME LogInv, L!Irse
  PROVE  LogInv'
<1>1. /\ cliente.fase \in {"fila", "agotado"} /\ cliente' = [cliente EXCEPT !.fase = "cortada"]
      /\ instante' = instante /\ log' = log /\ pendientes' = pendientes /\ alerta' = alerta
  BY DEF L!Irse, L!Sirve
<1>2. /\ cliente \in Clientes /\ cliente.leidas \in Nat /\ cliente.recibidas \in Nat /\ cliente.leidas <= Len(cliente.foto)
      /\ cliente.falla \in BOOLEAN
  BY <1>1, EsDescarga DEF Clientes
<1>3. cliente' = [cliente EXCEPT !.leidas = cliente.leidas, !.recibidas = cliente.recibidas, !.fase = "cortada",
                                 !.falla = cliente.falla]
  BY <1>1, <1>2 DEF Clientes
<1> QED BY <1>1, <1>2, <1>3, DescargaPaso

\* The empty log, and a client that asks for nothing.
LEMMA InicioLog ==
  ASSUME L!Init
  PROVE  LogInv
<1>1. instante = 1 /\ log = {} /\ pendientes = {} /\ alerta = L!SinAlerta /\ cliente = L!Cliente0
  BY DEF L!Init
<1>2. L!SinAlerta \in [faltan : SUBSET Alcances, filas : SUBSET Asientos] /\ L!SinAlerta.filas = {}
  BY DEF L!SinAlerta
<1>3. IsFiniteSet({})
  BY FS_EmptySet
<1>4. IsFiniteSet(log) /\ IsFiniteSet(pendientes) /\ IsFiniteSet(alerta.filas)
  BY <1>1, <1>2, <1>3
<1>5. cliente \in Clientes /\ cliente.tipo = "ninguno" /\ cliente.fase = "nada"
  BY <1>1, ClienteNuevo
<1>6. TiposLog
  BY <1>1, <1>2, <1>4, <1>5 DEF TiposLog
<1>7. Reposo /\ Descarga /\ Pagina
  BY <1>5 DEF Reposo, Descarga, Pagina
<1> QED BY <1>6, <1>7 DEF LogInv

\* Every step of the log.
LEMMA PasoLog ==
  ASSUME LogInv, [L!Next]_(L!vars)
  PROVE  LogInv'
<1>0. TiposLog
  BY DEF LogInv
<1>1. ASSUME UNCHANGED L!vars PROVE LogInv'
  <2>1. cliente' = cliente /\ log' = log /\ instante' = instante /\ pendientes' = pendientes /\ alerta' = alerta
    BY <1>1 DEF L!vars
  <2> QED BY <2>1 DEF LogInv, TiposLog, Reposo, Descarga, Pagina, L!ExportacionEntera, L!PaginadoSinHuecos,
                      L!InicioTrimestre, L!Filtrados, L!Visible, Pendiente, Previos, L!Antes, L!Clave
<1>2. CASE \/ L!Tic \/ L!CerrarAlerta
           \/ \E o \in Organizaciones, a \in Acciones : L!Tomar(o, a)
           \/ \E r \in pendientes : L!Confirmar(r)
           \/ \E audiencia \in SUBSET Organizaciones : L!AbrirAlerta(audiencia)
           \/ \E o \in alerta.faltan : L!InsertarAlerta(o)
  <2>1. cliente' = cliente
    BY <1>2 DEF L!Tic, L!CerrarAlerta, L!Tomar, L!Confirmar, L!AbrirAlerta, L!InsertarAlerta
  <2>2. TiposLog' /\ log \subseteq log' /\ instante' \in {instante, instante + 1}
    BY <1>0, <1>2, <2>1, Escribientes
  <2> QED BY <2>1, <2>2, EscribienPaso
<1>3. ASSUME NEW o \in Organizaciones, L!AbrirExportacion(o) PROVE LogInv'
  BY <1>3, PasoAbrir
<1>4. ASSUME NEW o \in Organizaciones, NEW tipo \in {"total", "corta"}, L!Pedir(tipo, o) PROVE LogInv'
  BY <1>4, PasoPedir
<1>5. CASE L!Contar \/ L!Leer
  BY <1>5, PasoContar, PasoLeer
<1>6. CASE L!EscribirFila \/ L!AgotarCursor \/ L!Terminar \/ L!Irse
  BY <1>6, PasoFila, PasoAgotar, PasoTerminar, PasoIrse
<1> QED BY <1>1, <1>2, <1>3, <1>4, <1>5, <1>6, Zenon DEF L!Next

\* The log and its reader keep the invariant, in every behaviour.
LEMMA LogSiempre == SpecPiezas => []LogInv
<1>1. Piezas => LogInv
  BY InicioLog DEF Piezas
<1>2. LogInv /\ [MuevePieza]_varsPiezas => LogInv'
  <2> SUFFICES ASSUME LogInv, [MuevePieza]_varsPiezas PROVE LogInv'
    OBVIOUS
  <2>1. [L!Next]_(L!vars)
    BY Zenon DEF MuevePieza, varsPiezas, varsLog, L!vars
  <2> QED BY <2>1, PasoLog
<1> QED BY <1>1, <1>2, PTL DEF SpecPiezas

\* A client that walks the pages misses no record that was there when it began,
\* and a download that ends as complete is complete.
THEOREM LecturaSiempre == SpecPiezas => []LecturaEntera
<1>1. LogInv => LecturaEntera
  <2> SUFFICES ASSUME LogInv PROVE L!PaginadoSinHuecos /\ L!ExportacionEntera
    BY DEF LecturaEntera, L!LecturaEntera
  <2>1. L!PaginadoSinHuecos
    BY DEF LogInv, Pagina, L!PaginadoSinHuecos
  <2>2. L!ExportacionEntera
    BY DEF LogInv, Descarga, L!ExportacionEntera
  <2> QED BY <2>1, <2>2
<1> QED BY <1>1, LogSiempre, PTL

===============================================================================
