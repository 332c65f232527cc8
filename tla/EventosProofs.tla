---------------------------- MODULE EventosProofs ----------------------------
(***************************************************************************)
(* Proofs about Eventos, for any number of connections, tickets, sessions  *)
(* and events and any size of the buffers: nothing is lost between the     *)
(* goroutine of a stream and its handler, a connection whose session is    *)
(* closed has a cut on its way, and the count of WebSockets is exact.      *)
(***************************************************************************)
EXTENDS Eventos, FiniteSetTheorems, SequenceTheorems, TLAPS

\* What each variable can hold.
SinLector == {"nada", "verifica", "suscribe", "reserva", "instancia"}
Motivos == {"", "sesion", "inactivo", "denegado", "sin_canal"}
Registros == [fase : Fases, tipo : {"sse", "ws"}, s : Sesiones \cup {Todas}, cola : Seq(Mensajes),
              lector : {"no", "lee", "entrega", "fin"}, mano : Nat, eventos : Seq(Nat),
              cierre : Motivos, entregados : Seq(Nat), omitidos : SUBSET Nat,
              desde : Nat, excusa : BOOLEAN]
Vales == [est : {"libre", "vigente", "gastado"}, tipo : {"sse", "ws"}, s : Sesiones \cup {Todas}]
Cuentas == [activo : BOOLEAN, admin : BOOLEAN, permiso : BOOLEAN]
Tipos ==
    /\ usuario \in Cuentas
    /\ sesion \in [Sesiones -> BOOLEAN]
    /\ ticket \in [Tickets -> Vales]
    /\ \A t \in Tickets : ticket[t].est = "vigente" => ticket[t].s \in Sesiones
    /\ con \in [Conexiones -> Registros]
    /\ avisos \subseteq Mensajes /\ \A m \in avisos : m.t # "evento"
    /\ publicados \in 0..MaxEventos

\* A connection, by the phase of its handler: nobody reads before it subscribes,
\* each kind has its own steps, and only an event in hand makes the reader wait.
Coherente(v) ==
    /\ (v.fase \in SinLector) = (v.lector = "no")
    /\ v.lector = "no" => v.cola = <<>> /\ v.eventos = <<>> /\ v.entregados = <<>> /\ v.mano = 0
    /\ v.fase = "suscribe" => v.tipo = "sse"
    /\ v.fase \in {"reserva", "instancia", "upgrade"} => v.tipo = "ws"
    /\ v.fase \notin {"nada", "fin"} => v.s \in Sesiones
    /\ v.fase = "fin" => v.lector = "fin" /\ v.tipo = "sse"
    /\ v.lector = "lee" => v.mano = 0
    /\ v.lector = "entrega" => v.mano # 0
ConexionesCoherentes == \A c \in Conexiones : Coherente(con[c])

\* The connections in use are the first ones.
EnOrdenDeLlegada == \E k \in Nat : {c \in Conexiones : ~En(c, "nada")} = 1..k

\* What a stream holds was published, in the order in which it was, and nothing
\* is missing: q is what was handed over, cola what the bus still has.
DeBus(cola) == {j \in DOMAIN cola : cola[j].t = "evento"}
Fiel(q, cola, omitidos, desde, hasta) ==
    /\ \A i \in DOMAIN q : q[i] <= hasta
    /\ \A j \in DeBus(cola) : cola[j].id <= hasta
    /\ \A i, j \in DOMAIN q : i < j => q[i] < q[j]
    /\ \A i, j \in DeBus(cola) : i < j => cola[i].id < cola[j].id
    /\ \A i \in DOMAIN q, j \in DeBus(cola) : q[i] < cola[j].id
    /\ \A e \in (desde + 1)..hasta :
         e \in omitidos \/ (\E i \in DOMAIN q : q[i] = e) \/ \E j \in DeBus(cola) : cola[j].id = e
Mano(v) == v.entregados \o v.eventos \o (IF v.mano = 0 THEN <<>> ELSE <<v.mano>>)
FielCon(v, vedados, hasta) == Fiel(Mano(v), v.cola, v.omitidos \cup vedados, v.desde, hasta)
StreamsFieles == \A c \in Conexiones : SSE(c) /\ Suscrita(c) => FielCon(con[c], Vedados, publicados)

\* The inductive invariant.
IInv == Tipos /\ ConexionesCoherentes /\ EnOrdenDeLlegada /\ StreamsFieles
        /\ CorteConCausa /\ CupoExacto

-----------------------------------------------------------------------------
(* What a step does to one connection *)

Acabada == [SinCon EXCEPT !.fase = "fin", !.lector = "fin"]

\* The handler or the reader of c makes n of its connection.
Avanza(c, n) ==
    LET v == con[c] IN
    \/ v.fase = "verifica" /\ v.tipo = "sse" /\ n = [v EXCEPT !.fase = "suscribe"]
    \/ v.fase = "verifica" /\ v.tipo = "ws" /\ n = [v EXCEPT !.fase = "reserva"]
    \/ v.fase = "reserva" /\ n = [v EXCEPT !.fase = "instancia"]
    \/ v.fase = "upgrade" /\ n = [v EXCEPT !.fase = "abierta"]
Suscribe(c, n) ==
    \/ con[c].fase = "suscribe" /\ n = [Suscripcion(c) EXCEPT !.fase = "abierta"]
    \/ con[c].fase = "instancia" /\ n = [Suscripcion(c) EXCEPT !.fase = "upgrade"]
Corta(c, n) == con[c].lector = "lee" /\ \E motivo \in Motivos : n = Cortada(c, motivo)
Lee(c, n) ==
    LET v == con[c]
        m == Head(v.cola)
        r == [v EXCEPT !.cola = Tail(@)]
    IN /\ v.lector = "lee" /\ v.cola # <<>>
       /\ \/ v.tipo = "ws" /\ ~MotivoDeCorteWS(m, v.s) /\ n = r
          \/ v.tipo = "sse" /\ ~MotivoDeCierre(m, v.s) /\ (m.t # "evento" \/ m.id \in Vedados) /\ n = r
          \/ v.tipo = "sse" /\ m.t = "evento" /\ n = [r EXCEPT !.lector = "entrega", !.mano = m.id]
          \/ v.tipo = "sse" /\ m.t = "evento" /\ n = [r EXCEPT !.omitidos = @ \cup {m.id}]
Entrega(c, n) ==
    /\ con[c].lector = "entrega" /\ Len(con[c].eventos) < CapCanal
    /\ n = [con[c] EXCEPT !.lector = "lee", !.mano = 0, !.eventos = Append(@, con[c].mano)]
Sirve(c, n) ==
    /\ con[c].fase = "abierta" /\ con[c].eventos # <<>>
    /\ n = [con[c] EXCEPT !.entregados = Append(@, Head(con[c].eventos)), !.eventos = Tail(@)]
Cambio(c, n) ==
    \/ con[c].fase # "nada" /\ n = Acabada
    \/ Avanza(c, n) \/ Suscribe(c, n) \/ Corta(c, n) \/ Lee(c, n) \/ Entrega(c, n) \/ Sirve(c, n)

\* One connection moves, and nothing of what the others look at.
Mueve(c, n) ==
    /\ con' = [con EXCEPT ![c] = n] /\ Cambio(c, n)
    /\ UNCHANGED <<sesion, ticket, avisos, publicados>>
Presenta(c, t) ==
    /\ c = Siguiente /\ ticket[t].est = "vigente"
    /\ con' = [con EXCEPT ![c] = [@ EXCEPT !.fase = "verifica", !.tipo = ticket[t].tipo, !.s = ticket[t].s]]
    /\ ticket' = [ticket EXCEPT ![t] = [@ EXCEPT !.est = "gastado", !.tipo = "sse", !.s = Todas]]
    /\ UNCHANGED <<sesion, avisos, publicados, conexiones>>

PasoDe(c) ==
    \/ Abrir(c) \/ Lector(c) \/ Cerrar(c) \/ ServirEvento(c)
    \/ ErrorAlAbrir(c) \/ RevisarAcceso(c) \/ BusSeCierra(c) \/ ClienteCierra(c)
    \/ PuedeVerFalla(c)

\* Connecting is the only step of a connection that looks at a ticket.
LEMMA ConectarPaso ==
    ASSUME NEW c \in Conexiones, NEW t \in Tickets, Conectar(c, t), con \in [Conexiones -> Registros]
    PROVE  Presenta(c, t)
<1>1. con' = [con EXCEPT ![c] = [@ EXCEPT !.fase = "verifica", !.tipo = ticket[t].tipo, !.s = ticket[t].s]]
  BY DEF Conectar
<1> QED BY <1>1 DEF Conectar, Presenta

\* An event that the user may not see is one it has no right to.
LEMMA NoVisible ==
    ASSUME NEW m \in Mensajes, m.t = "evento", ~PuedeVer(m)
    PROVE  m.id \in Vedados
<1>1. PICK i \in 1..MaxEventos : m = Evento(i)
  BY DEF Mensajes
<1>2. m.id = i /\ m.clase = ClaseDe[i] /\ ClaseDe[i] \in {"vm", "host", "dirigido"}
  BY <1>1, EventosAssumption DEF Evento
<1> QED BY <1>2 DEF PuedeVer, Vedados

\* A step of connection c is one of those changes.
LEMMA PasoMueve ==
    ASSUME Tipos, ConexionesCoherentes, NEW c \in Conexiones, PasoDe(c)
    PROVE  \E n : Mueve(c, n)
<1>t. con \in [Conexiones -> Registros] /\ con[c] \in Registros /\ Coherente(con[c])
      /\ con[c].tipo \in {"sse", "ws"}
  BY DEF Tipos, ConexionesCoherentes, Registros
<1>1. ASSUME con[c].fase # "nada", Termina(c), UNCHANGED acceso
      PROVE  Mueve(c, Acabada)
  BY <1>1 DEF Termina, Terminada, Mueve, Cambio, Acabada, acceso
<1>2. ASSUME NEW f, Pasa(c, f), Avanza(c, [con[c] EXCEPT !.fase = f]), UNCHANGED acceso
      PROVE  Mueve(c, [con[c] EXCEPT !.fase = f])
  BY <1>2 DEF Pasa, Mueve, Cambio, acceso
<1>3. ASSUME NEW motivo \in Motivos, con[c].lector = "lee", con' = [con EXCEPT ![c] = Cortada(c, motivo)],
             UNCHANGED acceso
      PROVE  Mueve(c, Cortada(c, motivo))
  BY <1>3 DEF Corta, Mueve, Cambio, acceso
<1>4. CASE VerificarConexion(c)
  BY <1>1, <1>2, <1>4 DEF VerificarConexion, En, SSE, Avanza
<1>5. CASE Suscribir(c)
  <2>1. CASE con' = [con EXCEPT ![c] = [Suscripcion(c) EXCEPT !.fase = "abierta"]]
    <3>1. Mueve(c, [Suscripcion(c) EXCEPT !.fase = "abierta"])
      BY <1>5, <2>1 DEF Suscribir, En, Mueve, Cambio, Suscribe, acceso
    <3> QED BY <3>1
  <2> QED BY <1>1, <1>5, <2>1 DEF Suscribir, En
<1>6. CASE VerificarWS(c)
  BY <1>t, <1>1, <1>2, <1>6 DEF VerificarWS, En, SSE, Avanza
<1>7. CASE ReservarConexion(c)
  BY <1>1, <1>2, <1>7 DEF ReservarConexion, En, Avanza
<1>8. CASE Vigilar(c)
  <2>1. Mueve(c, [Suscripcion(c) EXCEPT !.fase = "upgrade"])
    BY <1>8 DEF Vigilar, En, Mueve, Cambio, Suscribe, acceso
  <2> QED BY <2>1
<1>9. CASE Upgrade(c)
  BY <1>2, <1>9 DEF Upgrade, En, Avanza
<1>10. CASE LeerBus(c)
  <2> DEFINE v == con[c]
             m == Head(v.cola)
             r == [v EXCEPT !.cola = Tail(@)]
  <2>1. /\ v.lector = "lee" /\ v.tipo = "sse" /\ v.cola # <<>> /\ UNCHANGED acceso
        /\ con' = [con EXCEPT ![c] =
                     IF MotivoDeCierre(m, v.s) THEN Cortada(c, "sesion")
                     ELSE IF m.t # "evento" THEN r
                     ELSE IF ~usuario.activo THEN Cortada(c, "inactivo")
                     ELSE IF PuedeVer(m) THEN [r EXCEPT !.lector = "entrega", !.mano = m.id]
                     ELSE r]
    BY <1>10 DEF LeerBus, SSE
  <2>2. CASE con' = [con EXCEPT ![c] = Cortada(c, "sesion")] \/ con' = [con EXCEPT ![c] = Cortada(c, "inactivo")]
    BY <1>3, <2>1, <2>2 DEF Motivos
  <2>3. ASSUME NEW n, con' = [con EXCEPT ![c] = n], Lee(c, n)
        PROVE  Mueve(c, n)
    BY <2>1, <2>3 DEF Mueve, Cambio, acceso
  <2>4. CASE con' = [con EXCEPT ![c] = r] /\ m.t # "evento" /\ ~MotivoDeCierre(m, v.s)
    <3>1. Lee(c, r)
      BY <2>1, <2>4 DEF Lee
    <3> QED BY <2>3, <2>4, <3>1
  <2>5. CASE con' = [con EXCEPT ![c] = [r EXCEPT !.lector = "entrega", !.mano = m.id]] /\ m.t = "evento"
    <3>1. Lee(c, [r EXCEPT !.lector = "entrega", !.mano = m.id])
      BY <2>1, <2>5 DEF Lee
    <3> QED BY <2>3, <2>5, <3>1
  <2>6. CASE con' = [con EXCEPT ![c] = r] /\ ~MotivoDeCierre(m, v.s) /\ m.t = "evento" /\ ~PuedeVer(m)
    <3>1. m \in Mensajes
      BY <1>t, <2>1, HeadTailProperties DEF Registros
    <3>2. m.id \in Vedados
      BY <2>6, <3>1, NoVisible
    <3>3. Lee(c, r)
      BY <2>1, <2>6, <3>2 DEF Lee
    <3> QED BY <2>3, <2>6, <3>3
  <2> HIDE DEF m, v, r
  <2> QED BY <2>1, <2>2, <2>4, <2>5, <2>6
<1>18. CASE PuedeVerFalla(c)
  <2> DEFINE v == con[c]
             m == Head(v.cola)
             n == [v EXCEPT !.cola = Tail(@), !.omitidos = @ \cup {m.id}]
  <2>1. /\ v.lector = "lee" /\ v.tipo = "sse" /\ v.cola # <<>> /\ m.t = "evento" /\ UNCHANGED acceso
        /\ \/ con' = [con EXCEPT ![c] = Cortada(c, "inactivo")]
           \/ con' = [con EXCEPT ![c] = n]
    BY <1>18 DEF PuedeVerFalla, SSE
  <2>2. CASE con' = [con EXCEPT ![c] = Cortada(c, "inactivo")]
    BY <1>3, <2>1, <2>2 DEF Motivos
  <2>3. CASE con' = [con EXCEPT ![c] = n]
    <3>1. Lee(c, n)
      BY <2>1 DEF Lee
    <3> HIDE DEF n
    <3>2. Mueve(c, n)
      BY <2>1, <2>3, <3>1 DEF Mueve, Cambio, acceso
    <3> QED BY <3>2
  <2> QED BY <2>1, <2>2, <2>3
<1>11. CASE EntregarAlCanal(c)
  <2> DEFINE n == [con[c] EXCEPT !.lector = "lee", !.mano = 0, !.eventos = Append(@, con[c].mano)]
  <2>1. Entrega(c, n) /\ con' = [con EXCEPT ![c] = n] /\ UNCHANGED acceso
    BY <1>11 DEF EntregarAlCanal, Entrega
  <2> HIDE DEF n
  <2> QED BY <2>1 DEF Mueve, Cambio, acceso
<1>12. CASE LeerAviso(c)
  <2> DEFINE v == con[c]
             m == Head(v.cola)
             r == [v EXCEPT !.cola = Tail(@)]
  <2>1. /\ v.lector = "lee" /\ v.tipo = "ws" /\ v.cola # <<>> /\ UNCHANGED acceso
        /\ con' = [con EXCEPT ![c] = IF MotivoDeCorteWS(m, v.s) THEN Cortada(c, "sesion") ELSE r]
    <3>1. v.lector = "lee" /\ v.tipo = "ws" /\ v.cola # <<>> /\ UNCHANGED acceso
      BY <1>t, <1>12 DEF LeerAviso, SSE
    <3>2. con' = [con EXCEPT ![c] = IF MotivoDeCorteWS(m, v.s) THEN Cortada(c, "sesion") ELSE r]
      BY <1>12, Zenon DEF LeerAviso
    <3> QED BY <3>1, <3>2
  <2>2. CASE MotivoDeCorteWS(m, v.s)
    BY <1>3, <2>1, <2>2 DEF Motivos
  <2>3. CASE ~MotivoDeCorteWS(m, v.s)
    <3>1. Lee(c, r)
      BY <2>1, <2>3 DEF Lee
    <3>2. con' = [con EXCEPT ![c] = r]
      BY <2>1, <2>3
    <3> HIDE DEF r
    <3>3. Mueve(c, r)
      BY <2>1, <3>1, <3>2 DEF Mueve, Cambio, acceso
    <3> QED BY <3>3
  <2> QED BY <2>2, <2>3
<1>13. CASE ServirEvento(c)
  <2> DEFINE n == [con[c] EXCEPT !.entregados = Append(@, Head(con[c].eventos)), !.eventos = Tail(@)]
  <2>1. Sirve(c, n) /\ con' = [con EXCEPT ![c] = n] /\ UNCHANGED acceso
    BY <1>13 DEF ServirEvento, Sirve, En
  <2> HIDE DEF n
  <2> QED BY <2>1 DEF Mueve, Cambio, acceso
<1>14. CASE ServirCierre(c) \/ CierraPorApagado(c) \/ ClienteCierra(c)
  BY <1>1, <1>14 DEF ServirCierre, CierraPorApagado, ClienteCierra, Salir, LiberarConexion, En
<1>15. CASE ErrorAlAbrir(c)
  BY <1>1, <1>15 DEF ErrorAlAbrir, LiberarConexion
<1>16. CASE RevisarAcceso(c)
  BY <1>3, <1>16 DEF RevisarAcceso, Motivos
<1>17. CASE BusSeCierra(c)
  BY <1>3, <1>17 DEF BusSeCierra, Motivos
<1> QED BY <1>4, <1>5, <1>6, <1>7, <1>8, <1>9, <1>10, <1>11, <1>12, <1>13, <1>14, <1>15, <1>16, <1>17, <1>18
        DEF PasoDe, Abrir, Lector, Cerrar

\* What a message brings to connection c.
Recibe(m) == con' = [c \in Conexiones |-> Entregado(c, m)]
Cierra(m) == m.t # "evento" /\ m \in Mensajes

\* The steps of the rest of the system: an event reaches the bus, a notice
\* does, a notice is lost, some sessions are closed with their notices to come,
\* or a ticket is given or expires.
PublicaEvento ==
    /\ publicados < MaxEventos /\ publicados' = publicados + 1
    /\ Recibe(Evento(publicados + 1)) /\ UNCHANGED <<sesion, ticket, avisos>>
PublicaAviso(m) ==
    /\ avisos' = avisos \ {m} /\ Recibe(m) /\ UNCHANGED <<sesion, ticket, publicados>>
PierdeAviso(m) ==
    /\ avisos' = avisos \ {m}
    /\ con' = [c \in Conexiones |-> [con[c] EXCEPT !.excusa = @ \/ (Suscrita(c) /\ Pide(m, con[c].s))]]
    /\ UNCHANGED <<sesion, ticket, publicados>>
CierraSesiones ==
    /\ UNCHANGED <<con, ticket, publicados>>
    /\ avisos \subseteq avisos' /\ \A m \in avisos' : m \in Mensajes /\ m.t # "evento"
    /\ sesion' \in [Sesiones -> BOOLEAN]
    /\ \A s \in Sesiones : sesion[s] /\ ~sesion'[s] => \E m \in avisos' : Pide(m, s)
MueveVales ==
    /\ UNCHANGED <<con, sesion, avisos, publicados>>
    /\ ticket' \in [Tickets -> Vales]
    /\ \A t \in Tickets : ticket'[t].est = "vigente" => ticket'[t].s \in Sesiones

\* Every step of the system is one of these.
LEMMA Pasos ==
    ASSUME Tipos, ConexionesCoherentes, Next
    PROVE  \/ \E c \in Conexiones : PasoDe(c) \/ \E t \in Tickets : Conectar(c, t)
           \/ /\ UNCHANGED conexiones
              /\ \/ PublicaEvento \/ CierraSesiones \/ MueveVales
                 \/ \E m \in avisos : PublicaAviso(m) \/ PierdeAviso(m)
<1> DEFINE G == \/ PublicaEvento \/ CierraSesiones \/ MueveVales
                \/ \E m \in avisos : PublicaAviso(m) \/ PierdeAviso(m)
<1>t. /\ sesion \in [Sesiones -> BOOLEAN] /\ ticket \in [Tickets -> Vales]
      /\ \A t \in Tickets : ticket[t].est = "vigente" => ticket[t].s \in Sesiones
      /\ avisos \subseteq Mensajes /\ \A m \in avisos : m.t # "evento"
  BY DEF Tipos
<1>1. ASSUME NEW t \in Tickets, NEW w \in Vales, w.est = "vigente" => w.s \in Sesiones,
             ticket' = [ticket EXCEPT ![t] = w], UNCHANGED <<con, sesion, avisos, publicados>>
      PROVE  G
  <2>1. ticket' \in [Tickets -> Vales]
    BY <1>t, <1>1
  <2>2. \A u \in Tickets : ticket'[u].est = "vigente" => ticket'[u].s \in Sesiones
    BY <1>t, <1>1
  <2> QED BY <1>1, <2>1, <2>2 DEF MueveVales
<1>2. ASSUME NEW t \in Tickets, NEW s \in Sesiones, NEW tipo \in {"sse", "ws"}, EmitirTicket(t, s, tipo)
      PROVE  G /\ UNCHANGED conexiones
  <2> DEFINE w == [est |-> "vigente", tipo |-> tipo, s |-> s]
  <2>1. w \in Vales /\ w.s \in Sesiones
    BY DEF Vales
  <2>2. ticket' = [ticket EXCEPT ![t] = w] /\ UNCHANGED <<con, sesion, avisos, publicados, conexiones>>
    BY <1>2 DEF EmitirTicket
  <2> HIDE DEF w, G
  <2> QED BY <1>1, <2>1, <2>2
<1>3. ASSUME NEW t \in Tickets, VenceTicket(t)
      PROVE  G /\ UNCHANGED conexiones
  <2> DEFINE w == [ticket[t] EXCEPT !.est = "gastado", !.tipo = "sse", !.s = Todas]
  <2>1. w \in Vales /\ w.est = "gastado"
    BY <1>t DEF Vales
  <2>2. ticket' = [ticket EXCEPT ![t] = w] /\ UNCHANGED <<con, sesion, avisos, publicados, conexiones>>
    BY <1>3 DEF VenceTicket
  <2> HIDE DEF w, G
  <2> QED BY <1>1, <2>1, <2>2
<1>4. ASSUME NEW ss, NEW ms, CerrarSesiones(ss, ms), ms \subseteq Mensajes, \A m \in ms : m.t # "evento",
             \A s \in Sesiones \cap ss : sesion[s] => \E m \in ms : Pide(m, s)
      PROVE  G /\ UNCHANGED conexiones
  <2>1. sesion' \in [Sesiones -> BOOLEAN] /\ avisos' = avisos \cup ms
        /\ UNCHANGED <<con, ticket, publicados, conexiones>>
    BY <1>t, <1>4 DEF CerrarSesiones
  <2>2. ASSUME NEW s \in Sesiones, sesion[s], ~sesion'[s]
        PROVE  \E m \in avisos' : Pide(m, s)
    <3>1. s \in ss
      BY <1>4, <2>2 DEF CerrarSesiones
    <3> QED BY <1>4, <2>1, <2>2, <3>1
  <2> QED BY <1>t, <1>4, <2>1, <2>2 DEF CierraSesiones
<1>5. ASSUME NEW s \in Sesiones, Logout(s)
      PROVE  G /\ UNCHANGED conexiones
  <2>1. Aviso("logout", s) \in Mensajes /\ Aviso("logout", s).t = "logout" /\ Aviso("logout", s).s = s
    BY DEF Aviso, Mensajes
  <2> HIDE DEF G
  <2> QED BY <1>4, <1>5, <2>1 DEF Logout, Pide
<1>6. ASSUME NEW s \in Sesiones, RevocarOtras(s)
      PROVE  G /\ UNCHANGED conexiones
  <2> DEFINE otras == {x \in Sesiones \ {s} : sesion[x]}
             ms == {Aviso("revocadas", x) : x \in otras}
  <2>1. \A x \in otras : Aviso("revocadas", x) \in Mensajes /\ Aviso("revocadas", x).t = "revocadas"
                         /\ Aviso("revocadas", x).s = x
    BY DEF Aviso, Mensajes
  <2>2. ms \subseteq Mensajes /\ (\A m \in ms : m.t # "evento") /\ \A x \in otras : \E m \in ms : Pide(m, x)
    BY <2>1 DEF Pide
  <2>3. CerrarSesiones(otras, ms)
    BY <1>6 DEF RevocarOtras
  <2> HIDE DEF ms, otras, G
  <2> QED BY <1>4, <2>2, <2>3
<1>7. ASSUME RevocarTodas
      PROVE  G /\ UNCHANGED conexiones
  <2>1. Aviso("revocadas", Todas) \in Mensajes /\ Aviso("revocadas", Todas).t = "revocadas"
        /\ Aviso("revocadas", Todas).s = Todas
    BY DEF Aviso, Mensajes
  <2> HIDE DEF G
  <2> QED BY <1>4, <1>7, <2>1 DEF RevocarTodas, Pide
<1>8. ASSUME Publicar
      PROVE  G /\ UNCHANGED conexiones
  BY <1>8 DEF Publicar, PublicaEvento, Publish, Recibe
<1>9. ASSUME NEW m \in avisos, PublicarAviso(m) \/ PublicarAvisoFalla(m)
      PROVE  G /\ UNCHANGED conexiones
  BY <1>9 DEF PublicarAviso, PublicarAvisoFalla, PublicaAviso, PierdeAviso, Publish, Recibe
<1>10. ASSUME Suspender \/ QuitarPermiso \/ Apagar
       PROVE  G /\ UNCHANGED conexiones
  BY <1>t, <1>10 DEF Suspender, QuitarPermiso, Apagar, MueveVales
<1> HIDE DEF G
<1>11. (\E c \in Conexiones : PasoDe(c) \/ \E t \in Tickets : Conectar(c, t)) \/ (G /\ UNCHANGED conexiones)
  <2>1. ASSUME NEW c \in Conexiones,
               \/ \E t \in Tickets : Conectar(c, t)
               \/ Abrir(c) \/ Lector(c) \/ Cerrar(c) \/ ServirEvento(c)
               \/ ErrorAlAbrir(c) \/ RevisarAcceso(c) \/ BusSeCierra(c) \/ ClienteCierra(c)
               \/ PuedeVerFalla(c)
        PROVE  PasoDe(c) \/ \E t \in Tickets : Conectar(c, t)
    BY <2>1, Zenon DEF PasoDe
  <2>2. ASSUME NEW t \in Tickets, VenceTicket(t) \/ \E s \in Sesiones, tipo \in {"sse", "ws"} : EmitirTicket(t, s, tipo)
        PROVE  G /\ UNCHANGED conexiones
    BY <1>2, <1>3, <2>2
  <2>3. ASSUME NEW s \in Sesiones, Logout(s) \/ RevocarOtras(s)
        PROVE  G /\ UNCHANGED conexiones
    BY <1>5, <1>6, <2>3
  <2> QED BY <1>7, <1>8, <1>9, <1>10, <2>1, <2>2, <2>3 DEF Next
<1> QED BY <1>11 DEF G

-----------------------------------------------------------------------------
(* Types, and the connections by themselves *)

\* A message is an event, for everybody, or a notice; and the reader of a
\* session that does not take it for a reason to cut was not asked to.
LEMMA MensajeTipo ==
    ASSUME NEW m \in Mensajes
    PROVE  /\ m.id \in Nat /\ (m.t = "evento" => m.id # 0 /\ m.s = Todas)
           /\ \A s \in Sesiones : ~MotivoDeCierre(m, s) \/ ~MotivoDeCorteWS(m, s) => ~Pide(m, s)
           /\ \A s \in Sesiones : m.t = "evento" => ~Pide(m, s)
<1>1. MaxEventos \in Nat /\ Todas \notin Sesiones
  BY EventosAssumption
<1>2. m.id \in Nat /\ (m.t = "evento" => m.id # 0 /\ m.s = Todas) /\ m.t \in {"evento", "logout", "revocadas"}
      /\ (m.t = "logout" => m.s # Todas)
  BY <1>1 DEF Mensajes, Evento
<1> QED BY <1>1, <1>2 DEF MotivoDeCierre, MotivoDeCorteWS, Pide

\* A connection that nobody used, and one that ended.
LEMMA InicioCon ==
    /\ SinCon \in Registros /\ Acabada \in Registros /\ Coherente(SinCon) /\ Coherente(Acabada)
    /\ SinCon.fase = "nada" /\ SinCon.lector = "no" /\ Acabada.fase = "fin" /\ Acabada.lector = "fin"
    /\ Acabada.tipo = "sse"
<1>1. <<>> \in Seq(Mensajes) /\ <<>> \in Seq(Nat) /\ {} \in SUBSET Nat
  OBVIOUS
<1>2. SinCon \in Registros
  BY <1>1 DEF SinCon, Registros, Motivos, Fases
<1>3. Acabada \in Registros /\ Acabada.fase = "fin" /\ Acabada.lector = "fin" /\ Acabada.tipo = SinCon.tipo
  BY <1>2 DEF Acabada, Registros, Fases
<1>4. SinCon.tipo = "sse"
  BY DEF SinCon
<1>5. SinCon.fase = "nada" /\ SinCon.lector = "no" /\ SinCon.mano = 0
  BY DEF SinCon
<1>8. SinCon.cola = <<>> /\ SinCon.eventos = <<>> /\ SinCon.entregados = <<>>
  BY Zenon DEF SinCon
<1>6. Acabada.fase = "fin" /\ Acabada.lector = "fin" /\ Acabada.tipo = "sse"
  BY <1>3, <1>4
<1>7. Coherente(SinCon) /\ Coherente(Acabada)
  BY <1>5, <1>6, <1>8 DEF Coherente, SinLector
<1> QED BY <1>2, <1>3, <1>5, <1>6, <1>7

\* What the reader finds at the head of the bus.
LEMMA Cabeza ==
    ASSUME NEW c \in Conexiones, con[c] \in Registros, con[c].cola # <<>>
    PROVE  Head(con[c].cola) \in Mensajes /\ Tail(con[c].cola) \in Seq(Mensajes)
BY HeadTailProperties DEF Registros

\* A change of a connection keeps its type and its coherence.
LEMMA CambioCoherente ==
    ASSUME NEW c \in Conexiones, NEW n, con[c] \in Registros, Coherente(con[c]), publicados \in Nat, Cambio(c, n)
    PROVE  n \in Registros /\ Coherente(n)
<1> DEFINE v == con[c]
<1>t. v \in Registros /\ Coherente(v)
  OBVIOUS
<1>1. CASE n = Acabada
  BY <1>1, InicioCon
<1>2. CASE Avanza(c, n)
  <2>1. CASE v.fase = "verifica" /\ v.tipo = "sse" /\ n = [v EXCEPT !.fase = "suscribe"]
    BY <1>t, <2>1 DEF Registros, Coherente, SinLector, Fases
  <2>2. CASE v.fase = "verifica" /\ v.tipo = "ws" /\ n = [v EXCEPT !.fase = "reserva"]
    BY <1>t, <2>2 DEF Registros, Coherente, SinLector, Fases
  <2>3. CASE v.fase = "reserva" /\ n = [v EXCEPT !.fase = "instancia"]
    BY <1>t, <2>3 DEF Registros, Coherente, SinLector, Fases
  <2>4. CASE v.fase = "upgrade" /\ n = [v EXCEPT !.fase = "abierta"]
    BY <1>t, <2>4 DEF Registros, Coherente, SinLector, Fases
  <2> QED BY <1>2, <2>1, <2>2, <2>3, <2>4 DEF Avanza
<1>3. CASE Suscribe(c, n)
  <2>1. PICK x \in BOOLEAN : Suscripcion(c) = [v EXCEPT !.lector = "lee", !.desde = publicados, !.excusa = x]
    BY DEF Suscripcion
  <2>2. PICK f \in {"abierta", "upgrade"} :
           /\ n = [v EXCEPT !.fase = f, !.lector = "lee", !.desde = publicados, !.excusa = x]
           /\ f = "abierta" => v.fase = "suscribe"
           /\ f = "upgrade" => v.fase = "instancia"
    BY <1>3, <2>1 DEF Suscribe
  <2>3. n \in Registros
    BY <1>t, <2>1, <2>2 DEF Registros, Fases
  <2>4. n.fase = f /\ n.lector = "lee" /\ n.tipo = v.tipo /\ n.s = v.s /\ n.mano = v.mano
    BY <1>t, <2>2 DEF Registros
  <2> QED BY <1>t, <2>2, <2>3, <2>4 DEF Coherente, SinLector
<1>4. CASE Corta(c, n)
  <2>1. PICK motivo \in Motivos : v.lector = "lee"
             /\ n = [v EXCEPT !.cierre = motivo, !.lector = "fin", !.cola = <<>>, !.mano = 0]
    BY <1>4 DEF Corta, Cortada
  <2>2. <<>> \in Seq(Mensajes)
    OBVIOUS
  <2>3. n \in Registros
    BY <1>t, <2>1, <2>2 DEF Registros
  <2>4. n.fase = v.fase /\ n.lector = "fin" /\ n.tipo = v.tipo /\ n.s = v.s
    BY <1>t, <2>1 DEF Registros
  <2> QED BY <1>t, <2>1, <2>3, <2>4 DEF Coherente, SinLector
<1>5. CASE Lee(c, n)
  <2> DEFINE m == Head(v.cola)
             q == Tail(v.cola)
  <2>1. m \in Mensajes /\ q \in Seq(Mensajes) /\ v.lector = "lee" /\ m.id \in Nat
        /\ (m.t = "evento" => m.id # 0)
    BY <1>5, Cabeza, MensajeTipo DEF Lee
  <2>2. \/ n = [v EXCEPT !.cola = q]
        \/ m.t = "evento" /\ n = [v EXCEPT !.cola = q, !.lector = "entrega", !.mano = m.id]
        \/ n = [v EXCEPT !.cola = q, !.omitidos = v.omitidos \cup {m.id}]
    BY <1>5 DEF Lee
  <2> HIDE DEF m, q
  <2>3. CASE n = [v EXCEPT !.cola = q]
    BY <1>t, <2>1, <2>3 DEF Registros, Coherente, SinLector
  <2>4. CASE m.t = "evento" /\ n = [v EXCEPT !.cola = q, !.lector = "entrega", !.mano = m.id]
    BY <1>t, <2>1, <2>4 DEF Registros, Coherente, SinLector
  <2>5. CASE n = [v EXCEPT !.cola = q, !.omitidos = v.omitidos \cup {m.id}]
    BY <1>t, <2>1, <2>5 DEF Registros, Coherente, SinLector
  <2> QED BY <2>2, <2>3, <2>4, <2>5
<1>6. CASE Entrega(c, n)
  <2> DEFINE q == Append(v.eventos, v.mano)
  <2>1. q \in Seq(Nat) /\ v.lector = "entrega" /\ n = [v EXCEPT !.lector = "lee", !.mano = 0, !.eventos = q]
    BY <1>t, <1>6 DEF Entrega, Registros
  <2> HIDE DEF q
  <2> QED BY <1>t, <2>1 DEF Registros, Coherente, SinLector
<1>7. CASE Sirve(c, n)
  <2> DEFINE q == Tail(v.eventos)
             a == Append(v.entregados, Head(v.eventos))
  <2>1. v.eventos \in Seq(Nat) /\ v.eventos # <<>> /\ v.entregados \in Seq(Nat) /\ v.fase = "abierta"
        /\ n = [v EXCEPT !.entregados = a, !.eventos = q]
    BY <1>t, <1>7 DEF Sirve, Registros
  <2>2. q \in Seq(Nat) /\ a \in Seq(Nat)
    BY <2>1, HeadTailProperties, AppendProperties
  <2> HIDE DEF q, a
  <2> QED BY <1>t, <2>1, <2>2 DEF Registros, Coherente, SinLector
<1> QED BY <1>1, <1>2, <1>3, <1>4, <1>5, <1>6, <1>7 DEF Cambio

\* So does a message, whether there is room for it or not.
LEMMA RecibeCoherente ==
    ASSUME NEW c \in Conexiones, NEW m \in Mensajes, con[c] \in Registros, Coherente(con[c])
    PROVE  /\ Entregado(c, m) \in Registros /\ Coherente(Entregado(c, m))
           /\ Entregado(c, m).fase = con[c].fase /\ Entregado(c, m).tipo = con[c].tipo
           /\ Entregado(c, m).lector = con[c].lector /\ Entregado(c, m).s = con[c].s
<1> DEFINE v == con[c]
<1>t. v \in Registros /\ Coherente(v) /\ m.id \in Nat
  BY MensajeTipo
<1>1. CASE ~Suscrita(c)
  BY <1>t, <1>1 DEF Entregado
<1>2. CASE Suscrita(c) /\ Entregado(c, m) = [v EXCEPT !.cola = Append(v.cola, m)]
  <2>1. Append(v.cola, m) \in Seq(Mensajes) /\ v.lector \in {"lee", "entrega"}
    BY <1>t, <1>2 DEF Registros, Suscrita
  <2> QED BY <1>t, <1>2, <2>1 DEF Registros, Coherente, SinLector
<1>3. CASE Suscrita(c) /\ Entregado(c, m) = [v EXCEPT !.omitidos = v.omitidos \cup {m.id},
                                                      !.excusa = v.excusa \/ Pide(m, v.s)]
  <2> DEFINE x == v.excusa \/ Pide(m, v.s)
             o == v.omitidos \cup {m.id}
  <2>1. x \in BOOLEAN /\ v.lector \in {"lee", "entrega"} /\ o \in SUBSET Nat
    BY <1>t, <1>3 DEF Suscrita, Registros
  <2>2. Entregado(c, m) = [v EXCEPT !.omitidos = o, !.excusa = x]
    BY <1>3
  <2> HIDE DEF x, o
  <2>3. Entregado(c, m) \in Registros
    BY <1>t, <2>1, <2>2 DEF Registros
  <2> QED BY <1>t, <2>1, <2>2, <2>3 DEF Registros, Coherente, SinLector
<1>4. \/ ~Suscrita(c)
      \/ Suscrita(c) /\ Entregado(c, m) = [v EXCEPT !.cola = Append(v.cola, m)]
      \/ Suscrita(c) /\ Entregado(c, m) = [v EXCEPT !.omitidos = v.omitidos \cup {m.id},
                                                    !.excusa = v.excusa \/ Pide(m, v.s)]
  BY DEF Entregado
<1> QED BY <1>1, <1>2, <1>3, <1>4

\* The event that is published is a message.
LEMMA EventoTipo ==
    ASSUME publicados \in 0..MaxEventos, publicados < MaxEventos
    PROVE  /\ Evento(publicados + 1) \in Mensajes /\ Evento(publicados + 1).t = "evento"
           /\ Evento(publicados + 1).id = publicados + 1
<1>1. MaxEventos \in Nat /\ publicados + 1 \in 1..MaxEventos
  BY EventosAssumption
<1> QED BY <1>1 DEF Evento, Mensajes

\* A lost notice changes the excuse alone.
LEMMA PierdeCoherente ==
    ASSUME NEW c \in Conexiones, NEW x \in BOOLEAN, con[c] \in Registros, Coherente(con[c])
    PROVE  /\ [con[c] EXCEPT !.excusa = x] \in Registros /\ Coherente([con[c] EXCEPT !.excusa = x])
           /\ [con[c] EXCEPT !.excusa = x].fase = con[c].fase
           /\ [con[c] EXCEPT !.excusa = x].tipo = con[c].tipo
BY DEF Registros, Coherente, SinLector

\* A connection is presented once, by a ticket that knows its session.
LEMMA PresentaCoherente ==
    ASSUME Tipos, ConexionesCoherentes, NEW c \in Conexiones, NEW t \in Tickets, Presenta(c, t),
           con[c].fase = "nada"
    PROVE  /\ con' \in [Conexiones -> Registros] /\ \A d \in Conexiones \ {c} : con'[d] = con[d]
           /\ Coherente(con'[c]) /\ con'[c].fase = "verifica" /\ con'[c].lector = "no"
           /\ ticket' \in [Tickets -> Vales]
           /\ \A u \in Tickets : ticket'[u].est = "vigente" => ticket'[u].s \in Sesiones
<1> DEFINE n == [con[c] EXCEPT !.fase = "verifica", !.tipo = ticket[t].tipo, !.s = ticket[t].s]
           w == [ticket[t] EXCEPT !.est = "gastado", !.tipo = "sse", !.s = Todas]
<1>1. con[c] \in Registros /\ Coherente(con[c]) /\ ticket[t].tipo \in {"sse", "ws"} /\ ticket[t].s \in Sesiones
  BY DEF Tipos, ConexionesCoherentes, Presenta, Vales
<1>2. n \in Registros /\ Coherente(n) /\ n.fase = "verifica" /\ n.lector = "no"
  BY <1>1 DEF Registros, Coherente, SinLector, Fases
<1>3. w \in Vales /\ w.est = "gastado"
  BY DEF Tipos, Vales
<1>4. con' = [con EXCEPT ![c] = n] /\ ticket' = [ticket EXCEPT ![t] = w]
  BY DEF Presenta
<1> HIDE DEF n, w
<1> QED BY <1>2, <1>3, <1>4 DEF Tipos

-----------------------------------------------------------------------------
(* The sequences of a stream *)

\* The reader takes the head of the bus: a notice leaves what is owed as it
\* was; an event is in hand afterwards, or among those left out.
LEMMA SinLaCabeza ==
    ASSUME NEW q \in Seq(Nat), NEW cola \in Seq(Mensajes), cola # <<>>, NEW o, NEW d \in Nat, NEW p \in Nat,
           Fiel(q, cola, o, d, p)
    PROVE  /\ Head(cola).t # "evento" => Fiel(q, Tail(cola), o, d, p)
           /\ Head(cola).t = "evento" => /\ Fiel(Append(q, Head(cola).id), Tail(cola), o, d, p)
                                         /\ Fiel(q, Tail(cola), o \cup {Head(cola).id}, d, p)
<1> DEFINE t == Tail(cola)
           n == Len(cola)
           x == Head(cola).id
<1>1. /\ t \in Seq(Mensajes) /\ n \in Nat /\ n > 0 /\ Len(t) = n - 1 /\ Head(cola) = cola[1]
      /\ DOMAIN cola = 1..n /\ DOMAIN t = 1..(n - 1) /\ \A i \in 1..(n - 1) : t[i] = cola[i + 1]
  BY HeadTailProperties, LenProperties, EmptySeq
<1>2. \A i \in 1..n : cola[i] \in Mensajes /\ cola[i].id \in Nat
  BY <1>1, MensajeTipo, ElementOfSeq
<1>3. x = cola[1].id /\ x \in Nat /\ 1 \in 1..n
  BY <1>1, <1>2
<1> HIDE DEF t, n, x
<1>4. \A j \in DeBus(t) : j + 1 \in DeBus(cola) /\ cola[j + 1] = t[j] /\ j \in Nat /\ j >= 1
  BY <1>1 DEF DeBus
<1>5. \A j \in DeBus(cola) : j \in Nat /\ (j = 1 \/ (j - 1 \in DeBus(t) /\ t[j - 1] = cola[j]))
  <2> SUFFICES ASSUME NEW j \in DeBus(cola), j # 1 PROVE j \in Nat /\ j - 1 \in DeBus(t) /\ t[j - 1] = cola[j]
    BY <1>1 DEF DeBus
  <2>1. j \in 1..n /\ cola[j].t = "evento"
    BY <1>1 DEF DeBus
  <2>2. j - 1 \in 1..(n - 1) /\ (j - 1) + 1 = j
    BY <1>1, <2>1
  <2>3. t[j - 1] = cola[j]
    BY <1>1, <2>2
  <2> QED BY <1>1, <2>1, <2>2, <2>3 DEF DeBus
<1>6. \A j \in DeBus(t) : t[j].id \in Nat /\ t[j].id <= p
  <2>1. \A j \in DeBus(cola) : cola[j].id \in Nat
    BY <1>1, <1>2 DEF DeBus
  <2> QED BY <1>4, <2>1 DEF Fiel
<1>7. \A i, j \in DeBus(t) : i < j => t[i].id < t[j].id
  <2> SUFFICES ASSUME NEW i \in DeBus(t), NEW j \in DeBus(t), i < j PROVE t[i].id < t[j].id
    OBVIOUS
  <2>1. i + 1 \in DeBus(cola) /\ j + 1 \in DeBus(cola) /\ i + 1 < j + 1 /\ cola[i + 1] = t[i] /\ cola[j + 1] = t[j]
    BY <1>4
  <2> QED BY <2>1 DEF Fiel
<1>8. \A i \in DOMAIN q, j \in DeBus(t) : q[i] < t[j].id
  BY <1>4 DEF Fiel
<1>9. 1 \in DeBus(cola) => \A j \in DeBus(t) : x < t[j].id
  <2> SUFFICES ASSUME 1 \in DeBus(cola), NEW j \in DeBus(t) PROVE x < t[j].id
    OBVIOUS
  <2>1. j + 1 \in DeBus(cola) /\ 1 < j + 1 /\ cola[j + 1] = t[j]
    BY <1>4
  <2> QED BY <1>3, <2>1 DEF Fiel
<1>10. \A e \in (d + 1)..p : \/ e \in o \/ (\E i \in DOMAIN q : q[i] = e)
                             \/ (\E j \in DeBus(t) : t[j].id = e) \/ (e = x /\ 1 \in DeBus(cola))
  <2> SUFFICES ASSUME NEW e \in (d + 1)..p, NEW j \in DeBus(cola), cola[j].id = e
               PROVE  (\E i \in DeBus(t) : t[i].id = e) \/ (e = x /\ 1 \in DeBus(cola))
    BY DEF Fiel
  <2> QED BY <1>3, <1>5
<1>11. ASSUME cola[1].t # "evento"
       PROVE  Fiel(q, t, o, d, p)
  <2>1. 1 \notin DeBus(cola)
    BY <1>11 DEF DeBus
  <2>2. /\ \A i \in DOMAIN q : q[i] <= p
        /\ \A i, j \in DOMAIN q : i < j => q[i] < q[j]
    BY DEF Fiel
  <2> QED BY <1>6, <1>7, <1>8, <1>10, <2>1, <2>2 DEF Fiel
<1>12. ASSUME cola[1].t = "evento"
       PROVE  Fiel(q, t, o \cup {x}, d, p)
  <2>1. /\ \A i \in DOMAIN q : q[i] <= p
        /\ \A i, j \in DOMAIN q : i < j => q[i] < q[j]
    BY DEF Fiel
  <2>2. \A e \in (d + 1)..p : \/ e \in o \cup {x} \/ (\E i \in DOMAIN q : q[i] = e)
                              \/ (\E j \in DeBus(t) : t[j].id = e)
    BY <1>10
  <2> QED BY <1>6, <1>7, <1>8, <2>1, <2>2 DEF Fiel
<1>13. ASSUME cola[1].t = "evento"
       PROVE  Fiel(Append(q, x), t, o, d, p)
  <2> DEFINE r == Append(q, x)
             k == Len(q)
  <2>1. k \in Nat /\ DOMAIN q = 1..k /\ DOMAIN r = 1..(k + 1) /\ r[k + 1] = x /\ \A i \in 1..k : r[i] = q[i] /\ q[i] \in Nat
    BY <1>3, AppendProperties, LenProperties, ElementOfSeq
  <2>2. 1 \in DeBus(cola) /\ x <= p
    BY <1>1, <1>3, <1>13 DEF DeBus, Fiel
  <2>3. \A i \in DOMAIN q : q[i] <= p /\ q[i] < x
    BY <1>3, <2>2 DEF Fiel
  <2>4. \A i, j \in DOMAIN q : i < j => q[i] < q[j]
    BY DEF Fiel
  <2> HIDE DEF r, k
  <2>5. \A i \in DOMAIN r : r[i] <= p
    BY <2>1, <2>2, <2>3
  <2>6. \A i, j \in DOMAIN r : i < j => r[i] < r[j]
    <3> SUFFICES ASSUME NEW i \in 1..(k + 1), NEW j \in 1..(k + 1), i < j PROVE r[i] < r[j]
      BY <2>1
    <3>1. i \in 1..k
      BY <2>1
    <3>2. CASE j = k + 1
      BY <2>1, <2>3, <3>1, <3>2
    <3>3. CASE j # k + 1
      <4>1. j \in 1..k
        BY <2>1, <3>3
      <4> QED BY <2>1, <2>4, <3>1, <4>1
    <3> QED BY <3>2, <3>3
  <2>7. \A i \in DOMAIN r, j \in DeBus(t) : r[i] < t[j].id
    <3> SUFFICES ASSUME NEW i \in 1..(k + 1), NEW j \in DeBus(t) PROVE r[i] < t[j].id
      BY <2>1
    <3>1. CASE i = k + 1
      BY <1>9, <2>1, <2>2, <3>1
    <3>2. CASE i # k + 1
      <4>1. i \in 1..k
        BY <2>1, <3>2
      <4> QED BY <1>8, <2>1, <4>1
    <3> QED BY <3>1, <3>2
  <2>8. \A e \in (d + 1)..p : \/ e \in o \/ (\E i \in DOMAIN r : r[i] = e) \/ (\E j \in DeBus(t) : t[j].id = e)
    <3> SUFFICES ASSUME NEW e, (\E i \in 1..k : q[i] = e) \/ e = x PROVE \E i \in 1..(k + 1) : r[i] = e
      BY <1>10, <2>1
    <3>1. CASE e = x
      BY <2>1, <3>1
    <3>2. ASSUME NEW i \in 1..k, q[i] = e PROVE \E u \in 1..(k + 1) : r[u] = e
      BY <2>1, <3>2
    <3> QED BY <3>1, <3>2
  <2>9. Fiel(r, t, o, d, p)
    BY <1>6, <1>7, <2>5, <2>6, <2>7, <2>8 DEF Fiel
  <2> QED BY <2>9 DEF r
<1>14. Head(cola) = cola[1]
  BY <1>1
<1> QED BY <1>11, <1>12, <1>13, <1>14 DEF t, x

\* A message that arrives goes last: a notice changes nothing, an event is the
\* next one of the stream.
LEMMA ConUnoMas ==
    ASSUME NEW q \in Seq(Nat), NEW cola \in Seq(Mensajes), NEW m \in Mensajes, NEW o, NEW d \in Nat, NEW p \in Nat,
           Fiel(q, cola, o, d, p)
    PROVE  /\ m.t # "evento" => Fiel(q, Append(cola, m), o, d, p)
           /\ m.t = "evento" /\ m.id = p + 1 => Fiel(q, Append(cola, m), o, d, p + 1)
<1> DEFINE r == Append(cola, m)
           n == Len(cola)
           h == IF m.t = "evento" THEN p + 1 ELSE p
<1>1. /\ n \in Nat /\ DOMAIN cola = 1..n /\ DOMAIN r = 1..(n + 1) /\ r[n + 1] = m
      /\ \A i \in 1..n : r[i] = cola[i] /\ cola[i] \in Mensajes /\ cola[i].id \in Nat
  BY AppendProperties, LenProperties, ElementOfSeq, MensajeTipo
<1>2. DOMAIN q = 1..Len(q) /\ \A i \in DOMAIN q : q[i] \in Nat
  BY LenProperties, ElementOfSeq
<1>3. h \in Nat /\ (m.t # "evento" => h = p) /\ (m.t = "evento" => h = p + 1)
  OBVIOUS
<1> SUFFICES ASSUME m.t = "evento" => m.id = p + 1 PROVE Fiel(q, r, o, d, h)
  OBVIOUS
<1> HIDE DEF r, n, h
<1>4. \A j \in DeBus(cola) : j \in 1..n /\ j \in DeBus(r) /\ r[j] = cola[j] /\ cola[j].id \in Nat /\ cola[j].id <= p
  <2>1. \A j \in DeBus(cola) : j \in 1..n /\ cola[j].t = "evento"
    BY <1>1 DEF DeBus
  <2>2. \A j \in DeBus(cola) : j \in DeBus(r) /\ r[j] = cola[j] /\ cola[j].id \in Nat
    BY <1>1, <2>1 DEF DeBus
  <2> QED BY <2>1, <2>2 DEF Fiel
<1>5. \A j \in DeBus(r) : \/ j \in DeBus(cola)
                          \/ j = n + 1 /\ r[j] = m /\ m.t = "evento" /\ m.id = h
  <2> SUFFICES ASSUME NEW j \in DeBus(r), j # n + 1 PROVE j \in DeBus(cola)
    BY <1>1, <1>3 DEF DeBus
  <2>1. j \in 1..n /\ r[j].t = "evento"
    BY <1>1 DEF DeBus
  <2> QED BY <1>1, <2>1 DEF DeBus
<1>6. /\ \A i \in DOMAIN q : q[i] <= h
      /\ \A i, j \in DOMAIN q : i < j => q[i] < q[j]
      /\ \A i \in DOMAIN q : m.t = "evento" => q[i] < h
  BY <1>2, <1>3 DEF Fiel
<1>7. \A j \in DeBus(r) : r[j].id <= h
  BY <1>3, <1>4, <1>5
<1>8. \A i, j \in DeBus(r) : i < j => r[i].id < r[j].id
  <2> SUFFICES ASSUME NEW i \in DeBus(r), NEW j \in DeBus(r), i < j PROVE r[i].id < r[j].id
    OBVIOUS
  <2>1. i \in DeBus(cola)
    BY <1>1, <1>4, <1>5
  <2>2. CASE j \in DeBus(cola)
    BY <1>4, <2>1, <2>2 DEF Fiel
  <2>3. CASE r[j] = m /\ m.t = "evento" /\ m.id = h
    BY <1>3, <1>4, <2>1, <2>3
  <2> QED BY <1>5, <2>2, <2>3
<1>9. \A i \in DOMAIN q, j \in DeBus(r) : q[i] < r[j].id
  <2> SUFFICES ASSUME NEW i \in DOMAIN q, NEW j \in DeBus(r) PROVE q[i] < r[j].id
    OBVIOUS
  <2>1. CASE j \in DeBus(cola)
    BY <1>4, <2>1 DEF Fiel
  <2> QED BY <1>5, <1>6, <2>1
<1>10. \A e \in (d + 1)..h : e \in o \/ (\E i \in DOMAIN q : q[i] = e) \/ \E j \in DeBus(r) : r[j].id = e
  <2> SUFFICES ASSUME NEW e \in (d + 1)..h
               PROVE  e \in o \/ (\E i \in DOMAIN q : q[i] = e) \/ \E j \in DeBus(r) : r[j].id = e
    OBVIOUS
  <2>1. CASE e \in (d + 1)..p
    BY <1>4, <2>1 DEF Fiel
  <2>2. CASE e \notin (d + 1)..p
    <3>1. m.t = "evento" /\ e = h
      BY <1>3, <2>2
    <3>2. n + 1 \in DeBus(r) /\ r[n + 1].id = e
      BY <1>1, <1>3, <3>1 DEF DeBus
    <3> QED BY <3>2
  <2> QED BY <2>1, <2>2
<1> QED BY <1>6, <1>7, <1>8, <1>9, <1>10 DEF Fiel

\* An event that finds no room is among those left out.
LEMMA ConUnoFuera ==
    ASSUME NEW q \in Seq(Nat), NEW cola \in Seq(Mensajes), NEW id, NEW o, NEW d \in Nat, NEW p \in Nat,
           Fiel(q, cola, o, d, p)
    PROVE  Fiel(q, cola, o \cup {id}, d, p) /\ (id = p + 1 => Fiel(q, cola, o \cup {id}, d, p + 1))
<1>1. \A i \in DOMAIN q : q[i] \in Nat
  BY LenProperties, ElementOfSeq
<1>2. \A j \in DeBus(cola) : cola[j].id \in Nat
  BY LenProperties, ElementOfSeq, MensajeTipo DEF DeBus
<1>3. \A e \in (d + 1)..p : e \in o \cup {id} \/ (\E i \in DOMAIN q : q[i] = e) \/ \E j \in DeBus(cola) : cola[j].id = e
  BY DEF Fiel
<1>4. Fiel(q, cola, o \cup {id}, d, p)
  BY <1>3 DEF Fiel
<1>5. ASSUME id = p + 1 PROVE Fiel(q, cola, o \cup {id}, d, p + 1)
  <2>1. \A e \in (d + 1)..(p + 1) : e \in (d + 1)..p \/ e = id
    BY <1>5
  <2>2. \A e \in (d + 1)..(p + 1) : e \in o \cup {id} \/ (\E i \in DOMAIN q : q[i] = e)
                                   \/ \E j \in DeBus(cola) : cola[j].id = e
    BY <1>3, <2>1
  <2>3. (\A i \in DOMAIN q : q[i] <= p + 1) /\ \A j \in DeBus(cola) : cola[j].id <= p + 1
    BY <1>1, <1>2 DEF Fiel
  <2> QED BY <2>2, <2>3 DEF Fiel
<1> QED BY <1>4, <1>5

\* A stream that has just subscribed is owed nothing.
LEMMA RecienSuscrita ==
    ASSUME NEW q, NEW cola, q = <<>>, cola = <<>>, NEW o, NEW p \in Nat
    PROVE  Fiel(q, cola, o, p, p)
BY DEF Fiel, DeBus

\* What the reader has in hand, the channel and what was served are one
\* sequence, and handing over or serving does not change it.
LEMMA ManoTipo ==
    ASSUME NEW v \in Registros
    PROVE  Mano(v) \in Seq(Nat) /\ (v.mano = 0 => Mano(v) = v.entregados \o v.eventos)
           /\ (v.mano # 0 => Mano(v) = Append(v.entregados \o v.eventos, v.mano))
<1> DEFINE q == v.entregados \o v.eventos
<1>1. q \in Seq(Nat) /\ v.mano \in Nat
  BY ConcatProperties DEF Registros
<1>2. Mano(v) = q \o (IF v.mano = 0 THEN <<>> ELSE <<v.mano>>)
  BY DEF Mano
<1> HIDE DEF q
<1>3. q \o <<>> = q /\ Append(q, v.mano) = q \o <<v.mano>> /\ Append(q, v.mano) \in Seq(Nat)
  BY <1>1, ConcatEmptySeq, AppendIsConcat, AppendProperties
<1> QED BY <1>1, <1>2, <1>3 DEF q

\* Handing over moves the event in hand to the end of the channel.
LEMMA EntregarConserva ==
    ASSUME NEW a \in Seq(Nat), NEW b \in Seq(Nat), NEW x \in Nat
    PROVE  a \o Append(b, x) = Append(a \o b, x)
<1>1. Append(b, x) = b \o <<x>> /\ <<x>> \in Seq(Nat) /\ a \o b \in Seq(Nat)
  BY AppendIsConcat, ConcatProperties
<1>2. a \o (b \o <<x>>) = (a \o b) \o <<x>>
  BY <1>1, ConcatAssociative
<1> QED BY <1>1, <1>2, AppendIsConcat

\* Serving moves the head of the channel to the end of what was served.
LEMMA ServirConserva ==
    ASSUME NEW a \in Seq(Nat), NEW b \in Seq(Nat), b # <<>>
    PROVE  Append(a, Head(b)) \o Tail(b) = a \o b
<1>1. Head(b) \in Nat /\ Tail(b) \in Seq(Nat) /\ <<Head(b)>> \in Seq(Nat) /\ b = <<Head(b)>> \o Tail(b)
  <2>1. Head(b) \in Nat /\ Tail(b) \in Seq(Nat)
    BY HeadTailProperties
  <2>2. <<Head(b)>> \o Tail(b) \in Seq(Nat) /\ Len(<<Head(b)>> \o Tail(b)) = Len(b)
    BY <2>1, HeadTailProperties, ConcatProperties
  <2>3. \A i \in 1..Len(b) : (<<Head(b)>> \o Tail(b))[i] = b[i]
    BY <2>1, HeadTailProperties, ConcatProperties
  <2>4. <<Head(b)>> \o Tail(b) = b
    BY <2>2, <2>3, SeqEqual
  <2> QED BY <2>1, <2>4
<1>2. Append(a, Head(b)) = a \o <<Head(b)>>
  BY <1>1, AppendIsConcat
<1>3. (a \o <<Head(b)>>) \o Tail(b) = a \o (<<Head(b)>> \o Tail(b))
  BY <1>1, ConcatAssociative, SMTT(30)
<1> QED BY <1>1, <1>2, <1>3

-----------------------------------------------------------------------------
(* A change of one connection keeps what the stream is owed *)

\* Case by case: only the reader takes something from the bus.
LEMMA CambioFiel ==
    ASSUME NEW c \in Conexiones, NEW n, con[c] \in Registros, Coherente(con[c]), publicados \in Nat, Cambio(c, n),
           con[c].tipo = "sse" /\ con[c].lector \in {"lee", "entrega"} => FielCon(con[c], Vedados, publicados),
           n.tipo = "sse", n.lector \in {"lee", "entrega"}
    PROVE  FielCon(n, Vedados, publicados)
<1> DEFINE v == con[c]
<1>t. v \in Registros /\ Coherente(v) /\ v.tipo \in {"sse", "ws"} /\ Mano(v) \in Seq(Nat) /\ v.cola \in Seq(Mensajes)
      /\ v.desde \in Nat
  BY ManoTipo DEF Registros
<1>1. CASE n = Acabada
  BY <1>1, InicioCon
<1>2. CASE Avanza(c, n)
  <2>1. v.lector \notin {"lee", "entrega"} \/ v.tipo = "ws"
    BY <1>t, <1>2 DEF Avanza, Coherente, SinLector
  <2>2. n.lector = v.lector /\ n.tipo = v.tipo
    BY <1>t, <1>2 DEF Avanza, Registros
  <2> QED BY <2>1, <2>2
<1>3. CASE Suscribe(c, n)
  <2>1. v.lector = "no" /\ v.cola = <<>> /\ v.eventos = <<>> /\ v.entregados = <<>> /\ v.mano = 0
    BY <1>t, <1>3 DEF Suscribe, Coherente, SinLector
  <2>2. PICK x \in BOOLEAN : Suscripcion(c) = [v EXCEPT !.lector = "lee", !.desde = publicados, !.excusa = x]
    BY DEF Suscripcion
  <2>3. PICK f \in {"abierta", "upgrade"} : n = [v EXCEPT !.fase = f, !.lector = "lee", !.desde = publicados, !.excusa = x]
    BY <1>3, <2>2, ZenonT(60) DEF Suscribe
  <2>4. n.cola = v.cola /\ n.eventos = v.eventos /\ n.entregados = v.entregados /\ n.mano = v.mano
        /\ n.desde = publicados
    BY <1>t, <2>3 DEF Registros
  <2>5. Mano(v) = <<>>
    <3>1. Mano(v) = v.entregados \o v.eventos /\ v.entregados \in Seq(Nat)
      BY <1>t, <2>1, ManoTipo DEF Registros
    <3>2. v.entregados \o <<>> = v.entregados
      BY <3>1, ConcatEmptySeq
    <3> QED BY <2>1, <3>1, <3>2
  <2>6. Mano(n) = <<>>
    BY <2>4, <2>5 DEF Mano
  <2> QED BY <2>1, <2>4, <2>6, RecienSuscrita DEF FielCon
<1>4. CASE Corta(c, n)
  <2>1. PICK motivo \in Motivos : n = [v EXCEPT !.cierre = motivo, !.lector = "fin", !.cola = <<>>, !.mano = 0]
    BY <1>4 DEF Corta, Cortada
  <2>2. n.lector = "fin"
    BY <1>t, <2>1 DEF Registros
  <2> QED BY <2>2
<1>5. CASE Lee(c, n)
  <2> DEFINE m == Head(v.cola)
             q == Tail(v.cola)
             o == v.omitidos \cup Vedados
  <2>1. m \in Mensajes /\ v.lector = "lee" /\ v.cola # <<>> /\ v.mano = 0 /\ m.id \in Nat
        /\ (m.t = "evento" => m.id # 0)
    BY <1>t, <1>5, Cabeza, MensajeTipo DEF Lee, Coherente
  <2>2. \/ v.tipo = "ws" /\ n = [v EXCEPT !.cola = q]
        \/ (m.t # "evento" \/ m.id \in Vedados) /\ n = [v EXCEPT !.cola = q]
        \/ m.t = "evento" /\ n = [v EXCEPT !.cola = q, !.lector = "entrega", !.mano = m.id]
        \/ m.t = "evento" /\ n = [v EXCEPT !.cola = q, !.omitidos = v.omitidos \cup {m.id}]
    BY <1>5 DEF Lee
  <2>3. n.tipo = v.tipo
    BY <1>t, <2>2 DEF Registros
  <2>4. Fiel(Mano(v), v.cola, o, v.desde, publicados)
    BY <2>1, <2>3 DEF FielCon
  <2> HIDE DEF o
  <2>5. /\ m.t # "evento" => Fiel(Mano(v), q, o, v.desde, publicados)
        /\ m.t = "evento" => /\ Fiel(Append(Mano(v), m.id), q, o, v.desde, publicados)
                             /\ Fiel(Mano(v), q, o \cup {m.id}, v.desde, publicados)
    BY <1>t, <2>1, <2>4, SinLaCabeza
  <2>10. m.id \in Vedados => o \cup {m.id} = o
    BY DEF o
  <2>11. (v.omitidos \cup {m.id}) \cup Vedados = o \cup {m.id}
    BY DEF o
  <2>12. v.omitidos \cup Vedados = o
    BY DEF o
  <2> HIDE DEF m, q
  <2>6. CASE (m.t # "evento" \/ m.id \in Vedados) /\ n = [v EXCEPT !.cola = q]
    <3>1. n.cola = q /\ n.entregados = v.entregados /\ n.eventos = v.eventos /\ n.mano = v.mano
          /\ n.omitidos = v.omitidos /\ n.desde = v.desde
      BY <1>t, <2>6 DEF Registros
    <3>2. Mano(n) = Mano(v)
      BY <3>1 DEF Mano
    <3>3. Fiel(Mano(v), q, o, v.desde, publicados)
      BY <2>5, <2>6, <2>10
    <3> QED BY <2>12, <3>1, <3>2, <3>3 DEF FielCon
  <2>7. CASE m.t = "evento" /\ n = [v EXCEPT !.cola = q, !.lector = "entrega", !.mano = m.id]
    <3>1. n.cola = q /\ n.entregados = v.entregados /\ n.eventos = v.eventos /\ n.mano = m.id
          /\ n.omitidos = v.omitidos /\ n.desde = v.desde
      BY <1>t, <2>7 DEF Registros
    <3>2. v.entregados \o v.eventos = Mano(v)
      BY <1>t, <2>1, ManoTipo
    <3>3. m.id # 0 /\ Mano(n) = Mano(v) \o <<m.id>>
      BY <2>1, <2>7, <3>1, <3>2 DEF Mano
    <3>4. Mano(n) = Append(Mano(v), m.id)
      BY <1>t, <2>1, <3>3, AppendIsConcat
    <3> QED BY <2>5, <2>7, <2>12, <3>1, <3>4 DEF FielCon
  <2>8. CASE m.t = "evento" /\ n = [v EXCEPT !.cola = q, !.omitidos = v.omitidos \cup {m.id}]
    <3>1. n.cola = q /\ n.entregados = v.entregados /\ n.eventos = v.eventos /\ n.mano = v.mano
          /\ n.omitidos = v.omitidos \cup {m.id} /\ n.desde = v.desde
      BY <1>t, <2>8 DEF Registros
    <3>2. Mano(n) = Mano(v)
      BY <3>1 DEF Mano
    <3> QED BY <2>5, <2>8, <2>11, <3>1, <3>2 DEF FielCon
  <2> QED BY <1>t, <2>2, <2>3, <2>6, <2>7, <2>8
<1>6. CASE Entrega(c, n)
  <2> DEFINE q == Append(v.eventos, v.mano)
  <2>1. v.lector = "entrega" /\ n = [v EXCEPT !.lector = "lee", !.mano = 0, !.eventos = q]
    BY <1>6 DEF Entrega
  <2>2. v.mano \in Nat /\ v.mano # 0 /\ v.eventos \in Seq(Nat) /\ v.entregados \in Seq(Nat)
    BY <1>t, <2>1 DEF Coherente, Registros
  <2>3. v.entregados \o q = Mano(v)
    BY <1>t, <2>2, ManoTipo, EntregarConserva
  <2>4. v.entregados \o q \in Seq(Nat)
    BY <1>t, <2>3
  <2> HIDE DEF q
  <2>5. n.cola = v.cola /\ n.entregados = v.entregados /\ n.eventos = q /\ n.mano = 0
        /\ n.omitidos = v.omitidos /\ n.desde = v.desde /\ n.tipo = v.tipo
    BY <1>t, <2>1 DEF Registros
  <2>6. Mano(n) = (v.entregados \o q) \o <<>>
    BY <2>5 DEF Mano
  <2>7. Mano(n) = Mano(v)
    BY <2>3, <2>4, <2>6, ConcatEmptySeq
  <2> QED BY <2>1, <2>5, <2>7 DEF FielCon
<1>7. CASE Sirve(c, n)
  <2> DEFINE q == Tail(v.eventos)
             a == Append(v.entregados, Head(v.eventos))
  <2>1. v.eventos # <<>> /\ n = [v EXCEPT !.entregados = a, !.eventos = q]
    BY <1>7 DEF Sirve
  <2>2. v.eventos \in Seq(Nat) /\ v.entregados \in Seq(Nat)
    BY <1>t DEF Registros
  <2>3. a \o q = v.entregados \o v.eventos
    BY <2>1, <2>2, ServirConserva
  <2> HIDE DEF q, a
  <2>4. n.cola = v.cola /\ n.entregados = a /\ n.eventos = q /\ n.mano = v.mano
        /\ n.omitidos = v.omitidos /\ n.desde = v.desde /\ n.tipo = v.tipo /\ n.lector = v.lector
    BY <1>t, <2>1 DEF Registros
  <2>5. Mano(n) = Mano(v)
    BY <2>3, <2>4 DEF Mano
  <2> QED BY <2>4, <2>5 DEF FielCon
<1> QED BY <1>1, <1>2, <1>3, <1>4, <1>5, <1>6, <1>7 DEF Cambio

\* A message leaves a connection that is not subscribed as it was; to another
\* it brings itself, or it is written down as left out.
LEMMA QueRecibe ==
    ASSUME NEW c \in Conexiones, NEW m \in Mensajes, con[c] \in Registros
    PROVE  LET v == con[c]
               n == Entregado(c, m)
           IN \/ ~Suscrita(c) /\ n = v
              \/ /\ n.cola = Append(v.cola, m) /\ n.omitidos = v.omitidos /\ n.excusa = v.excusa
                 /\ n.entregados = v.entregados /\ n.eventos = v.eventos /\ n.mano = v.mano /\ n.desde = v.desde
              \/ /\ n.cola = v.cola /\ n.omitidos = v.omitidos \cup {m.id} /\ n.excusa = (v.excusa \/ Pide(m, v.s))
                 /\ n.entregados = v.entregados /\ n.eventos = v.eventos /\ n.mano = v.mano /\ n.desde = v.desde
<1> DEFINE v == con[c]
           n == Entregado(c, m)
           x == v.excusa \/ Pide(m, v.s)
           o == v.omitidos \cup {m.id}
           q == Append(v.cola, m)
<1>1. \/ ~Suscrita(c) /\ n = v
      \/ n = [v EXCEPT !.cola = q]
      \/ n = [v EXCEPT !.omitidos = o, !.excusa = x]
  BY DEF Entregado
<1> HIDE DEF n, x, o, q
<1>2. CASE n = [v EXCEPT !.cola = q]
  <2>1. /\ n.cola = q /\ n.omitidos = v.omitidos /\ n.excusa = v.excusa
        /\ n.entregados = v.entregados /\ n.eventos = v.eventos /\ n.mano = v.mano /\ n.desde = v.desde
    BY <1>2 DEF Registros
  <2> QED BY <2>1 DEF n, q
<1>3. CASE n = [v EXCEPT !.omitidos = o, !.excusa = x]
  <2>1. /\ n.cola = v.cola /\ n.omitidos = o
        /\ n.entregados = v.entregados /\ n.eventos = v.eventos /\ n.mano = v.mano /\ n.desde = v.desde
    BY <1>3 DEF Registros
  <2>2. n.excusa = x
    BY <1>3, Zenon DEF Registros
  <2> QED BY <2>1, <2>2 DEF n, o, x
<1> QED BY <1>1, <1>2, <1>3 DEF n

\* A message keeps what a stream is owed, and an event adds itself to it.
LEMMA RecibeFiel ==
    ASSUME NEW c \in Conexiones, NEW m \in Mensajes, con[c] \in Registros, publicados \in Nat, Suscrita(c),
           FielCon(con[c], Vedados, publicados)
    PROVE  /\ m.t # "evento" => FielCon(Entregado(c, m), Vedados, publicados)
           /\ m.t = "evento" /\ m.id = publicados + 1 => FielCon(Entregado(c, m), Vedados, publicados + 1)
<1> DEFINE v == con[c]
           n == Entregado(c, m)
           o == v.omitidos \cup Vedados
<1>t. v \in Registros /\ Mano(v) \in Seq(Nat) /\ v.cola \in Seq(Mensajes) /\ v.desde \in Nat
      /\ Fiel(Mano(v), v.cola, o, v.desde, publicados)
  BY ManoTipo DEF Registros, FielCon
<1>1. /\ n.entregados = v.entregados /\ n.eventos = v.eventos /\ n.mano = v.mano /\ n.desde = v.desde
      /\ \/ n.cola = Append(v.cola, m) /\ n.omitidos = v.omitidos
         \/ n.cola = v.cola /\ n.omitidos = v.omitidos \cup {m.id}
  BY QueRecibe
<1>o. v.omitidos \cup Vedados = o /\ (v.omitidos \cup {m.id}) \cup Vedados = o \cup {m.id}
  OBVIOUS
<1> HIDE DEF n, o
<1>2. Mano(n) = Mano(v)
  BY <1>1 DEF Mano
<1>3. CASE n.cola = Append(v.cola, m) /\ n.omitidos = v.omitidos
  <2>1. /\ m.t # "evento" => Fiel(Mano(v), Append(v.cola, m), o, v.desde, publicados)
        /\ m.t = "evento" /\ m.id = publicados + 1
             => Fiel(Mano(v), Append(v.cola, m), o, v.desde, publicados + 1)
    BY <1>t, ConUnoMas
  <2> QED BY <1>o, <1>1, <1>2, <1>3, <2>1 DEF FielCon, n
<1>4. CASE n.cola = v.cola /\ n.omitidos = v.omitidos \cup {m.id}
  <2>1. /\ Fiel(Mano(v), v.cola, o \cup {m.id}, v.desde, publicados)
        /\ m.id = publicados + 1 => Fiel(Mano(v), v.cola, o \cup {m.id}, v.desde, publicados + 1)
    BY <1>t, ConUnoFuera
  <2> QED BY <1>o, <1>1, <1>2, <1>4, <2>1 DEF FielCon, n
<1> QED BY <1>1, <1>3, <1>4

-----------------------------------------------------------------------------
(* A change of one connection keeps its excuse *)

\* Connection v of a closed session has a cut on its way, or an excuse.
Causa(v, ss, as) ==
    ~ss[v.s] => v.excusa \/ (\E m \in as : Pide(m, v.s)) \/ \E i \in DOMAIN v.cola : Pide(v.cola[i], v.s)

\* The reader only drops from its queue what does not ask for its cut.
LEMMA CambioConCausa ==
    ASSUME NEW c \in Conexiones, NEW n, con[c] \in Registros, Coherente(con[c]), Cambio(c, n),
           con[c].lector \in {"lee", "entrega"} => Causa(con[c], sesion, avisos),
           n.lector \in {"lee", "entrega"}
    PROVE  Causa(n, sesion, avisos)
<1> DEFINE v == con[c]
<1>t. v \in Registros /\ Coherente(v)
  OBVIOUS
<1>1. CASE n = Acabada
  BY <1>1, InicioCon
<1>2. CASE Avanza(c, n)
  <2>1. n.lector = v.lector /\ n.s = v.s /\ n.cola = v.cola /\ n.excusa = v.excusa
    BY <1>t, <1>2 DEF Avanza, Registros
  <2> QED BY <2>1 DEF Causa
<1>3. CASE Suscribe(c, n)
  <2> DEFINE x == ~sesion[v.s] /\ ~\E m \in avisos : Pide(m, v.s)
  <2>1. x \in BOOLEAN /\ Suscripcion(c) = [v EXCEPT !.lector = "lee", !.desde = publicados, !.excusa = x]
    BY DEF Suscripcion
  <2> HIDE DEF x
  <2>2. PICK f \in {"abierta", "upgrade"} : n = [v EXCEPT !.fase = f, !.lector = "lee", !.desde = publicados, !.excusa = x]
    BY <1>3, <2>1 DEF Suscribe
  <2>3. n.s = v.s /\ n.cola = v.cola
    BY <1>t, <2>2 DEF Registros
  <2>4. n.excusa = x
    BY <1>t, <2>1, <2>2 DEF Registros
  <2> QED BY <2>3, <2>4 DEF Causa, x
<1>4. CASE Corta(c, n)
  <2>1. PICK motivo \in Motivos : n = [v EXCEPT !.cierre = motivo, !.lector = "fin", !.cola = <<>>, !.mano = 0]
    BY <1>4 DEF Corta, Cortada
  <2>2. n.lector = "fin"
    BY <1>t, <2>1 DEF Registros
  <2> QED BY <2>2
<1>5. CASE Lee(c, n)
  <2> DEFINE m == Head(v.cola)
             q == Tail(v.cola)
  <2>1. m \in Mensajes /\ v.lector = "lee" /\ v.cola # <<>> /\ v.s \in Sesiones /\ m = v.cola[1] /\ v.cola \in Seq(Mensajes)
    BY <1>t, <1>5, Cabeza DEF Lee, Coherente, SinLector, Registros
  <2>2. \/ n = [v EXCEPT !.cola = q]
        \/ n = [v EXCEPT !.cola = q, !.lector = "entrega", !.mano = m.id]
        \/ n = [v EXCEPT !.cola = q, !.omitidos = v.omitidos \cup {m.id}]
    BY <1>5 DEF Lee
  <2>3. ~Pide(m, v.s)
    BY <1>5, <2>1, MensajeTipo DEF Lee
  <2>4. \A i \in DOMAIN v.cola : i # 1 => i - 1 \in DOMAIN q /\ q[i - 1] = v.cola[i]
    <3> SUFFICES ASSUME NEW i \in DOMAIN v.cola, i # 1 PROVE i - 1 \in DOMAIN q /\ q[i - 1] = v.cola[i]
      OBVIOUS
    <3>1. q \in Seq(Mensajes) /\ Len(q) = Len(v.cola) - 1 /\ \A j \in 1..Len(q) : q[j] = v.cola[j + 1]
      BY <2>1, HeadTailProperties
    <3>2. i \in 1..Len(v.cola) /\ Len(v.cola) \in Nat /\ DOMAIN q = 1..Len(q)
      BY <2>1, <3>1, LenProperties
    <3>3. i - 1 \in 1..Len(q) /\ (i - 1) + 1 = i
      BY <3>1, <3>2
    <3> QED BY <3>1, <3>2, <3>3
  <2> HIDE DEF m, q
  <2>5. n.s = v.s /\ n.cola = q /\ n.excusa = v.excusa
    BY <1>t, <2>2 DEF Registros
  <2>6. (\E i \in DOMAIN v.cola : Pide(v.cola[i], v.s)) => \E i \in DOMAIN q : Pide(q[i], v.s)
    BY <2>1, <2>3, <2>4
  <2> QED BY <2>1, <2>5, <2>6 DEF Causa
<1>6. CASE Entrega(c, n)
  <2> DEFINE q == Append(v.eventos, v.mano)
  <2>1. v.lector = "entrega" /\ n = [v EXCEPT !.lector = "lee", !.mano = 0, !.eventos = q]
    BY <1>6 DEF Entrega
  <2> HIDE DEF q
  <2>2. n.s = v.s /\ n.cola = v.cola /\ n.excusa = v.excusa
    BY <1>t, <2>1 DEF Registros
  <2> QED BY <2>1, <2>2 DEF Causa
<1>7. CASE Sirve(c, n)
  <2> DEFINE q == Tail(v.eventos)
             a == Append(v.entregados, Head(v.eventos))
  <2>1. n = [v EXCEPT !.entregados = a, !.eventos = q]
    BY <1>7 DEF Sirve
  <2> HIDE DEF q, a
  <2>2. n.s = v.s /\ n.cola = v.cola /\ n.excusa = v.excusa /\ n.lector = v.lector
    BY <1>t, <2>1 DEF Registros
  <2> QED BY <2>2 DEF Causa
<1> QED BY <1>1, <1>2, <1>3, <1>4, <1>5, <1>6, <1>7 DEF Cambio

\* A notice that reaches a connection is in its queue or is its excuse.
LEMMA RecibeConCausa ==
    ASSUME NEW c \in Conexiones, NEW m \in Mensajes, con[c] \in Registros, Suscrita(c), Causa(con[c], sesion, avisos)
    PROVE  /\ Causa(Entregado(c, m), sesion, avisos \ {m})
           /\ m.t = "evento" => Causa(Entregado(c, m), sesion, avisos)
<1> DEFINE v == con[c]
           n == Entregado(c, m)
<1>t. v.cola \in Seq(Mensajes) /\ n.s = v.s
  <2>1. v \in Registros /\ (n = [v EXCEPT !.cola = Append(@, m)]
                            \/ n = [v EXCEPT !.omitidos = @ \cup {m.id}, !.excusa = @ \/ Pide(m, v.s)])
    BY DEF Entregado
  <2> HIDE DEF n
  <2> QED BY <2>1 DEF Registros
<1>1. \/ n.cola = Append(v.cola, m) /\ n.excusa = v.excusa
      \/ n.cola = v.cola /\ n.excusa = (v.excusa \/ Pide(m, v.s))
  BY QueRecibe
<1> HIDE DEF n
<1>2. CASE n.cola = Append(v.cola, m) /\ n.excusa = v.excusa
  <2>1. /\ Len(v.cola) \in Nat /\ DOMAIN v.cola = 1..Len(v.cola) /\ DOMAIN n.cola = 1..(Len(v.cola) + 1)
        /\ n.cola[Len(v.cola) + 1] = m /\ \A i \in 1..Len(v.cola) : n.cola[i] = v.cola[i]
    BY <1>t, <1>2, AppendProperties, LenProperties
  <2>2. \A i \in DOMAIN v.cola : i \in DOMAIN n.cola /\ n.cola[i] = v.cola[i]
    BY <2>1
  <2>3. \E i \in DOMAIN n.cola : n.cola[i] = m
    BY <2>1
  <2>4. Causa(n, sesion, avisos \ {m})
    BY <1>t, <1>2, <2>2, <2>3 DEF Causa
  <2> QED BY <2>4 DEF Causa, n
<1>3. CASE n.cola = v.cola /\ n.excusa = (v.excusa \/ Pide(m, v.s))
  <2>1. Causa(n, sesion, avisos \ {m})
    BY <1>t, <1>3 DEF Causa
  <2> QED BY <2>1 DEF Causa, n
<1> QED BY <1>1, <1>2, <1>3

-----------------------------------------------------------------------------
(* The count of WebSockets *)

Ocupa(v) == v.tipo # "sse" /\ v.fase \in {"instancia", "upgrade", "abierta"}
Cuenta(c) ==
    \/ conexiones' = conexiones /\ (Ocupa(con'[c]) <=> Ocupa(con[c]))
    \/ conexiones < MaxWS /\ conexiones' = conexiones + 1 /\ ~Ocupa(con[c]) /\ Ocupa(con'[c])
    \/ conexiones' = conexiones - 1 /\ Ocupa(con[c]) /\ ~Ocupa(con'[c])

\* A step of a connection counts what it does with its place.
LEMMA PasoCuenta ==
    ASSUME Tipos, ConexionesCoherentes, NEW c \in Conexiones, PasoDe(c)
    PROVE  Cuenta(c)
<1> DEFINE v == con[c]
<1>t. con \in [Conexiones -> Registros] /\ v \in Registros /\ Coherente(v) /\ v.tipo \in {"sse", "ws"}
  BY DEF Tipos, ConexionesCoherentes, Registros
<1>1. Termina(c) => con'[c] = Acabada /\ ~Ocupa(con'[c])
  BY <1>t, InicioCon DEF Termina, Terminada, Acabada, Ocupa
<1>2. ASSUME NEW f, Pasa(c, f) PROVE con'[c].tipo = v.tipo /\ con'[c].fase = f
  BY <1>t, <1>2 DEF Pasa, Registros
<1>3. ASSUME NEW n, con' = [con EXCEPT ![c] = n], n.tipo = v.tipo, n.fase = v.fase, UNCHANGED conexiones
      PROVE  Cuenta(c)
  <2>1. con'[c] = n
    BY <1>t, <1>3
  <2> QED BY <1>3, <2>1 DEF Cuenta, Ocupa
<1>4. ASSUME NEW motivo, con' = [con EXCEPT ![c] = Cortada(c, motivo)], UNCHANGED conexiones
      PROVE  Cuenta(c)
  <2>1. Cortada(c, motivo).tipo = v.tipo /\ Cortada(c, motivo).fase = v.fase
    BY <1>t DEF Cortada, Registros
  <2> QED BY <1>3, <1>4, <2>1
<1>5. CASE VerificarConexion(c) \/ VerificarWS(c)
  <2>1. v.fase = "verifica" /\ UNCHANGED conexiones /\ (Termina(c) \/ Pasa(c, "suscribe") \/ Pasa(c, "reserva"))
    BY <1>5 DEF VerificarConexion, VerificarWS, En
  <2>2. ~Ocupa(v) /\ ~Ocupa(con'[c])
    BY <1>1, <1>2, <2>1 DEF Ocupa
  <2> QED BY <2>1, <2>2 DEF Cuenta
<1>6. CASE Suscribir(c)
  <2>1. v.fase = "suscribe" /\ v.tipo = "sse" /\ UNCHANGED conexiones
        /\ (Termina(c) \/ con' = [con EXCEPT ![c] = [Suscripcion(c) EXCEPT !.fase = "abierta"]])
    BY <1>t, <1>6 DEF Suscribir, En, Coherente
  <2>2. [Suscripcion(c) EXCEPT !.fase = "abierta"].tipo = v.tipo
    BY <1>t DEF Suscripcion, Registros
  <2>3. Termina(c) \/ con'[c].tipo = v.tipo
    BY <1>t, <2>1, <2>2
  <2>4. ~Ocupa(v) /\ ~Ocupa(con'[c])
    BY <1>1, <2>1, <2>3 DEF Ocupa
  <2> QED BY <2>1, <2>4 DEF Cuenta
<1>7. CASE ReservarConexion(c)
  <2>1. v.fase = "reserva" /\ v.tipo = "ws"
        /\ \/ conexiones < MaxWS /\ conexiones' = conexiones + 1 /\ Pasa(c, "instancia")
           \/ UNCHANGED conexiones /\ Termina(c)
    BY <1>t, <1>7 DEF ReservarConexion, En, Coherente
  <2>2. ~Ocupa(v)
    BY <2>1 DEF Ocupa
  <2>3. Pasa(c, "instancia") => Ocupa(con'[c])
    BY <1>2, <2>1 DEF Ocupa
  <2> QED BY <1>1, <2>1, <2>2, <2>3 DEF Cuenta
<1>8. CASE Vigilar(c)
  <2>1. v.fase = "instancia" /\ v.tipo = "ws" /\ UNCHANGED conexiones
        /\ con' = [con EXCEPT ![c] = [Suscripcion(c) EXCEPT !.fase = "upgrade"]]
    BY <1>t, <1>8 DEF Vigilar, En, Coherente
  <2>2. [Suscripcion(c) EXCEPT !.fase = "upgrade"].tipo = v.tipo /\ [Suscripcion(c) EXCEPT !.fase = "upgrade"].fase = "upgrade"
    BY <1>t DEF Suscripcion, Registros
  <2>3. con'[c].tipo = v.tipo /\ con'[c].fase = "upgrade"
    BY <1>t, <2>1, <2>2
  <2>4. Ocupa(v) /\ Ocupa(con'[c])
    BY <2>1, <2>3 DEF Ocupa
  <2> QED BY <2>1, <2>4 DEF Cuenta
<1>9. CASE Upgrade(c)
  <2>1. v.fase = "upgrade" /\ v.tipo = "ws" /\ UNCHANGED conexiones /\ Pasa(c, "abierta")
    BY <1>t, <1>9 DEF Upgrade, En, Coherente
  <2>2. Ocupa(v) /\ Ocupa(con'[c])
    BY <1>2, <2>1 DEF Ocupa
  <2> QED BY <2>1, <2>2 DEF Cuenta
<1>10. CASE LeerBus(c) \/ PuedeVerFalla(c)
  <2> DEFINE m == Head(v.cola)
             q == Tail(v.cola)
  <2>1. UNCHANGED conexiones
    BY <1>10 DEF LeerBus, PuedeVerFalla
  <2>2. \E n : /\ con' = [con EXCEPT ![c] = n]
               /\ \/ n = Cortada(c, "sesion") \/ n = Cortada(c, "inactivo")
                  \/ n = [v EXCEPT !.cola = q]
                  \/ n = [v EXCEPT !.cola = q, !.lector = "entrega", !.mano = m.id]
                  \/ n = [v EXCEPT !.cola = q, !.omitidos = v.omitidos \cup {m.id}]
    BY <1>10 DEF LeerBus, PuedeVerFalla
  <2> HIDE DEF m, q
  <2>3. \E n : con' = [con EXCEPT ![c] = n] /\ n.tipo = v.tipo /\ n.fase = v.fase
    <3>1. PICK n : /\ con' = [con EXCEPT ![c] = n]
                   /\ \/ n = Cortada(c, "sesion") \/ n = Cortada(c, "inactivo")
                      \/ n = [v EXCEPT !.cola = q]
                      \/ n = [v EXCEPT !.cola = q, !.lector = "entrega", !.mano = m.id]
                      \/ n = [v EXCEPT !.cola = q, !.omitidos = v.omitidos \cup {m.id}]
      BY <2>2, Zenon
    <3>2. n.tipo = v.tipo /\ n.fase = v.fase
      BY <1>t, <3>1 DEF Cortada, Registros
    <3> QED BY <3>1, <3>2
  <2> QED BY <1>3, <2>1, <2>3
<1>11. CASE EntregarAlCanal(c)
  <2> DEFINE q == Append(v.eventos, v.mano)
             n == [v EXCEPT !.lector = "lee", !.mano = 0, !.eventos = q]
  <2>1. con' = [con EXCEPT ![c] = n] /\ UNCHANGED conexiones
    BY <1>11 DEF EntregarAlCanal
  <2> HIDE DEF q
  <2>2. n.tipo = v.tipo /\ n.fase = v.fase
    BY <1>t DEF Registros
  <2> HIDE DEF n
  <2> QED BY <1>3, <2>1, <2>2
<1>12. CASE LeerAviso(c)
  <2> DEFINE q == Tail(v.cola)
             n == [v EXCEPT !.cola = q]
  <2>1. UNCHANGED conexiones
        /\ con' = [con EXCEPT ![c] = IF MotivoDeCorteWS(Head(v.cola), v.s) THEN Cortada(c, "sesion") ELSE n]
    BY <1>12, Zenon DEF LeerAviso
  <2> HIDE DEF q
  <2>2. n.tipo = v.tipo /\ n.fase = v.fase
    BY <1>t DEF Registros
  <2> HIDE DEF n
  <2>3. CASE MotivoDeCorteWS(Head(v.cola), v.s)
    BY <1>4, <2>1, <2>3
  <2>4. CASE ~MotivoDeCorteWS(Head(v.cola), v.s)
    BY <1>3, <2>1, <2>2, <2>4
  <2> QED BY <2>3, <2>4
<1>13. CASE ServirEvento(c)
  <2> DEFINE a == Append(v.entregados, Head(v.eventos))
             q == Tail(v.eventos)
             n == [v EXCEPT !.entregados = a, !.eventos = q]
  <2>1. con' = [con EXCEPT ![c] = n] /\ UNCHANGED conexiones
    BY <1>13 DEF ServirEvento
  <2> HIDE DEF q, a
  <2>2. n.tipo = v.tipo /\ n.fase = v.fase
    BY <1>t DEF Registros
  <2> HIDE DEF n
  <2> QED BY <1>3, <2>1, <2>2
<1>14. CASE RevisarAcceso(c) \/ BusSeCierra(c)
  BY <1>4, <1>14 DEF RevisarAcceso, BusSeCierra
<1>15. CASE ServirCierre(c) \/ CierraPorApagado(c) \/ ClienteCierra(c)
  <2>1. v.fase = "abierta" /\ Salir(c)
    BY <1>15 DEF ServirCierre, CierraPorApagado, ClienteCierra, En
  <2>2. CASE v.tipo = "sse"
    BY <1>1, <2>1, <2>2 DEF Salir, SSE, Cuenta, Ocupa
  <2>3. CASE v.tipo # "sse"
    BY <1>1, <2>1, <2>3 DEF Salir, SSE, LiberarConexion, Cuenta, Ocupa
  <2> QED BY <2>2, <2>3
<1>16. CASE ErrorAlAbrir(c)
  <2>1. v.fase \in {"instancia", "upgrade"} /\ LiberarConexion(c) /\ v.tipo = "ws"
    BY <1>t, <1>16 DEF ErrorAlAbrir, Coherente
  <2> QED BY <1>1, <2>1 DEF LiberarConexion, Cuenta, Ocupa
<1> QED BY <1>5, <1>6, <1>7, <1>8, <1>9, <1>10, <1>11, <1>12, <1>13, <1>14, <1>15, <1>16
        DEF PasoDe, Abrir, Lector, Cerrar

-----------------------------------------------------------------------------
(* The steps, and what each keeps *)

\* The user loses the account or the permission, and nothing else of it changes.
LEMMA UsuarioPaso ==
    ASSUME usuario \in Cuentas, Next
    PROVE  usuario' \in Cuentas /\ usuario'.admin = usuario.admin /\ (usuario'.permiso => usuario.permiso)
<1> DEFINE G == usuario' \in Cuentas /\ usuario'.admin = usuario.admin /\ (usuario'.permiso => usuario.permiso)
<1>0. ASSUME usuario' = usuario PROVE G
  BY <1>0
<1>1. ASSUME NEW c \in Conexiones, NEW t \in Tickets, Conectar(c, t) PROVE G
  BY <1>0, <1>1 DEF Conectar
<1>2. ASSUME NEW c \in Conexiones, PasoDe(c) PROVE G
  <2>1. CASE Abrir(c)
    BY <1>0, <2>1 DEF Abrir, VerificarConexion, Suscribir, VerificarWS, ReservarConexion, Vigilar, Upgrade, acceso
  <2>2. CASE Lector(c) \/ Cerrar(c) \/ ServirEvento(c) \/ RevisarAcceso(c) \/ ClienteCierra(c)
    BY <1>0, <2>2 DEF Lector, LeerBus, EntregarAlCanal, LeerAviso, Cerrar, ServirCierre, CierraPorApagado,
       ServirEvento, RevisarAcceso, ClienteCierra, acceso
  <2>3. CASE ErrorAlAbrir(c) \/ BusSeCierra(c) \/ PuedeVerFalla(c)
    BY <1>0, <2>3 DEF ErrorAlAbrir, BusSeCierra, PuedeVerFalla, acceso
  <2> QED BY <1>2, <2>1, <2>2, <2>3 DEF PasoDe
<1>3. ASSUME NEW ss, NEW ms, CerrarSesiones(ss, ms) PROVE G
  BY <1>0, <1>3 DEF CerrarSesiones
<1>4. CASE \/ \E t \in Tickets : VenceTicket(t) \/ \E s \in Sesiones, tipo \in {"sse", "ws"} : EmitirTicket(t, s, tipo)
           \/ Publicar \/ Apagar \/ \E m \in avisos : PublicarAviso(m) \/ PublicarAvisoFalla(m)
  BY <1>0, <1>4 DEF VenceTicket, EmitirTicket, Publicar, Apagar, PublicarAviso, PublicarAvisoFalla
<1>5. CASE Suspender \/ QuitarPermiso
  BY <1>5 DEF Suspender, QuitarPermiso, Cuentas
<1>6. CASE RevocarTodas \/ \E s \in Sesiones : Logout(s) \/ RevocarOtras(s)
  BY <1>3, <1>6 DEF RevocarTodas, Logout, RevocarOtras
<1> QED BY <1>1, <1>2, <1>4, <1>5, <1>6 DEF Next, PasoDe

\* A right that is lost does not come back.
LEMMA VedadosCrecen ==
    ASSUME Tipos, Next
    PROVE  Vedados \subseteq Vedados'
<1>1. usuario'.admin = usuario.admin /\ (usuario'.permiso => usuario.permiso)
  BY UsuarioPaso DEF Tipos
<1> QED BY <1>1 DEF Vedados

\* The next connection is one that nobody has used.
LEMMA SiguienteLibre ==
    ASSUME EnOrdenDeLlegada, NEW c \in Conexiones, c = Siguiente
    PROVE  con[c].fase = "nada" /\ {d \in Conexiones : ~En(d, "nada")} = 1..(c - 1)
<1>1. PICK k \in Nat : {d \in Conexiones : ~En(d, "nada")} = 1..k
  BY DEF EnOrdenDeLlegada
<1>2. Cardinality(1..k) = k
  BY <1>1, FS_Interval
<1>3. c = k + 1
  BY <1>1, <1>2 DEF Siguiente
<1>4. c \notin 1..k /\ k = c - 1
  BY <1>3
<1> QED BY <1>1, <1>4 DEF En

\* What a step does to the connections: one of them changes and is counted, one
\* presents a ticket, or all of them hear from the rest of the system.
LEMMA PasoEntero ==
    ASSUME Tipos, ConexionesCoherentes, Next
    PROVE  \/ \E c \in Conexiones : (\E n : Mueve(c, n)) /\ Cuenta(c)
           \/ \E c \in Conexiones, t \in Tickets : Presenta(c, t)
           \/ /\ UNCHANGED conexiones
              /\ \/ PublicaEvento \/ CierraSesiones \/ MueveVales
                 \/ \E m \in avisos : PublicaAviso(m) \/ PierdeAviso(m)
<1>1. ASSUME NEW c \in Conexiones, NEW t \in Tickets, Conectar(c, t) PROVE Presenta(c, t)
  BY <1>1, ConectarPaso DEF Tipos
<1>2. ASSUME NEW c \in Conexiones, PasoDe(c) PROVE (\E n : Mueve(c, n)) /\ Cuenta(c)
  BY <1>2, PasoMueve, PasoCuenta
<1> QED BY <1>1, <1>2, Pasos

\* The message of a step, for every connection at once.
LEMMA RecibenTodas ==
    ASSUME Tipos, ConexionesCoherentes, NEW m \in Mensajes, Recibe(m)
    PROVE  /\ con' \in [Conexiones -> Registros] /\ ConexionesCoherentes'
           /\ \A c \in Conexiones : /\ con'[c] = Entregado(c, m) /\ con'[c].fase = con[c].fase
                                    /\ con'[c].tipo = con[c].tipo /\ con'[c].lector = con[c].lector
                                    /\ con'[c].s = con[c].s
<1>1. \A c \in Conexiones : con[c] \in Registros /\ Coherente(con[c])
  BY DEF Tipos, ConexionesCoherentes
<1>2. \A c \in Conexiones : con'[c] = Entregado(c, m)
  BY DEF Recibe
<1>3. \A c \in Conexiones :
        /\ Entregado(c, m) \in Registros /\ Coherente(Entregado(c, m))
        /\ Entregado(c, m).fase = con[c].fase /\ Entregado(c, m).tipo = con[c].tipo
        /\ Entregado(c, m).lector = con[c].lector /\ Entregado(c, m).s = con[c].s
  BY <1>1, RecibeCoherente
<1>4. con' \in [Conexiones -> Registros]
  BY <1>3 DEF Recibe
<1> QED BY <1>2, <1>3, <1>4 DEF ConexionesCoherentes

\* Losing a notice, for every connection at once.
LEMMA PierdenTodas ==
    ASSUME Tipos, ConexionesCoherentes, NEW m \in Mensajes, PierdeAviso(m)
    PROVE  /\ con' \in [Conexiones -> Registros] /\ ConexionesCoherentes'
           /\ \A c \in Conexiones :
                /\ con'[c].fase = con[c].fase /\ con'[c].tipo = con[c].tipo /\ con'[c].lector = con[c].lector
                /\ con'[c].s = con[c].s /\ con'[c].cola = con[c].cola /\ con'[c].eventos = con[c].eventos
                /\ con'[c].mano = con[c].mano /\ con'[c].entregados = con[c].entregados
                /\ con'[c].omitidos = con[c].omitidos /\ con'[c].desde = con[c].desde
                /\ con'[c].excusa = (con[c].excusa \/ (Suscrita(c) /\ Pide(m, con[c].s)))
<1> DEFINE x(c) == con[c].excusa \/ (Suscrita(c) /\ Pide(m, con[c].s))
<1>1. \A c \in Conexiones : con[c] \in Registros /\ Coherente(con[c]) /\ x(c) \in BOOLEAN
  BY DEF Tipos, ConexionesCoherentes
<1>2. con' = [c \in Conexiones |-> [con[c] EXCEPT !.excusa = x(c)]]
  BY DEF PierdeAviso
<1> HIDE DEF x
<1>3. ASSUME NEW c \in Conexiones
      PROVE  /\ con'[c] \in Registros /\ Coherente(con'[c])
             /\ con'[c].fase = con[c].fase /\ con'[c].tipo = con[c].tipo /\ con'[c].lector = con[c].lector
             /\ con'[c].s = con[c].s /\ con'[c].cola = con[c].cola /\ con'[c].eventos = con[c].eventos
             /\ con'[c].mano = con[c].mano /\ con'[c].entregados = con[c].entregados
             /\ con'[c].omitidos = con[c].omitidos /\ con'[c].desde = con[c].desde
             /\ con'[c].excusa = x(c)
  <2>1. con'[c] = [con[c] EXCEPT !.excusa = x(c)]
    BY <1>2
  <2>2. con'[c] \in Registros /\ Coherente(con'[c])
    BY <1>1, <2>1, PierdeCoherente
  <2>3. con[c] \in Registros /\ x(c) \in BOOLEAN
    BY <1>1
  <2> QED BY <2>1, <2>2, <2>3 DEF Registros
<1>4. con' \in [Conexiones -> Registros]
  BY <1>2, <1>3
<1> QED BY <1>3, <1>4 DEF ConexionesCoherentes, x

\* Types and coherence, for every step.
LEMMA TiposPaso ==
    ASSUME Tipos, ConexionesCoherentes, EnOrdenDeLlegada, Next
    PROVE  Tipos' /\ ConexionesCoherentes'
<1>p. publicados \in Nat
  BY EventosAssumption DEF Tipos
<1>u. usuario' \in Cuentas
  BY UsuarioPaso DEF Tipos
<1>1. ASSUME NEW c \in Conexiones, NEW n, Mueve(c, n)
      PROVE  Tipos' /\ ConexionesCoherentes'
  <2>1. con[c] \in Registros /\ Coherente(con[c])
    BY DEF Tipos, ConexionesCoherentes
  <2>2. n \in Registros /\ Coherente(n)
    BY <1>p, <1>1, <2>1, CambioCoherente DEF Mueve
  <2>3. con' = [con EXCEPT ![c] = n]
    BY <1>1 DEF Mueve
  <2>4. con' \in [Conexiones -> Registros] /\ ConexionesCoherentes'
    BY <2>2, <2>3 DEF Tipos, ConexionesCoherentes
  <2> QED BY <1>u, <1>1, <2>4 DEF Mueve, Tipos
<1>2. ASSUME NEW c \in Conexiones, NEW t \in Tickets, Presenta(c, t)
      PROVE  Tipos' /\ ConexionesCoherentes'
  <2>1. con[c].fase = "nada"
    BY <1>2, SiguienteLibre DEF Presenta
  <2>2. /\ con' \in [Conexiones -> Registros] /\ \A d \in Conexiones \ {c} : con'[d] = con[d]
        /\ Coherente(con'[c]) /\ ticket' \in [Tickets -> Vales]
        /\ \A u \in Tickets : ticket'[u].est = "vigente" => ticket'[u].s \in Sesiones
    BY <1>2, <2>1, PresentaCoherente
  <2>3. ConexionesCoherentes'
    BY <2>2 DEF ConexionesCoherentes
  <2> QED BY <1>u, <1>2, <2>2, <2>3 DEF Presenta, Tipos
<1>3. CASE PublicaEvento
  <2>1. Evento(publicados + 1) \in Mensajes /\ publicados + 1 \in 0..MaxEventos
    BY <1>3, EventoTipo, EventosAssumption DEF PublicaEvento, Tipos
  <2>2. con' \in [Conexiones -> Registros] /\ ConexionesCoherentes'
    BY <1>3, <2>1, RecibenTodas DEF PublicaEvento
  <2> QED BY <1>u, <1>3, <2>1, <2>2 DEF PublicaEvento, Tipos
<1>4. ASSUME NEW m \in avisos, PublicaAviso(m) \/ PierdeAviso(m)
      PROVE  Tipos' /\ ConexionesCoherentes'
  <2>1. m \in Mensajes
    BY DEF Tipos
  <2>2. con' \in [Conexiones -> Registros] /\ ConexionesCoherentes'
    BY <1>4, <2>1, RecibenTodas, PierdenTodas DEF PublicaAviso
  <2>3. avisos' = avisos \ {m} /\ UNCHANGED <<sesion, ticket, publicados>>
    BY <1>4 DEF PublicaAviso, PierdeAviso
  <2> QED BY <1>u, <2>2, <2>3 DEF Tipos
<1>5. CASE CierraSesiones
  BY <1>u, <1>5 DEF CierraSesiones, Tipos, ConexionesCoherentes
<1>6. CASE MueveVales
  BY <1>u, <1>6 DEF MueveVales, Tipos, ConexionesCoherentes
<1> QED BY <1>1, <1>2, <1>3, <1>4, <1>5, <1>6, PasoEntero

\* A connection in use stays in use.
LEMMA CambioFase ==
    ASSUME NEW c \in Conexiones, NEW n, con[c] \in Registros, Coherente(con[c]), Cambio(c, n)
    PROVE  con[c].fase # "nada" /\ n.fase # "nada"
<1> DEFINE v == con[c]
<1>t. v \in Registros /\ Coherente(v)
  OBVIOUS
<1>1. CASE v.fase # "nada" /\ n = Acabada
  BY <1>1, InicioCon
<1>2. CASE Avanza(c, n)
  BY <1>t, <1>2 DEF Avanza, Registros
<1>3. CASE Suscribe(c, n)
  <2>1. PICK x \in BOOLEAN : Suscripcion(c) = [v EXCEPT !.lector = "lee", !.desde = publicados, !.excusa = x]
    BY DEF Suscripcion
  <2>2. PICK f \in {"abierta", "upgrade"} :
           n = [v EXCEPT !.fase = f, !.lector = "lee", !.desde = publicados, !.excusa = x]
    BY <1>3, <2>1 DEF Suscribe
  <2>3. n.fase = f
    BY <1>t, <2>2 DEF Registros
  <2> QED BY <1>3, <2>3 DEF Suscribe
<1>4. CASE Corta(c, n)
  BY <1>t, <1>4 DEF Corta, Cortada, Registros, Coherente, SinLector
<1>5. CASE Lee(c, n)
  <2> DEFINE q == Tail(v.cola)
             m == Head(v.cola)
  <2>1. /\ v.lector = "lee"
        /\ \/ n = [v EXCEPT !.cola = q]
           \/ n = [v EXCEPT !.cola = q, !.lector = "entrega", !.mano = m.id]
           \/ n = [v EXCEPT !.cola = q, !.omitidos = v.omitidos \cup {m.id}]
    BY <1>5 DEF Lee
  <2> HIDE DEF q, m
  <2>2. n.fase = v.fase
    BY <1>t, <2>1 DEF Registros
  <2> QED BY <1>t, <2>1, <2>2 DEF Coherente, SinLector
<1>6. CASE Entrega(c, n)
  <2> DEFINE q == Append(v.eventos, v.mano)
  <2>1. v.lector = "entrega" /\ n = [v EXCEPT !.lector = "lee", !.mano = 0, !.eventos = q]
    BY <1>6 DEF Entrega
  <2> HIDE DEF q
  <2>2. n.fase = v.fase
    BY <1>t, <2>1 DEF Registros
  <2> QED BY <1>t, <2>1, <2>2 DEF Coherente, SinLector
<1>7. CASE Sirve(c, n)
  BY <1>t, <1>7 DEF Sirve, Registros
<1> QED BY <1>1, <1>2, <1>3, <1>4, <1>5, <1>6, <1>7 DEF Cambio

\* The connections are used in order.
LEMMA EnOrdenDeLlegadaPaso ==
    ASSUME Tipos, ConexionesCoherentes, EnOrdenDeLlegada, Next
    PROVE  EnOrdenDeLlegada'
<1> DEFINE U == {d \in Conexiones : ~En(d, "nada")}
<1>1. PICK k \in Nat : U = 1..k
  BY DEF EnOrdenDeLlegada
<1>2. ASSUME \A d \in Conexiones : (con'[d].fase = "nada") <=> (con[d].fase = "nada")
      PROVE  EnOrdenDeLlegada'
  <2>1. U' = U
    BY <1>2 DEF En
  <2> QED BY <1>1, <2>1 DEF EnOrdenDeLlegada
<1>3. ASSUME NEW c \in Conexiones, NEW n, Mueve(c, n)
      PROVE  EnOrdenDeLlegada'
  <2>1. con \in [Conexiones -> Registros] /\ con' = [con EXCEPT ![c] = n]
    BY <1>3 DEF Mueve, Tipos
  <2>2. con[c].fase # "nada" /\ n.fase # "nada"
    BY <1>3, CambioFase DEF Mueve, Tipos, ConexionesCoherentes
  <2> QED BY <1>2, <2>1, <2>2
<1>4. ASSUME NEW c \in Conexiones, NEW t \in Tickets, Presenta(c, t)
      PROVE  EnOrdenDeLlegada'
  <2>1. con[c].fase = "nada" /\ U = 1..(c - 1) /\ c = Siguiente
    BY <1>4, SiguienteLibre DEF Presenta
  <2>2. c = k + 1
    <3>1. Cardinality(1..k) = k
      BY <1>1, FS_Interval
    <3> QED BY <1>1, <2>1, <3>1 DEF Siguiente
  <2>3. /\ \A d \in Conexiones \ {c} : con'[d] = con[d]
        /\ con'[c].fase = "verifica"
    BY <1>4, <2>1, PresentaCoherente
  <2>4. U' = U \cup {c}
    BY <2>3 DEF En
  <2>5. U' = 1..(k + 1)
    BY <1>1, <2>2, <2>4
  <2> QED BY <1>1, <2>5 DEF EnOrdenDeLlegada
<1>5. CASE PublicaEvento
  <2>1. Evento(publicados + 1) \in Mensajes
    BY <1>5, EventoTipo DEF PublicaEvento, Tipos
  <2> QED BY <1>2, <1>5, <2>1, RecibenTodas DEF PublicaEvento
<1>6. ASSUME NEW m \in avisos, PublicaAviso(m) \/ PierdeAviso(m)
      PROVE  EnOrdenDeLlegada'
  <2>1. m \in Mensajes
    BY DEF Tipos
  <2> QED BY <1>2, <1>6, <2>1, RecibenTodas, PierdenTodas DEF PublicaAviso
<1>7. CASE CierraSesiones \/ MueveVales
  BY <1>2, <1>7 DEF CierraSesiones, MueveVales
<1> QED BY <1>3, <1>4, <1>5, <1>6, <1>7, PasoEntero

-----------------------------------------------------------------------------
(* The three properties of the connections *)

\* What every stream is owed, for every step.
LEMMA StreamsFielesPaso ==
    ASSUME Tipos, ConexionesCoherentes, EnOrdenDeLlegada, StreamsFieles, Next
    PROVE  StreamsFieles'
<1>p. publicados \in Nat /\ publicados \in 0..MaxEventos
  BY EventosAssumption DEF Tipos
<1>t. \A c \in Conexiones : con[c] \in Registros /\ Coherente(con[c])
  BY DEF Tipos, ConexionesCoherentes
<1>f. \A c \in Conexiones : con[c].tipo = "sse" /\ con[c].lector \in {"lee", "entrega"} => FielCon(con[c], Vedados, publicados)
  BY DEF StreamsFieles, SSE, Suscrita
<1> DEFINE G == \A d \in Conexiones : con'[d].tipo = "sse" /\ con'[d].lector \in {"lee", "entrega"}
                   => FielCon(con'[d], Vedados, publicados')
<1>s. SUFFICES G
  <2>1. ASSUME NEW v, NEW h, FielCon(v, Vedados, h) PROVE FielCon(v, Vedados', h)
    <3>1. v.omitidos \cup Vedados \subseteq v.omitidos \cup Vedados'
      BY VedadosCrecen
    <3> DEFINE a == v.omitidos \cup Vedados
               b == v.omitidos \cup Vedados'
    <3>2. Fiel(Mano(v), v.cola, a, v.desde, h) /\ a \subseteq b
      BY <2>1, <3>1 DEF FielCon
    <3> HIDE DEF a, b
    <3>3. Fiel(Mano(v), v.cola, b, v.desde, h)
      BY <3>2 DEF Fiel
    <3> QED BY <3>3 DEF FielCon, b
  <2> QED BY <2>1 DEF StreamsFieles, SSE, Suscrita
<1>1. ASSUME NEW c \in Conexiones, NEW n, Mueve(c, n)
      PROVE  G
  <2>1. con' = [con EXCEPT ![c] = n] /\ publicados' = publicados /\ Cambio(c, n) /\ con \in [Conexiones -> Registros]
    BY <1>1 DEF Mueve, Tipos
  <2>2. n.tipo = "sse" /\ n.lector \in {"lee", "entrega"} => FielCon(n, Vedados, publicados)
    BY <1>p, <1>t, <1>f, <2>1, CambioFiel
  <2>3. \A d \in Conexiones : con'[d].tipo = "sse" /\ con'[d].lector \in {"lee", "entrega"} => FielCon(con'[d], Vedados, publicados)
    BY <1>f, <2>1, <2>2
  <2> QED BY <2>1, <2>3
<1>2. ASSUME NEW c \in Conexiones, NEW t \in Tickets, Presenta(c, t)
      PROVE  G
  <2>1. con[c].fase = "nada"
    BY <1>2, SiguienteLibre DEF Presenta
  <2>2. (\A d \in Conexiones \ {c} : con'[d] = con[d]) /\ con'[c].lector = "no"
    BY <1>2, <2>1, PresentaCoherente
  <2>3. publicados' = publicados
    BY <1>2 DEF Presenta
  <2>4. \A d \in Conexiones : con'[d].tipo = "sse" /\ con'[d].lector \in {"lee", "entrega"} => FielCon(con'[d], Vedados, publicados)
    BY <1>f, <2>2
  <2> QED BY <2>3, <2>4
<1>3. CASE PublicaEvento
  <2>1. Evento(publicados + 1) \in Mensajes /\ Evento(publicados + 1).t = "evento"
        /\ Evento(publicados + 1).id = publicados + 1
    BY <1>3, <1>p, EventoTipo DEF PublicaEvento
  <2>2. \A c \in Conexiones : /\ con'[c] = Entregado(c, Evento(publicados + 1))
                              /\ con'[c].tipo = con[c].tipo /\ con'[c].lector = con[c].lector
    BY <1>3, <2>1, RecibenTodas DEF PublicaEvento
  <2>3. ASSUME NEW c \in Conexiones, con'[c].tipo = "sse", con'[c].lector \in {"lee", "entrega"}
        PROVE  FielCon(con'[c], Vedados, publicados + 1)
    <3>1. Suscrita(c) /\ FielCon(con[c], Vedados, publicados)
      BY <1>f, <2>2, <2>3 DEF Suscrita
    <3> QED BY <1>p, <1>t, <2>1, <2>2, <3>1, RecibeFiel
  <2>4. publicados' = publicados + 1
    BY <1>3 DEF PublicaEvento
  <2> QED BY <2>3, <2>4
<1>4. ASSUME NEW m \in avisos, PublicaAviso(m)
      PROVE  G
  <2>1. m \in Mensajes /\ m.t # "evento"
    BY DEF Tipos
  <2>2. \A c \in Conexiones : /\ con'[c] = Entregado(c, m)
                              /\ con'[c].tipo = con[c].tipo /\ con'[c].lector = con[c].lector
    BY <1>4, <2>1, RecibenTodas DEF PublicaAviso
  <2>3. ASSUME NEW c \in Conexiones, con'[c].tipo = "sse", con'[c].lector \in {"lee", "entrega"}
        PROVE  FielCon(con'[c], Vedados, publicados)
    <3>1. Suscrita(c) /\ FielCon(con[c], Vedados, publicados)
      BY <1>f, <2>2, <2>3 DEF Suscrita
    <3> QED BY <1>p, <1>t, <2>1, <2>2, <3>1, RecibeFiel
  <2>4. publicados' = publicados
    BY <1>4 DEF PublicaAviso
  <2> QED BY <2>3, <2>4
<1>5. ASSUME NEW m \in avisos, PierdeAviso(m)
      PROVE  G
  <2>1. m \in Mensajes
    BY DEF Tipos
  <2>2. \A c \in Conexiones :
          /\ con'[c].tipo = con[c].tipo /\ con'[c].lector = con[c].lector
          /\ con'[c].cola = con[c].cola /\ con'[c].eventos = con[c].eventos
          /\ con'[c].mano = con[c].mano /\ con'[c].entregados = con[c].entregados
          /\ con'[c].omitidos = con[c].omitidos /\ con'[c].desde = con[c].desde
    BY <1>5, <2>1, PierdenTodas
  <2>3. ASSUME NEW c \in Conexiones, con'[c].tipo = "sse", con'[c].lector \in {"lee", "entrega"}
        PROVE  FielCon(con'[c], Vedados, publicados)
    <3>1. FielCon(con[c], Vedados, publicados)
      BY <1>f, <2>2, <2>3
    <3>2. Mano(con'[c]) = Mano(con[c])
      BY <2>2 DEF Mano
    <3> QED BY <2>2, <3>1, <3>2 DEF FielCon
  <2>4. publicados' = publicados
    BY <1>5 DEF PierdeAviso
  <2> QED BY <2>3, <2>4
<1>6. CASE CierraSesiones \/ MueveVales
  <2>1. con' = con /\ publicados' = publicados
    BY <1>6 DEF CierraSesiones, MueveVales
  <2> QED BY <1>f, <2>1
<1> QED BY <1>1, <1>2, <1>3, <1>4, <1>5, <1>6, PasoEntero

\* The cause of every cut, for every step.
LEMMA CorteConCausaPaso ==
    ASSUME Tipos, ConexionesCoherentes, EnOrdenDeLlegada, CorteConCausa, Next
    PROVE  CorteConCausa'
<1>t. \A c \in Conexiones : con[c] \in Registros /\ Coherente(con[c])
  BY DEF Tipos, ConexionesCoherentes
<1>c. \A c \in Conexiones : con[c].lector \in {"lee", "entrega"} => Causa(con[c], sesion, avisos)
  BY DEF CorteConCausa, Suscrita, AvisoPendiente, Causa
<1>g. ASSUME \A c \in Conexiones : con'[c].lector \in {"lee", "entrega"} => Causa(con'[c], sesion', avisos')
      PROVE  CorteConCausa'
  BY <1>g DEF CorteConCausa, Suscrita, AvisoPendiente, Causa
<1>1. ASSUME NEW c \in Conexiones, NEW n, Mueve(c, n)
      PROVE  CorteConCausa'
  <2>1. con' = [con EXCEPT ![c] = n] /\ Cambio(c, n) /\ con \in [Conexiones -> Registros]
        /\ sesion' = sesion /\ avisos' = avisos
    BY <1>1 DEF Mueve, Tipos
  <2>2. n.lector \in {"lee", "entrega"} => Causa(n, sesion, avisos)
    BY <1>t, <1>c, <2>1, CambioConCausa
  <2>3. \A d \in Conexiones : con'[d].lector \in {"lee", "entrega"} => Causa(con'[d], sesion, avisos)
    BY <1>c, <2>1, <2>2
  <2> QED BY <1>g, <2>1, <2>3
<1>2. ASSUME NEW c \in Conexiones, NEW t \in Tickets, Presenta(c, t)
      PROVE  CorteConCausa'
  <2>1. con[c].fase = "nada"
    BY <1>2, SiguienteLibre DEF Presenta
  <2>2. (\A d \in Conexiones \ {c} : con'[d] = con[d]) /\ con'[c].lector = "no"
    BY <1>2, <2>1, PresentaCoherente
  <2>3. sesion' = sesion /\ avisos' = avisos
    BY <1>2 DEF Presenta
  <2> QED BY <1>c, <1>g, <2>2, <2>3
<1>3. CASE PublicaEvento
  <2>1. Evento(publicados + 1) \in Mensajes /\ Evento(publicados + 1).t = "evento"
    BY <1>3, EventoTipo DEF PublicaEvento, Tipos
  <2>2. \A c \in Conexiones : con'[c] = Entregado(c, Evento(publicados + 1)) /\ con'[c].lector = con[c].lector
    BY <1>3, <2>1, RecibenTodas DEF PublicaEvento
  <2>3. ASSUME NEW c \in Conexiones, con'[c].lector \in {"lee", "entrega"}
        PROVE  Causa(con'[c], sesion, avisos)
    BY <1>t, <1>c, <2>1, <2>2, <2>3, RecibeConCausa DEF Suscrita
  <2>4. sesion' = sesion /\ avisos' = avisos
    BY <1>3 DEF PublicaEvento
  <2> QED BY <1>g, <2>3, <2>4
<1>4. ASSUME NEW m \in avisos, PublicaAviso(m)
      PROVE  CorteConCausa'
  <2>1. m \in Mensajes
    BY DEF Tipos
  <2>2. \A c \in Conexiones : con'[c] = Entregado(c, m) /\ con'[c].lector = con[c].lector
    BY <1>4, <2>1, RecibenTodas DEF PublicaAviso
  <2>3. ASSUME NEW c \in Conexiones, con'[c].lector \in {"lee", "entrega"}
        PROVE  Causa(con'[c], sesion, avisos \ {m})
    BY <1>t, <1>c, <2>1, <2>2, <2>3, RecibeConCausa DEF Suscrita
  <2>4. sesion' = sesion /\ avisos' = avisos \ {m}
    BY <1>4 DEF PublicaAviso
  <2> QED BY <1>g, <2>3, <2>4
<1>5. ASSUME NEW m \in avisos, PierdeAviso(m)
      PROVE  CorteConCausa'
  <2>1. m \in Mensajes
    BY DEF Tipos
  <2>2. \A c \in Conexiones :
          /\ con'[c].lector = con[c].lector /\ con'[c].s = con[c].s /\ con'[c].cola = con[c].cola
          /\ con'[c].excusa = (con[c].excusa \/ (Suscrita(c) /\ Pide(m, con[c].s)))
    BY <1>5, <2>1, PierdenTodas
  <2>3. ASSUME NEW c \in Conexiones, con'[c].lector \in {"lee", "entrega"}
        PROVE  Causa(con'[c], sesion, avisos \ {m})
    <3>1. Suscrita(c) /\ Causa(con[c], sesion, avisos)
      BY <1>c, <2>2, <2>3 DEF Suscrita
    <3> QED BY <2>2, <3>1 DEF Causa
  <2>4. sesion' = sesion /\ avisos' = avisos \ {m}
    BY <1>5 DEF PierdeAviso
  <2> QED BY <1>g, <2>3, <2>4
<1>6. CASE CierraSesiones
  <2>1. con' = con /\ avisos \subseteq avisos'
        /\ \A s \in Sesiones : sesion[s] /\ ~sesion'[s] => \E m \in avisos' : Pide(m, s)
    BY <1>6 DEF CierraSesiones
  <2>2. ASSUME NEW c \in Conexiones, con[c].lector \in {"lee", "entrega"}
        PROVE  Causa(con[c], sesion', avisos')
    <3>1. con[c].s \in Sesiones
      BY <1>t, <2>2 DEF Coherente, SinLector
    <3>2. Causa(con[c], sesion, avisos)
      BY <1>c, <2>2
    <3> QED BY <2>1, <3>1, <3>2 DEF Causa
  <2> QED BY <1>g, <2>1, <2>2
<1>7. CASE MueveVales
  <2>1. con' = con /\ sesion' = sesion /\ avisos' = avisos
    BY <1>7 DEF MueveVales
  <2> QED BY <1>c, <1>g, <2>1
<1> QED BY <1>1, <1>2, <1>3, <1>4, <1>5, <1>6, <1>7, PasoEntero

\* The count of places, for every step.
LEMMA CupoExactoPaso ==
    ASSUME Tipos, ConexionesCoherentes, EnOrdenDeLlegada, CupoExacto, Next
    PROVE  CupoExacto'
<1>1. IsFiniteSet(ConLugar) /\ Cardinality(ConLugar) \in Nat /\ MaxWS \in Nat
      /\ conexiones = Cardinality(ConLugar) /\ conexiones <= MaxWS
  <2>1. IsFiniteSet(Conexiones) /\ ConLugar \in SUBSET Conexiones
    BY EventosAssumption DEF ConLugar
  <2>2. IsFiniteSet(ConLugar)
    BY <2>1, FS_Subset
  <2>3. Cardinality(ConLugar) \in Nat
    BY <2>2, FS_CardinalityType
  <2> QED BY <2>2, <2>3, EventosAssumption DEF CupoExacto
<1>2. ConLugar = {c \in Conexiones : Ocupa(con[c])} /\ ConLugar' = {c \in Conexiones : Ocupa(con'[c])}
  BY DEF ConLugar, Ocupa, SSE
<1>3. ASSUME conexiones' = conexiones, \A c \in Conexiones : Ocupa(con'[c]) <=> Ocupa(con[c])
      PROVE  CupoExacto'
  <2>1. ConLugar' = ConLugar
    BY <1>2, <1>3
  <2> QED BY <1>1, <1>3, <2>1 DEF CupoExacto
<1>4. ASSUME NEW c \in Conexiones, NEW n, Mueve(c, n), Cuenta(c)
      PROVE  CupoExacto'
  <2>1. \A d \in Conexiones \ {c} : con'[d] = con[d]
    BY <1>4 DEF Mueve, Tipos
  <2>2. CASE conexiones' = conexiones /\ (Ocupa(con'[c]) <=> Ocupa(con[c]))
    BY <1>3, <2>1, <2>2
  <2>3. CASE conexiones < MaxWS /\ conexiones' = conexiones + 1 /\ ~Ocupa(con[c]) /\ Ocupa(con'[c])
    <3>1. ConLugar' = ConLugar \cup {c} /\ c \notin ConLugar
      BY <1>2, <2>1, <2>3
    <3>2. Cardinality(ConLugar \cup {c}) = Cardinality(ConLugar) + 1
      BY <1>1, <3>1, FS_AddElement
    <3> QED BY <1>1, <2>3, <3>1, <3>2 DEF CupoExacto
  <2>4. CASE conexiones' = conexiones - 1 /\ Ocupa(con[c]) /\ ~Ocupa(con'[c])
    <3>1. ConLugar' = ConLugar \ {c} /\ c \in ConLugar
      BY <1>2, <2>1, <2>4
    <3>2. Cardinality(ConLugar \ {c}) = Cardinality(ConLugar) - 1
      BY <1>1, <3>1, FS_RemoveElement
    <3> QED BY <1>1, <2>4, <3>1, <3>2 DEF CupoExacto
  <2> QED BY <1>4, <2>2, <2>3, <2>4 DEF Cuenta
<1>5. ASSUME NEW c \in Conexiones, NEW t \in Tickets, Presenta(c, t)
      PROVE  CupoExacto'
  <2>1. con[c].fase = "nada"
    BY <1>5, SiguienteLibre DEF Presenta
  <2>2. (\A d \in Conexiones \ {c} : con'[d] = con[d]) /\ con'[c].fase = "verifica"
    BY <1>5, <2>1, PresentaCoherente
  <2>3. \A d \in Conexiones : Ocupa(con'[d]) <=> Ocupa(con[d])
    BY <2>1, <2>2 DEF Ocupa
  <2> QED BY <1>3, <1>5, <2>3 DEF Presenta
<1>6. CASE PublicaEvento /\ UNCHANGED conexiones
  <2>1. Evento(publicados + 1) \in Mensajes
    BY <1>6, EventoTipo DEF PublicaEvento, Tipos
  <2>2. \A d \in Conexiones : con'[d].tipo = con[d].tipo /\ con'[d].fase = con[d].fase
    BY <1>6, <2>1, RecibenTodas DEF PublicaEvento
  <2> QED BY <1>3, <1>6, <2>2 DEF Ocupa
<1>7. ASSUME NEW m \in avisos, PublicaAviso(m) \/ PierdeAviso(m), UNCHANGED conexiones
      PROVE  CupoExacto'
  <2>1. m \in Mensajes
    BY DEF Tipos
  <2>2. \A d \in Conexiones : con'[d].tipo = con[d].tipo /\ con'[d].fase = con[d].fase
    BY <1>7, <2>1, RecibenTodas, PierdenTodas DEF PublicaAviso
  <2> QED BY <1>3, <1>7, <2>2 DEF Ocupa
<1>8. CASE (CierraSesiones \/ MueveVales) /\ UNCHANGED conexiones
  BY <1>3, <1>8 DEF CierraSesiones, MueveVales
<1> QED BY <1>4, <1>5, <1>6, <1>7, <1>8, PasoEntero

-----------------------------------------------------------------------------
(* The invariant and what follows from it *)

\* The invariant holds at the start.
LEMMA IInvInicio ==
    ASSUME Init
    PROVE  IInv
<1>1. MaxEventos \in Nat /\ MaxWS \in Nat
  BY EventosAssumption
<1>2. con = [c \in Conexiones |-> SinCon] /\ sesion = [s \in Sesiones |-> TRUE] /\ avisos = {}
      /\ publicados = 0 /\ conexiones = 0
      /\ ticket = [t \in Tickets |-> [est |-> "libre", tipo |-> "sse", s |-> Todas]]
  BY DEF Init
<1>3. \A c \in Conexiones : con[c] = SinCon /\ con[c].fase = "nada" /\ con[c].lector = "no"
  BY <1>2, InicioCon
<1>4. Tipos
  <2>1. con \in [Conexiones -> Registros] /\ sesion \in [Sesiones -> BOOLEAN]
    BY <1>2, InicioCon
  <2>2. ticket \in [Tickets -> Vales] /\ \A t \in Tickets : ticket[t].est = "libre"
    BY <1>2 DEF Vales
  <2>3. usuario \in Cuentas
    BY DEF Init, Cuentas
  <2> QED BY <1>1, <1>2, <2>1, <2>2, <2>3 DEF Tipos
<1>5. ConexionesCoherentes
  BY <1>3, InicioCon DEF ConexionesCoherentes
<1>6. EnOrdenDeLlegada
  <2>1. {c \in Conexiones : ~En(c, "nada")} = 1..0
    BY <1>3 DEF En
  <2> QED BY <2>1 DEF EnOrdenDeLlegada
<1>7. StreamsFieles /\ CorteConCausa
  BY <1>3 DEF StreamsFieles, CorteConCausa, Suscrita
<1>8. CupoExacto
  <2>1. ConLugar = {}
    BY <1>3 DEF ConLugar
  <2> QED BY <1>1, <1>2, <2>1, FS_EmptySet DEF CupoExacto
<1> QED BY <1>4, <1>5, <1>6, <1>7, <1>8 DEF IInv

\* Every step keeps it.
LEMMA IInvPaso ==
    ASSUME IInv, [Next]_vars
    PROVE  IInv'
<1>1. CASE Next
  BY <1>1, TiposPaso, EnOrdenDeLlegadaPaso, StreamsFielesPaso, CorteConCausaPaso, CupoExactoPaso DEF IInv
<1>2. CASE UNCHANGED vars
  BY <1>2 DEF vars, IInv, Tipos, ConexionesCoherentes, EnOrdenDeLlegada, En, StreamsFieles, Vedados, SSE, Suscrita,
              CorteConCausa, AvisoPendiente, CupoExacto, ConLugar
<1> QED BY <1>1, <1>2

\* The connections keep their shape, their order of arrival and the invariant
\* of each channel.
THEOREM Invariante == Spec => []IInv
<1> QED BY IInvInicio, IInvPaso, PTL DEF Spec

-----------------------------------------------------------------------------
(* The buffers *)

\* No buffer passes its capacity, and what they hold was published.
Acotada(v) ==
    /\ Len(v.cola) <= CapBus /\ Len(v.eventos) <= CapCanal
    /\ v.mano \in 0..MaxEventos /\ ToSet(v.eventos) \subseteq 1..MaxEventos
Acotadas == \A c \in Conexiones : Acotada(con[c])
Contadores ==
    /\ cierres \in 0..MaxCierres /\ fallos \in 0..MaxFallos

\* What a buffer holds after one more at the end, or one fewer at the front.
LEMMA Contenido ==
    ASSUME NEW q \in Seq(Nat)
    PROVE  /\ \A x \in Nat : ToSet(Append(q, x)) = ToSet(q) \cup {x}
           /\ q # <<>> => ToSet(Tail(q)) \subseteq ToSet(q)
<1>1. Len(q) \in Nat /\ DOMAIN q = 1..Len(q)
  BY LenProperties
<1>2. ASSUME NEW x \in Nat PROVE ToSet(Append(q, x)) = ToSet(q) \cup {x}
  <2> DEFINE r == Append(q, x)
  <2>1. /\ Len(r) = Len(q) + 1 /\ DOMAIN r = 1..Len(r)
        /\ \A i \in 1..Len(q) : r[i] = q[i]
        /\ r[Len(q) + 1] = x
    BY <1>2, AppendProperties, LenProperties
  <2> HIDE DEF r
  <2>2. ToSet(r) = {r[i] : i \in 1..Len(r)} /\ ToSet(q) = {q[i] : i \in 1..Len(q)}
    BY <1>1, <2>1, Zenon DEF ToSet
  <2>3. 1..Len(r) = 1..Len(q) \cup {Len(q) + 1}
    BY <1>1, <2>1
  <2>4. ToSet(r) = {r[i] : i \in 1..Len(q)} \cup {r[Len(q) + 1]}
    BY <2>2, <2>3
  <2>5. {r[i] : i \in 1..Len(q)} = {q[i] : i \in 1..Len(q)}
    BY <2>1
  <2>6. ToSet(r) = ToSet(q) \cup {x}
    BY <2>1, <2>2, <2>4, <2>5
  <2> QED BY <2>6 DEF r
<1>3. ASSUME q # <<>> PROVE ToSet(Tail(q)) \subseteq ToSet(q)
  <2> DEFINE r == Tail(q)
  <2>1. Len(r) = Len(q) - 1 /\ DOMAIN r = 1..Len(r) /\ \A i \in 1..Len(r) : r[i] = q[i + 1]
    BY <1>1, <1>3, HeadTailProperties, LenProperties
  <2> HIDE DEF r
  <2>2. ToSet(r) = {r[i] : i \in 1..Len(r)} /\ ToSet(q) = {q[i] : i \in 1..Len(q)}
    BY <1>1, <2>1, Zenon DEF ToSet
  <2>3. \A i \in 1..Len(r) : i + 1 \in 1..Len(q)
    BY <1>1, <2>1
  <2>4. ToSet(r) \subseteq ToSet(q)
    BY <2>1, <2>2, <2>3
  <2> QED BY <2>4 DEF r
<1> QED BY <1>2, <1>3

\* A connection nobody uses, and one whose reader is gone, hold nothing.
LEMMA SinNadaAcotada == Acotada(SinCon) /\ Acotada(Acabada)
<1>1. /\ SinCon.cola = <<>> /\ SinCon.eventos = <<>> /\ SinCon.mano = 0
      /\ Acabada.cola = <<>> /\ Acabada.eventos = <<>> /\ Acabada.mano = 0
  BY Zenon DEF SinCon, Acabada
<1>2. ToSet(<<>>) = {} /\ Len(<<>>) = 0
  BY DEF ToSet
<1> QED BY <1>1, <1>2, EventosAssumption DEF Acotada

\* The handler and the reader move events between buffers with room.
LEMMA CambioAcotado ==
    ASSUME NEW c \in Conexiones, NEW n, con[c] \in Registros, Coherente(con[c]), Acotada(con[c]), Cambio(c, n)
    PROVE  Acotada(n)
<1> DEFINE v == con[c]
<1>t. v \in Registros /\ Coherente(v) /\ Acotada(v)
  OBVIOUS
<1>b. {MaxEventos, CapBus, CapCanal} \subseteq Nat \ {0}
  BY EventosAssumption
<1>1. CASE n.cola = v.cola /\ n.eventos = v.eventos /\ n.mano = v.mano
  BY <1>t, <1>1 DEF Acotada
<1>2. CASE n = Acabada
  BY <1>2, SinNadaAcotada
<1>3. CASE Avanza(c, n)
  <2>1. PICK f : n = [v EXCEPT !.fase = f]
    BY <1>3 DEF Avanza
  <2>2. n.cola = v.cola /\ n.eventos = v.eventos /\ n.mano = v.mano
    BY <1>t, <2>1 DEF Registros
  <2> QED BY <1>1, <2>2
<1>4. CASE Suscribe(c, n)
  <2>1. PICK f, x : n = [[v EXCEPT !.lector = "lee", !.desde = publicados, !.excusa = x] EXCEPT !.fase = f]
    BY <1>4 DEF Suscribe, Suscripcion
  <2>2. n.cola = v.cola /\ n.eventos = v.eventos /\ n.mano = v.mano
    BY <1>t, <2>1 DEF Registros
  <2> QED BY <1>1, <2>2
<1>5. CASE Corta(c, n)
  <2>1. PICK motivo \in Motivos : n = [v EXCEPT !.cierre = motivo, !.lector = "fin", !.cola = <<>>, !.mano = 0]
    BY <1>5 DEF Corta, Cortada
  <2>2. n.cola = <<>> /\ n.eventos = v.eventos /\ n.mano = 0
    BY <1>t, <2>1 DEF Registros
  <2> QED BY <1>b, <1>t, <2>2 DEF Acotada
<1>6. CASE Lee(c, n)
  <2> DEFINE m == Head(v.cola)
             q == Tail(v.cola)
  <2>1. v.cola \in Seq(Mensajes) /\ v.cola # <<>>
    BY <1>t, <1>6 DEF Lee, Registros
  <2>2. m \in Mensajes /\ q \in Seq(Mensajes) /\ Len(q) <= Len(v.cola)
    BY <2>1, HeadTailProperties
  <2>3. \/ n = [v EXCEPT !.cola = q]
        \/ m.t = "evento" /\ n = [v EXCEPT !.cola = q, !.lector = "entrega", !.mano = m.id]
        \/ n = [v EXCEPT !.cola = q, !.omitidos = v.omitidos \cup {m.id}]
    BY <1>6 DEF Lee
  <2>4. m.id \in 0..MaxEventos
    BY <1>b, <2>2, SMTT(30) DEF Mensajes, Evento
  <2> HIDE DEF m, q
  <2>5. n.cola = q /\ n.eventos = v.eventos /\ n.mano \in {v.mano, m.id}
    BY <1>t, <2>3 DEF Registros
  <2>6. Len(q) \in Nat /\ Len(v.cola) \in Nat
    BY <2>1, <2>2, LenProperties
  <2> QED BY <1>b, <1>t, <2>2, <2>4, <2>5, <2>6 DEF Acotada
<1>7. CASE Entrega(c, n)
  <2> DEFINE q == Append(v.eventos, v.mano)
  <2>1. v.eventos \in Seq(Nat) /\ v.mano \in Nat
    BY <1>t DEF Registros
  <2>2. Len(q) = Len(v.eventos) + 1 /\ Len(v.eventos) \in Nat /\ ToSet(q) = ToSet(v.eventos) \cup {v.mano}
    BY <2>1, Contenido, AppendProperties, LenProperties
  <2> HIDE DEF q
  <2>3. n = [v EXCEPT !.lector = "lee", !.mano = 0, !.eventos = q]
    BY <1>7 DEF Entrega, q
  <2>4. n.cola = v.cola /\ n.eventos = q /\ n.mano = 0
    BY <1>t, <2>3 DEF Registros
  <2>5. v.mano \in 1..MaxEventos /\ Len(v.eventos) < CapCanal
    BY <1>b, <1>t, <1>7 DEF Entrega, Coherente, Acotada
  <2> QED BY <1>b, <1>t, <2>2, <2>4, <2>5 DEF Acotada
<1>8. CASE Sirve(c, n)
  <2> DEFINE q == Tail(v.eventos)
             a == Append(v.entregados, Head(v.eventos))
  <2>1. v.eventos \in Seq(Nat) /\ v.eventos # <<>> /\ n = [v EXCEPT !.entregados = a, !.eventos = q]
    BY <1>t, <1>8 DEF Sirve, Registros
  <2>2. Len(q) = Len(v.eventos) - 1 /\ Len(v.eventos) \in Nat /\ ToSet(q) \subseteq ToSet(v.eventos)
    BY <2>1, Contenido, HeadTailProperties, LenProperties
  <2> HIDE DEF q, a
  <2>3. n.cola = v.cola /\ n.eventos = q /\ n.mano = v.mano
    BY <1>t, <2>1 DEF Registros
  <2> QED BY <1>b, <1>t, <2>2, <2>3 DEF Acotada
<1> QED BY <1>2, <1>3, <1>4, <1>5, <1>6, <1>7, <1>8 DEF Cambio

\* A message is kept only if there is room.
LEMMA RecibeAcotado ==
    ASSUME NEW c \in Conexiones, NEW m \in Mensajes, con[c] \in Registros, Acotada(con[c])
    PROVE  Acotada(Entregado(c, m))
<1> DEFINE v == con[c]
           n == Entregado(c, m)
           q == Append(v.cola, m)
<1>t. v \in Registros /\ Acotada(v) /\ CapBus \in Nat
  BY EventosAssumption
<1>1. CASE n = v
  BY <1>t, <1>1
<1>2. CASE Len(v.cola) < CapBus /\ n = [v EXCEPT !.cola = q]
  <2>1. Len(q) = Len(v.cola) + 1 /\ Len(v.cola) \in Nat
    BY <1>t, AppendProperties, LenProperties DEF Registros
  <2> HIDE DEF q
  <2>2. [v EXCEPT !.cola = q].cola = q /\ [v EXCEPT !.cola = q].eventos = v.eventos
        /\ [v EXCEPT !.cola = q].mano = v.mano
    BY <1>t DEF Registros
  <2> QED BY <1>t, <1>2, <2>1, <2>2 DEF Acotada
<1>3. CASE \E o, e : n = [v EXCEPT !.omitidos = o, !.excusa = e]
  <2>1. PICK o, e : n = [v EXCEPT !.omitidos = o, !.excusa = e]
    BY <1>3
  <2>2. n.cola = v.cola /\ n.eventos = v.eventos /\ n.mano = v.mano
    BY <1>t, <2>1 DEF Registros
  <2> QED BY <1>t, <2>2 DEF Acotada
<1> QED BY <1>1, <1>2, <1>3 DEF Entregado

\* The buffers stay within their capacities, whatever the step.
LEMMA AcotadasPaso ==
    ASSUME Tipos, ConexionesCoherentes, EnOrdenDeLlegada, Acotadas, Next
    PROVE  Acotadas'
<1>t. \A c \in Conexiones : con[c] \in Registros /\ Coherente(con[c]) /\ Acotada(con[c])
  BY DEF Tipos, ConexionesCoherentes, Acotadas
<1>1. ASSUME NEW c \in Conexiones, NEW n, Mueve(c, n) PROVE Acotadas'
  <2>1. Acotada(n)
    BY <1>t, <1>1, CambioAcotado DEF Mueve
  <2>2. con' = [con EXCEPT ![c] = n] /\ con \in [Conexiones -> Registros]
    BY <1>1 DEF Mueve, Tipos
  <2>3. \A d \in Conexiones : con'[d] = n \/ con'[d] = con[d]
    BY <2>2
  <2> QED BY <1>t, <2>1, <2>3 DEF Acotadas
<1>2. ASSUME NEW c \in Conexiones, NEW t \in Tickets, Presenta(c, t) PROVE Acotadas'
  <2>1. con' = [con EXCEPT ![c] = [@ EXCEPT !.fase = "verifica", !.tipo = ticket[t].tipo, !.s = ticket[t].s]]
        /\ con \in [Conexiones -> Registros]
    BY <1>2 DEF Presenta, Tipos
  <2>2. \A d \in Conexiones :
           con'[d].cola = con[d].cola /\ con'[d].eventos = con[d].eventos /\ con'[d].mano = con[d].mano
    BY <2>1 DEF Registros
  <2> QED BY <1>t, <2>2 DEF Acotadas, Acotada
<1>3. ASSUME NEW m \in Mensajes, Recibe(m) PROVE Acotadas'
  <2>1. \A c \in Conexiones : con'[c] = Entregado(c, m)
    BY <1>3 DEF Recibe
  <2> QED BY <1>t, <2>1, RecibeAcotado DEF Acotadas
<1>4. CASE PublicaEvento
  <2>1. Evento(publicados + 1) \in Mensajes
    BY <1>4, EventoTipo, EventosAssumption DEF PublicaEvento, Tipos
  <2> QED BY <1>3, <1>4, <2>1 DEF PublicaEvento
<1>5. ASSUME NEW m \in avisos, PublicaAviso(m) \/ PierdeAviso(m) PROVE Acotadas'
  <2>1. m \in Mensajes
    BY DEF Tipos
  <2>2. CASE PublicaAviso(m)
    BY <1>3, <2>1, <2>2 DEF PublicaAviso
  <2>3. CASE PierdeAviso(m)
    <3>1. \A c \in Conexiones :
             con'[c].cola = con[c].cola /\ con'[c].eventos = con[c].eventos /\ con'[c].mano = con[c].mano
      BY <2>1, <2>3, PierdenTodas
    <3> QED BY <1>t, <3>1 DEF Acotadas, Acotada
  <2> QED BY <1>5, <2>2, <2>3
<1>6. CASE CierraSesiones \/ MueveVales
  BY <1>t, <1>6 DEF CierraSesiones, MueveVales, Acotadas
<1> QED BY <1>1, <1>2, <1>4, <1>5, <1>6, PasoEntero

\* So do the counts of closings and of faults.
LEMMA ContadoresPaso ==
    ASSUME Contadores, Next
    PROVE  Contadores'
<1>b. MaxCierres \in Nat /\ MaxFallos \in Nat
  BY EventosAssumption
<1>1. ASSUME UNCHANGED cierres, fallos' = fallos \/ Falla PROVE Contadores'
  BY <1>b, <1>1 DEF Contadores, Falla
<1>2. ASSUME NEW c \in Conexiones, NEW t \in Tickets, Conectar(c, t) PROVE Contadores'
  BY <1>1, <1>2 DEF Conectar
<1>3. ASSUME NEW c \in Conexiones, PasoDe(c) PROVE Contadores'
  <2>1. CASE Abrir(c)
    BY <1>1, <2>1 DEF Abrir, VerificarConexion, Suscribir, VerificarWS, ReservarConexion, Vigilar, Upgrade, acceso
  <2>2. CASE Lector(c) \/ Cerrar(c) \/ ServirEvento(c) \/ RevisarAcceso(c) \/ ClienteCierra(c)
    BY <1>1, <2>2 DEF Lector, LeerBus, EntregarAlCanal, LeerAviso, Cerrar, ServirCierre, CierraPorApagado,
       ServirEvento, RevisarAcceso, ClienteCierra, acceso
  <2>3. CASE ErrorAlAbrir(c) \/ BusSeCierra(c) \/ PuedeVerFalla(c)
    BY <1>1, <2>3 DEF ErrorAlAbrir, BusSeCierra, PuedeVerFalla, acceso
  <2> QED BY <1>3, <2>1, <2>2, <2>3 DEF PasoDe
<1>4. ASSUME NEW ss, NEW ms, CerrarSesiones(ss, ms) PROVE Contadores'
  BY <1>b, <1>4 DEF CerrarSesiones, Contadores
<1>5. CASE \/ \E t \in Tickets : VenceTicket(t) \/ \E s \in Sesiones, tipo \in {"sse", "ws"} : EmitirTicket(t, s, tipo)
           \/ Publicar \/ Apagar \/ \E m \in avisos : PublicarAviso(m) \/ PublicarAvisoFalla(m)
  BY <1>1, <1>5 DEF VenceTicket, EmitirTicket, Publicar, Apagar, PublicarAviso, PublicarAvisoFalla
<1>6. CASE Suspender \/ QuitarPermiso
  BY <1>6 DEF Suspender, QuitarPermiso, Contadores
<1>7. CASE RevocarTodas \/ \E s \in Sesiones : Logout(s) \/ RevocarOtras(s)
  BY <1>4, <1>7 DEF RevocarTodas, Logout, RevocarOtras
<1> QED BY <1>2, <1>3, <1>5, <1>6, <1>7 DEF Next, PasoDe

\* Every variable stays in its range: the buffers of the bus and of a stream,
\* the places and the notices (eventos_service.go, metricas_vivo_service.go).
THEOREM TipoCorrecto == Spec => []TypeOK
<1> DEFINE Inv == IInv /\ Acotadas /\ Contadores
<1>1. Init => Inv
  <2> SUFFICES ASSUME Init PROVE Acotadas /\ Contadores
    BY IInvInicio
  <2>1. Acotadas
    BY SinNadaAcotada DEF Init, Acotadas
  <2>2. Contadores
    BY EventosAssumption DEF Init, Contadores
  <2> QED BY <2>1, <2>2
<1>2. Inv /\ [Next]_vars => Inv'
  <2>1. CASE Next
    BY <2>1, AcotadasPaso, ContadoresPaso, IInvPaso DEF IInv
  <2>2. CASE UNCHANGED vars
    BY <2>2, IInvPaso DEF vars, Acotadas, Contadores
  <2> QED BY <2>1, <2>2
<1>3. Inv => TypeOK
  <2> SUFFICES ASSUME Inv PROVE TypeOK
    OBVIOUS
  <2>1. \A c \in Conexiones :
         /\ con[c].fase \in Fases /\ con[c].tipo \in {"sse", "ws"}
         /\ ToSet(con[c].cola) \subseteq Mensajes
         /\ con[c].lector \in {"no", "lee", "entrega", "fin"}
    BY DEF IInv, Tipos, Registros, ToSet
  <2>2. conexiones \in 0..MaxWS
    <3>1. IsFiniteSet(ConLugar)
      BY EventosAssumption, FS_Subset DEF ConLugar
    <3> QED BY <3>1, FS_CardinalityType, EventosAssumption DEF IInv, CupoExacto
  <2>3. ticket \in [Tickets -> [est : {"libre", "vigente", "gastado"}, tipo : {"sse", "ws"}, s : Sesiones \cup {Todas}]]
    BY DEF IInv, Tipos, Vales
  <2> QED BY <2>1, <2>2, <2>3 DEF TypeOK, IInv, Tipos, Cuentas, Acotadas, Acotada, Contadores
<1> QED BY <1>1, <1>2, <1>3, PTL DEF Spec

\* Nothing is lost, repeated or put out of order between the bus and the client
\* of a stream, but what it has no right to and what a full buffer or a failed
\* query of its permission dropped (eventos_service.go:105-137, 171-202).
THEOREM StreamsSinHuecos == Spec => []EntregaSinHuecos
<1>1. IInv => EntregaSinHuecos
  <2> SUFFICES ASSUME IInv, NEW c \in Conexiones, SSE(c), Suscrita(c)
               PROVE  LET q == EnMano(c)
                          cola == con[c].cola
                      IN /\ \A i, j \in DOMAIN q : i < j => q[i] < q[j]
                         /\ \A i, j \in EnBus(c) : i < j => cola[i].id < cola[j].id
                         /\ \A i \in DOMAIN q, j \in EnBus(c) : q[i] < cola[j].id
                         /\ (con[c].desde + 1)..publicados
                              \subseteq ToSet(q) \cup {cola[j].id : j \in EnBus(c)} \cup con[c].omitidos \cup Vedados
    BY DEF EntregaSinHuecos
  <2>1. Fiel(EnMano(c), con[c].cola, con[c].omitidos \cup Vedados, con[c].desde, publicados)
    BY DEF IInv, StreamsFieles, FielCon, Mano, EnMano
  <2>2. DeBus(con[c].cola) = EnBus(c)
    BY DEF DeBus, EnBus
  <2> QED BY <2>1, <2>2 DEF Fiel, ToSet
<1> QED BY <1>1, Invariante, PTL

\* A connection whose session was closed has its notice on the way, or lost it,
\* or subscribed after it (eventos_service.go:81, metricas_vivo_service.go:53).
THEOREM CortesConCausa == Spec => []CorteConCausa
<1>1. IInv => CorteConCausa
  BY DEF IInv
<1> QED BY <1>1, Invariante, PTL

\* The counter of WebSockets is the number of those that hold a place, and it
\* never passes the limit (ws_metrics_handler.go:172-176).
THEOREM CuposExactos == Spec => []CupoExacto
<1>1. IInv => CupoExacto
  BY DEF IInv
<1> QED BY <1>1, Invariante, PTL
=============================================================================
