------------------------------ MODULE Eventos ------------------------------
(***************************************************************************)
(* The two real-time channels of one user: the event stream (SSE) and the  *)
(* live metrics (WebSocket), both opened with a ticket that is used once   *)
(* and both cut by notices that travel on the Redis channel                *)
(* centinela:events.                                                       *)
(*                                                                         *)
(* A connection is an HTTP handler plus the goroutine that reads its       *)
(* subscription (cola).  The goroutine of an SSE decides whether the user  *)
(* may see each event and hands it over through a bounded channel          *)
(* (eventos); that of a WebSocket only looks for a reason to cut.  Closing *)
(* a session and publishing its notice are two steps, and so are checking  *)
(* a session and subscribing.                                              *)
(*                                                                         *)
(* Bounds: Conexiones (connections ever opened), Tickets, Sesiones,        *)
(* MaxEventos (events published, of class ClaseDe: about an instance,      *)
(* about the host or directed to the user), MaxCierres (operations that    *)
(* close sessions), CapBus (100 messages in the code), CapCanal (16),      *)
(* MaxWS (10), MaxFallos (failed calls of Redis, PostgreSQL or Proxmox).   *)
(***************************************************************************)
EXTENDS Integers, Sequences, FiniteSets, SequencesExt

CONSTANTS Conexiones, Tickets, Sesiones, Todas, MaxEventos, ClaseDe, MaxCierres, CapBus, CapCanal,
          MaxWS, MaxFallos

ASSUME EventosAssumption ==
    /\ Todas \notin Sesiones
    /\ IsFiniteSet(Conexiones) /\ Conexiones = 1..Cardinality(Conexiones)
    /\ \A n \in 1..MaxEventos : ClaseDe[n] \in {"vm", "host", "dirigido"}
    /\ {MaxEventos, MaxCierres, CapBus, CapCanal, MaxWS} \subseteq Nat \ {0} /\ MaxFallos \in Nat

VARIABLES
    sesion,     \* which sessions are alive in PostgreSQL
    usuario,    \* activo, admin, permiso on the instance
    ticket,     \* ws_ticket:<id> and ws:ticket:<id>
    con,        \* the connections
    conexiones, \* the counter of open WebSockets of the user
    avisos,     \* notices of closed sessions not yet published
    publicados, \* events published so far
    cierres,    \* operations that closed sessions
    apagado,    \* the API is shutting down
    fallos      \* faults spent

vars == <<sesion, usuario, ticket, con, conexiones, avisos, publicados, cierres, apagado, fallos>>
acceso == <<sesion, usuario, ticket, avisos, publicados, cierres, apagado>>

Evento(id) == [t |-> "evento", id |-> id, clase |-> ClaseDe[id], s |-> Todas]
Mensajes == {Evento(id) : id \in 1..MaxEventos}
            \cup [t : {"logout"}, id : {0}, clase : {"vm"}, s : Sesiones]
            \cup [t : {"revocadas"}, id : {0}, clase : {"vm"}, s : Sesiones \cup {Todas}]
Aviso(t, s) == [t |-> t, id |-> 0, clase |-> "vm", s |-> s]

SinCon == [fase |-> "nada", tipo |-> "sse", s |-> Todas, cola |-> <<>>,
           lector |-> "no", mano |-> 0, eventos |-> <<>>, cierre |-> "",
           entregados |-> <<>>, omitidos |-> {}, desde |-> 0, excusa |-> FALSE]

Fases == {"nada", "verifica", "suscribe", "reserva", "instancia", "upgrade",
          "abierta", "fin"}

TypeOK ==
    /\ sesion \in [Sesiones -> BOOLEAN]
    /\ usuario \in [activo : BOOLEAN, admin : BOOLEAN, permiso : BOOLEAN]
    /\ ticket \in [Tickets -> [est : {"libre", "vigente", "gastado"},
                               tipo : {"sse", "ws"}, s : Sesiones \cup {Todas}]]
    /\ \A c \in Conexiones :
         /\ con[c].fase \in Fases /\ con[c].tipo \in {"sse", "ws"}
         /\ ToSet(con[c].cola) \subseteq Mensajes /\ Len(con[c].cola) <= CapBus
         /\ con[c].lector \in {"no", "lee", "entrega", "fin"}
         /\ ToSet(con[c].eventos) \subseteq 1..MaxEventos /\ Len(con[c].eventos) <= CapCanal
    /\ conexiones \in 0..MaxWS
    /\ avisos \subseteq Mensajes
    /\ publicados \in 0..MaxEventos /\ cierres \in 0..MaxCierres /\ fallos \in 0..MaxFallos

Init ==
    /\ sesion = [s \in Sesiones |-> TRUE]
    /\ \E a \in BOOLEAN : usuario = [activo |-> TRUE, admin |-> a, permiso |-> TRUE]
    /\ ticket = [t \in Tickets |-> [est |-> "libre", tipo |-> "sse", s |-> Todas]]
    /\ con = [c \in Conexiones |-> SinCon]
    /\ conexiones = 0 /\ avisos = {} /\ publicados = 0 /\ cierres = 0
    /\ apagado = FALSE /\ fallos = 0

-----------------------------------------------------------------------------
\* Vocabulary

En(c, f) == con[c].fase = f
SSE(c) == con[c].tipo = "sse"
Suscrita(c) == con[c].lector \in {"lee", "entrega"}
Falla == fallos < MaxFallos /\ fallos' = fallos + 1

\* The handler returns: the deferred calls cancel the subscription.
Terminada(c) == [SinCon EXCEPT !.fase = "fin", !.lector = "fin"]
Termina(c) == con' = [con EXCEPT ![c] = Terminada(c)]
Pasa(c, f) == con' = [con EXCEPT ![c].fase = f]

\* What a notice asks for: the cut of every connection of session s.
Pide(m, s) == m.s = s \/ (m.t = "revocadas" /\ m.s = Todas)

\* Mutant of both: a notice for every session of the user is not recognised.
MotivoSinMasivos(m, s) == m.t \in {"logout", "revocadas"} /\ m.s = s
\* What each goroutine takes for a reason to cut.
MotivoDeCierre(m, s) ==
    \/ m.t = "logout" /\ m.s = s
    \/ m.t = "revocadas" /\ m.s \in {s, Todas}
MotivoDeCorteWS(m, s) == m.t \in {"logout", "revocadas"} /\ m.s \in {s, Todas}

AvisoPendiente(c) ==
    \/ \E m \in avisos : Pide(m, con[c].s)
    \/ \E i \in DOMAIN con[c].cola : Pide(con[c].cola[i], con[c].s)

\* What the subscription starts with: nothing published before it arrives.
Suscripcion(c) ==
    [con[c] EXCEPT !.lector = "lee", !.desde = publicados,
                   !.excusa = ~sesion[con[c].s] /\ ~\E m \in avisos : Pide(m, con[c].s)]

\* Publish: every subscriber with room gets the message, the others lose it.
Entregado(c, m) ==
    IF ~Suscrita(c) THEN con[c]
    ELSE IF Len(con[c].cola) < CapBus THEN [con[c] EXCEPT !.cola = Append(@, m)]
    ELSE [con[c] EXCEPT !.omitidos = @ \cup {m.id}, !.excusa = @ \/ Pide(m, con[c].s)]
Publish(m) == con' = [c \in Conexiones |-> Entregado(c, m)]

-----------------------------------------------------------------------------
\* Tickets

EmitirTicket(t, s, tipo) ==
    /\ ticket[t].est = "libre"
    /\ sesion[s] /\ usuario.activo
    /\ ticket' = [ticket EXCEPT ![t] = [est |-> "vigente", tipo |-> tipo, s |-> s]]
    /\ UNCHANGED <<sesion, usuario, con, conexiones, avisos, publicados, cierres, apagado, fallos>>

VenceTicket(t) ==
    /\ ticket[t].est = "vigente"
    /\ ticket' = [ticket EXCEPT ![t] = [@ EXCEPT !.est = "gastado", !.tipo = "sse", !.s = Todas]]
    /\ UNCHANGED <<sesion, usuario, con, conexiones, avisos, publicados, cierres, apagado, fallos>>

\* Connections are numbered in the order in which they present a ticket.
Siguiente == Cardinality({c \in Conexiones : ~En(c, "nada")}) + 1

\* Conectar and ConsumirTicket: GETDEL, whatever happens afterwards.
Conectar(c, t) ==
    /\ c = Siguiente /\ ~apagado
    /\ ticket[t].est = "vigente"
    /\ ticket' = [ticket EXCEPT ![t] = [@ EXCEPT !.est = "gastado", !.tipo = "sse", !.s = Todas]]
    /\ con' = [con EXCEPT ![c].fase = "verifica", ![c].tipo = ticket[t].tipo,
                          ![c].s = ticket[t].s]
    /\ UNCHANGED <<sesion, usuario, conexiones, avisos, publicados, cierres, apagado, fallos>>

-----------------------------------------------------------------------------
\* The event stream

\* The session and the user as they are now; the subscription comes later.
\* An error of the database opens nothing.
VerificarConexion(c) ==
    /\ En(c, "verifica") /\ SSE(c)
    /\ \/ /\ UNCHANGED fallos
          /\ IF sesion[con[c].s] /\ usuario.activo THEN Pasa(c, "suscribe") ELSE Termina(c)
       \/ Falla /\ Termina(c)
    /\ UNCHANGED <<acceso, conexiones>>

Suscribir(c) ==
    /\ En(c, "suscribe")
    /\ \/ con' = [con EXCEPT ![c] = [Suscripcion(c) EXCEPT !.fase = "abierta"]]
          /\ UNCHANGED fallos
       \/ Falla /\ Termina(c)
    /\ UNCHANGED <<acceso, conexiones>>

\* puedeVer with the user and the permission of this very moment.
PuedeVer(m) ==
    \/ usuario.admin
    \/ m.clase = "dirigido"
    \/ m.clase = "vm" /\ usuario.permiso

\* The goroutine leaves a reason in cierre and cancels its subscription.
Cortada(c, motivo) == [con[c] EXCEPT !.cierre = motivo, !.lector = "fin",
                                     !.cola = <<>>, !.mano = 0]

LeerBus(c) ==
    /\ con[c].lector = "lee" /\ SSE(c)
    /\ con[c].cola # <<>>
    /\ LET m == Head(con[c].cola)
           r == [con[c] EXCEPT !.cola = Tail(@)]
       IN con' = [con EXCEPT ![c] =
            IF MotivoDeCierre(m, con[c].s) THEN Cortada(c, "sesion")
            ELSE IF m.t # "evento" THEN r
            ELSE IF ~usuario.activo THEN Cortada(c, "inactivo")
            ELSE IF PuedeVer(m) THEN [r EXCEPT !.lector = "entrega", !.mano = m.id]
            ELSE r]
    /\ UNCHANGED <<acceso, conexiones, fallos>>

\* puedeVer cannot read the user, and the stream ends as if it were inactive;
\* or it cannot read the permission of an operator, and the event is dropped.
PuedeVerFalla(c) ==
    /\ con[c].lector = "lee" /\ SSE(c)
    /\ con[c].cola # <<>> /\ Head(con[c].cola).t = "evento"
    /\ Falla
    /\ LET m == Head(con[c].cola)
       IN \/ con' = [con EXCEPT ![c] = Cortada(c, "inactivo")]
          \/ /\ usuario.activo /\ ~usuario.admin /\ m.clase = "vm"
             /\ con' = [con EXCEPT ![c].cola = Tail(@), ![c].omitidos = @ \cup {m.id}]
    /\ UNCHANGED <<acceso, conexiones>>

\* Mutant of EntregarAlCanal: a full channel drops the event instead of waiting.
EntregarSinEsperar(c) ==
    /\ con[c].lector = "entrega"
    /\ con' = [con EXCEPT ![c].lector = "lee", ![c].mano = 0,
               ![c].eventos = IF Len(@) < CapCanal THEN Append(@, con[c].mano) ELSE @]
    /\ UNCHANGED <<acceso, conexiones, fallos>>

\* The send on eventos, which waits while the channel is full.
EntregarAlCanal(c) ==
    /\ con[c].lector = "entrega"
    /\ Len(con[c].eventos) < CapCanal
    /\ con' = [con EXCEPT ![c].lector = "lee", ![c].mano = 0,
                          ![c].eventos = Append(@, con[c].mano)]
    /\ UNCHANGED <<acceso, conexiones, fallos>>

\* Stream: the select of the handler.
ServirEvento(c) ==
    /\ En(c, "abierta") /\ con[c].eventos # <<>>
    /\ con' = [con EXCEPT ![c].entregados = Append(@, Head(con[c].eventos)),
                          ![c].eventos = Tail(@)]
    /\ UNCHANGED <<acceso, conexiones, fallos>>

-----------------------------------------------------------------------------
\* The live metrics

\* verificar: the account and the permission, never the session.
PuedeSeguir == usuario.activo /\ (usuario.admin \/ usuario.permiso)

\* ConsumirTicket looks at the user and the permission, never at the session.
\* An error of the database opens nothing.
VerificarWS(c) ==
    /\ En(c, "verifica") /\ ~SSE(c)
    /\ \/ /\ UNCHANGED fallos
          /\ IF PuedeSeguir
             THEN Pasa(c, "reserva") ELSE Termina(c)
       \/ Falla /\ Termina(c)
    /\ UNCHANGED <<acceso, conexiones>>

ReservarConexion(c) ==
    /\ En(c, "reserva")
    /\ IF conexiones < MaxWS
       THEN conexiones' = conexiones + 1 /\ Pasa(c, "instancia")
       ELSE UNCHANGED conexiones /\ Termina(c)
    /\ UNCHANGED <<acceso, fallos>>

\* The deferred liberarConexion runs on every way out after the reservation.
LiberarConexion(c) == conexiones' = conexiones - 1 /\ Termina(c)

\* Mutant of ErrorAlAbrir: the error paths return before the deferred release.
ErrorSinLiberar(c) ==
    /\ con[c].fase \in {"instancia", "upgrade"}
    /\ Falla /\ Termina(c)
    /\ UNCHANGED <<acceso, conexiones>>

\* The instance is not found, the bus is not available or the handshake fails.
ErrorAlAbrir(c) ==
    /\ con[c].fase \in {"instancia", "upgrade"}
    /\ Falla /\ LiberarConexion(c)
    /\ UNCHANGED acceso

\* ObtenerInstancia has found the instance; Vigilar subscribes.
Vigilar(c) ==
    /\ En(c, "instancia")
    /\ con' = [con EXCEPT ![c] = [Suscripcion(c) EXCEPT !.fase = "upgrade"]]
    /\ UNCHANGED <<acceso, conexiones, fallos>>

Upgrade(c) ==
    /\ En(c, "upgrade") /\ Pasa(c, "abierta")
    /\ UNCHANGED <<acceso, conexiones, fallos>>

LeerAviso(c) ==
    /\ con[c].lector = "lee" /\ ~SSE(c)
    /\ con[c].cola # <<>>
    /\ con' = [con EXCEPT ![c] =
         IF MotivoDeCorteWS(Head(con[c].cola), con[c].s) THEN Cortada(c, "sesion")
         ELSE [con[c] EXCEPT !.cola = Tail(@)]]
    /\ UNCHANGED <<acceso, conexiones, fallos>>

\* Mutant of RevisarAcceso: the ticker looks at the account only.
RevisarCuenta(c) ==
    /\ con[c].lector = "lee" /\ ~SSE(c)
    /\ ~usuario.activo
    /\ con' = [con EXCEPT ![c] = Cortada(c, "inactivo")]
    /\ UNCHANGED <<acceso, conexiones, fallos>>

\* The ticker of Vigilar; a failed query changes nothing and is tried again.
RevisarAcceso(c) ==
    /\ con[c].lector = "lee" /\ ~SSE(c)
    /\ ~PuedeSeguir
    /\ con' = [con EXCEPT ![c] =
                 Cortada(c, IF usuario.activo THEN "denegado" ELSE "inactivo")]
    /\ UNCHANGED <<acceso, conexiones, fallos>>

-----------------------------------------------------------------------------
\* How a connection ends.  A WebSocket gives its place back.

Salir(c) == IF SSE(c) THEN Termina(c) /\ UNCHANGED conexiones ELSE LiberarConexion(c)

\* The reason in cierre wins the select even with events left in the channel;
\* a closed channel without a reason (the bus is gone) ends the stream too.
ServirCierre(c) ==
    /\ En(c, "abierta")
    /\ \/ con[c].cierre # ""
       \/ con[c].lector = "fin" /\ con[c].eventos = <<>>
    /\ Salir(c)
    /\ UNCHANGED <<acceso, fallos>>

\* The subscription closes under its reader: a WebSocket is cut with
\* EVENTS_UNAVAILABLE, an SSE just ends.
BusSeCierra(c) ==
    /\ con[c].lector = "lee" /\ con[c].cola = <<>>
    /\ Falla
    /\ con' = [con EXCEPT ![c] = Cortada(c, IF SSE(c) THEN "" ELSE "sin_canal")]
    /\ UNCHANGED <<acceso, conexiones>>

\* The client goes away, or the write of the handler fails, or the instance
\* of a WebSocket no longer exists (enviarMetrica).
ClienteCierra(c) ==
    /\ En(c, "abierta")
    /\ Salir(c)
    /\ UNCHANGED <<acceso, fallos>>

\* Mutant of CierraPorApagado: the WebSocket handler does not look at apagado.
CierraSoloSSE(c) ==
    /\ En(c, "abierta") /\ apagado /\ SSE(c)
    /\ Salir(c)
    /\ UNCHANGED <<acceso, fallos>>

CierraPorApagado(c) ==
    /\ En(c, "abierta") /\ apagado
    /\ Salir(c)
    /\ UNCHANGED <<acceso, fallos>>

-----------------------------------------------------------------------------
\* The rest of the system

Publicar ==
    /\ publicados < MaxEventos
    /\ publicados' = publicados + 1
    /\ Publish(Evento(publicados + 1))
    /\ UNCHANGED <<sesion, usuario, ticket, conexiones, avisos, cierres, apagado, fallos>>

\* CerrarSesion, revocarSesionesDeUsuario, revocarOtrasSesionesDeUsuario: the
\* rows are closed first, the notices are published afterwards.
CerrarSesiones(ss, ms) ==
    /\ \E s \in ss : sesion[s]
    /\ cierres < MaxCierres /\ cierres' = cierres + 1
    /\ sesion' = [s \in Sesiones |-> sesion[s] /\ s \notin ss]
    /\ avisos' = avisos \cup ms
    /\ UNCHANGED <<usuario, ticket, con, conexiones, publicados, apagado, fallos>>

Logout(s) == CerrarSesiones({s}, {Aviso("logout", s)})
RevocarTodas == CerrarSesiones(Sesiones, {Aviso("revocadas", Todas)})
RevocarOtras(s) ==
    /\ sesion[s]
    /\ LET otras == {x \in Sesiones \ {s} : sesion[x]}
       IN CerrarSesiones(otras, {Aviso("revocadas", x) : x \in otras})

PublicarAviso(m) ==
    /\ m \in avisos
    /\ avisos' = avisos \ {m}
    /\ Publish(m)
    /\ UNCHANGED <<sesion, usuario, ticket, conexiones, publicados, cierres, apagado, fallos>>

\* The PUBLISH fails: logged, the session is closed all the same.
PublicarAvisoFalla(m) ==
    /\ m \in avisos /\ Falla
    /\ avisos' = avisos \ {m}
    /\ con' = [c \in Conexiones |-> [con[c] EXCEPT !.excusa = @ \/ (Suscrita(c) /\ Pide(m, con[c].s))]]
    /\ UNCHANGED <<sesion, usuario, ticket, conexiones, publicados, cierres, apagado>>

Suspender ==
    /\ usuario.activo
    /\ usuario' = [usuario EXCEPT !.activo = FALSE]
    /\ UNCHANGED <<sesion, ticket, con, conexiones, avisos, publicados, cierres, apagado, fallos>>

QuitarPermiso ==
    /\ usuario.permiso
    /\ usuario' = [usuario EXCEPT !.permiso = FALSE]
    /\ UNCHANGED <<sesion, ticket, con, conexiones, avisos, publicados, cierres, apagado, fallos>>

Apagar ==
    /\ ~apagado /\ apagado' = TRUE
    /\ UNCHANGED <<sesion, usuario, ticket, con, conexiones, avisos, publicados, cierres, fallos>>

-----------------------------------------------------------------------------
Abrir(c) ==
    \/ VerificarConexion(c) \/ Suscribir(c) \/ VerificarWS(c) \/ ReservarConexion(c)
    \/ Vigilar(c) \/ Upgrade(c)
Lector(c) == LeerBus(c) \/ EntregarAlCanal(c) \/ LeerAviso(c)
Cerrar(c) == ServirCierre(c) \/ CierraPorApagado(c)

Next ==
    \/ \E c \in Conexiones :
         \/ \E t \in Tickets : Conectar(c, t)
         \/ Abrir(c) \/ Lector(c) \/ Cerrar(c) \/ ServirEvento(c)
         \/ ErrorAlAbrir(c) \/ RevisarAcceso(c) \/ BusSeCierra(c) \/ ClienteCierra(c)
         \/ PuedeVerFalla(c)
    \/ \E t \in Tickets :
         \/ VenceTicket(t)
         \/ \E s \in Sesiones, tipo \in {"sse", "ws"} : EmitirTicket(t, s, tipo)
    \/ Publicar
    \/ \E s \in Sesiones : Logout(s) \/ RevocarOtras(s)
    \/ RevocarTodas
    \/ \E m \in avisos : PublicarAviso(m) \/ PublicarAvisoFalla(m)
    \/ Suspender \/ QuitarPermiso \/ Apagar

\* The goroutines of a connection are scheduled and its client reads or goes.
Fairness == \A c \in Conexiones :
    /\ WF_vars(Abrir(c)) /\ WF_vars(Lector(c)) /\ WF_vars(Cerrar(c))
    /\ WF_vars(ServirEvento(c)) /\ WF_vars(RevisarAcceso(c))

Spec == Init /\ [][Next]_vars /\ Fairness

-----------------------------------------------------------------------------
\* Properties

\* The client of a stream receives, in order and once, every event published
\* since it subscribed, but for those it has no right to (Vedados) and those lost
\* to a fault: a full buffer of the bus, or a query of the permission that failed
\* (omitidos).  Nothing is lost between the goroutine and the handler, and no
\* event directed to the user or seen by an administrator needs a query
\* (eventos_service.go:105-137, 171-202).
Vedados == {i \in 1..MaxEventos :
    /\ ~usuario.admin
    /\ ClaseDe[i] = "host" \/ (ClaseDe[i] = "vm" /\ ~usuario.permiso)}
EnMano(c) == con[c].entregados \o con[c].eventos \o (IF con[c].mano = 0 THEN <<>> ELSE <<con[c].mano>>)
EnBus(c) == {i \in DOMAIN con[c].cola : con[c].cola[i].t = "evento"}
EntregaSinHuecos ==
    \A c \in Conexiones : SSE(c) /\ Suscrita(c) =>
        LET q == EnMano(c)
            cola == con[c].cola
        IN /\ \A i, j \in DOMAIN q : i < j => q[i] < q[j]
           /\ \A i, j \in EnBus(c) : i < j => cola[i].id < cola[j].id
           /\ \A i \in DOMAIN q, j \in EnBus(c) : q[i] < cola[j].id
           /\ (con[c].desde + 1)..publicados
                 \subseteq ToSet(q) \cup {cola[j].id : j \in EnBus(c)} \cup con[c].omitidos \cup Vedados

\* A connection whose session is closed is about to be cut: its notice is on its
\* way, or it was lost, or it went out before the connection subscribed
\* (eventos_service.go:81, metricas_vivo_service.go:53).
CorteConCausa ==
    \A c \in Conexiones : Suscrita(c) /\ ~sesion[con[c].s] => AvisoPendiente(c) \/ con[c].excusa

\* The counter of WebSockets is the number of handlers that hold a place and
\* never passes the limit, whatever way each handler ends
\* (ws_metrics_handler.go:172-176).
ConLugar == {c \in Conexiones : ~SSE(c) /\ con[c].fase \in {"instancia", "upgrade", "abierta"}}
CupoExacto == conexiones = Cardinality(ConLugar) /\ conexiones <= MaxWS

\* A notice that reached an open connection ends it (eventos_service.go:130).
AvisoCorta ==
    \A c \in Conexiones : (En(c, "abierta") /\ \E i \in DOMAIN con[c].cola : Pide(con[c].cola[i], con[c].s))
        ~> ~En(c, "abierta")

\* A WebSocket does not outlive the permission or the account for ever, even if
\* no notice arrives (metricas_vivo_service.go:110-122).
SinAccesoSeCorta ==
    \A c \in Conexiones : (En(c, "abierta") /\ ~SSE(c)
                     /\ ~PuedeSeguir)
        ~> En(c, "fin")

\* An orderly shutdown leaves no connection open (events_handler.go:152).
ApagadoCierra == apagado ~> \A c \in Conexiones : ~En(c, "abierta")
=============================================================================
