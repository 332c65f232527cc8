----------------------------- MODULE LimiteTasa -----------------------------
(***************************************************************************)
(* The limits of the public routes (middleware/ratelimit) and the pre-2FA  *)
(* session they protect: sliding windows in the key-value store, one       *)
(* entry per request, reserved before the handler runs and given back when *)
(* its answer does not count.  Requests overlap, and every call to the     *)
(* store may fail.                                                         *)
(*                                                                         *)
(* A window is a set of entries [m, t]: the request and when it came.  The *)
(* store drops an entry in the instant it leaves the window (AlmacenClaves *)
(* is the store).  Time is counted in units of the shortest window.        *)
(* Routes share no key, so all the requests of a behaviour go to one route *)
(* (ruta).                                                                 *)
(*                                                                         *)
(* Bounds: MaxPeticiones requests, MaxTiempo, MaxFallos failed calls.      *)
(***************************************************************************)
EXTENDS Integers, FiniteSets

CONSTANTS
    IPs, Correos, Sesiones,      \* Sesiones: the jti of the temporary tokens
    VentanaMinuto, VentanaLogin, VentanaForgot, Ventana2FA, TTLPre2FA,
    LimiteMinuto, LimiteLogin, LimiteForgot, Limite2FA,
    MaxPeticiones, MaxTiempo, MaxFallos

Peticiones == 1..MaxPeticiones

ASSUME LimiteAssumption ==
    /\ {VentanaMinuto, VentanaLogin, VentanaForgot, Ventana2FA, TTLPre2FA} \subseteq Nat \ {0}
    /\ {LimiteMinuto, LimiteLogin, LimiteForgot, Limite2FA} \subseteq Nat \ {0}
    /\ TTLPre2FA <= Ventana2FA      \* both are five minutes
    /\ {MaxPeticiones, MaxTiempo, MaxFallos} \subseteq Nat

VARIABLES
    ahora,
    ruta,
    distribuido,  \* the store is Redis and not the memory of the process
    ventana,      \* window of each key
    pre2fa,       \* auth:pre2fa:<jti>: when it ends, 0 when there is none
    peticion,
    intentos,     \* ghost: codes that were compared, by session
    fallos

vars == <<ahora, ruta, distribuido, ventana, pre2fa, peticion, intentos, fallos>>

Minuto(r, ip) == <<"minuto", r, ip>>
Claves ==
    {Minuto(r, i) : r \in {"login", "forgot", "reset"}, i \in IPs}
    \cup {<<"login", i, c>> : i \in IPs, c \in Correos}
    \cup {<<"2fa", s>> : s \in Sesiones}
    \cup {<<"forgotIP", i>> : i \in IPs} \cup {<<"forgotEmail", c>> : c \in Correos}

Largo(k) == CASE k[1] = "minuto" -> VentanaMinuto [] k[1] = "login" -> VentanaLogin
              [] k[1] = "2fa" -> Ventana2FA [] OTHER -> VentanaForgot
Limite(k) == CASE k[1] = "minuto" -> LimiteMinuto [] k[1] = "login" -> LimiteLogin
               [] k[1] = "2fa" -> Limite2FA [] OTHER -> LimiteForgot

Libre == [fase |-> "nada", ip |-> "-", correo |-> "-", jti |-> "-",
          t |-> 0, cantidad |-> 0, estado |-> 0]

Init ==
    /\ ahora = 1 /\ distribuido \in BOOLEAN
    /\ ruta \in {"login", "forgot", "reset", "verify"}
    /\ ventana = [k \in Claves |-> {}]
    /\ pre2fa = [s \in Sesiones |-> ahora + TTLPre2FA]
    /\ peticion = [p \in Peticiones |-> Libre]
    /\ intentos = [s \in Sesiones |-> 0] /\ fallos = 0

-----------------------------------------------------------------------------
En(p, r, fase) == ruta = r /\ peticion[p].fase = fase
Pasa(p, fase) == peticion' = [peticion EXCEPT ![p].fase = fase]
Responde(p, estado, fase) == peticion' = [peticion EXCEPT ![p].estado = estado, ![p].fase = fase]
Rechaza(p, estado) == Responde(p, estado, "fin")
Nueva(p) == peticion[p].fase = "nada" /\ \A q \in 1..p - 1 : peticion[q].fase # "nada"
Falla == fallos < MaxFallos /\ fallos' = fallos + 1

\* The key under which a request is limited by its failures.
Clave(p) ==
    LET r == peticion[p] IN
    CASE ruta = "login" -> <<"login", r.ip, r.correo>>
      [] ruta = "verify" -> <<"2fa", r.jti>>
      [] OTHER -> <<"forgotIP", r.ip>>

Cabe(k) == Cardinality(ventana[k]) < Limite(k)
Agrega(k, p) == ventana' = [ventana EXCEPT ![k] = @ \cup {[m |-> p, t |-> ahora]}]
Saca(k, p) == [ventana EXCEPT ![k] = {e \in @ : e.m # p}]

\* RegistrarEnVentana: refuses without adding anything, adds, or fails.
Registra(k, p) == Cabe(k) /\ Agrega(k, p) /\ UNCHANGED fallos
NoCabe(k) == ~Cabe(k) /\ UNCHANGED <<ventana, fallos>>
NoResponde == Falla /\ UNCHANGED ventana

\* EliminarDeVentana, whose error nobody looks at.
Devuelve(k, p) ==
    \/ ventana' = Saca(k, p) /\ UNCHANGED fallos
    \/ NoResponde

-----------------------------------------------------------------------------
\* Every window slides, and pre-2FA sessions end.
Tic ==
    /\ ahora < MaxTiempo /\ ahora' = ahora + 1
    /\ ventana' = [k \in Claves |-> {e \in ventana[k] : e.t > ahora' - Largo(k)}]
    /\ pre2fa' = [s \in Sesiones |-> IF pre2fa[s] <= ahora' THEN 0 ELSE pre2fa[s]]
    /\ UNCHANGED <<ruta, distribuido, peticion, intentos, fallos>>

\* A request to a public route, or to /2fa/verify with a session that is alive.
Llega(p, ip, correo) ==
    /\ ruta # "verify" /\ Nueva(p)
    /\ peticion' = [peticion EXCEPT ![p] = [Libre EXCEPT !.ip = ip, !.correo = correo, !.fase = "rafaga"]]
    /\ UNCHANGED <<ahora, ruta, distribuido, ventana, pre2fa, intentos, fallos>>

LlegaCodigo(p, s) ==
    /\ ruta = "verify" /\ Nueva(p)
    /\ \/ /\ pre2fa[s] # 0 /\ UNCHANGED fallos
          /\ peticion' = [peticion EXCEPT ![p] = [Libre EXCEPT !.jti = s, !.fase = "limite"]]
       \/ /\ (pre2fa[s] = 0 /\ UNCHANGED fallos) \/ Falla
          /\ peticion' = [peticion EXCEPT ![p] = [Libre EXCEPT !.jti = s, !.fase = "fin", !.estado = 401]]
    /\ UNCHANGED <<ahora, ruta, distribuido, ventana, pre2fa, intentos>>

\* LimitarRafagas: also without Redis.  Nothing gives this entry back.
LimitarRafagas(p) ==
    LET k == Minuto(ruta, peticion[p].ip) IN
    /\ peticion[p].fase = "rafaga"
    /\ \/ Registra(k, p) /\ Pasa(p, IF ruta = "reset" THEN "handler" ELSE "limite")
       \/ NoCabe(k) /\ Rechaza(p, 429)
       \/ NoResponde /\ Rechaza(p, 503)
    /\ UNCHANGED <<ahora, ruta, distribuido, pre2fa, intentos>>

SinRedis(p) ==
    /\ peticion[p].fase = "limite" /\ ~distribuido
    /\ Rechaza(p, 503)
    /\ UNCHANGED <<ahora, ruta, distribuido, ventana, pre2fa, intentos, fallos>>

\* A body without an e-mail goes on to the handler, which answers 400.
SinCorreo(p) ==
    /\ ruta \in {"login", "forgot"} /\ peticion[p].fase = "limite" /\ distribuido
    /\ Rechaza(p, 400)
    /\ UNCHANGED <<ahora, ruta, distribuido, ventana, pre2fa, intentos, fallos>>

LimitarLogin(p) ==
    /\ En(p, "login", "limite") /\ distribuido
    /\ \/ /\ Registra(Clave(p), p)
          /\ peticion' = [peticion EXCEPT ![p].t = ahora, ![p].fase = "handler"]
       \/ NoCabe(Clave(p)) /\ Rechaza(p, 429)
       \/ NoResponde /\ Rechaza(p, 503)
    /\ UNCHANGED <<ahora, ruta, distribuido, pre2fa, intentos>>

\* Only the failed logins stay in the window.
Login(p) ==
    /\ En(p, "login", "handler")
    /\ \E estado \in {200, 401, 403} : Responde(p, estado, "cierre")
    /\ UNCHANGED <<ahora, ruta, distribuido, ventana, pre2fa, intentos, fallos>>

\* Mutant: the places of the failures are the ones given back.
CerrarLoginAlReves(p) ==
    /\ En(p, "login", "cierre") /\ Pasa(p, "fin")
    /\ IF peticion[p].estado # 401 THEN UNCHANGED <<ventana, fallos>> ELSE Devuelve(Clave(p), p)
    /\ UNCHANGED <<ahora, ruta, distribuido, pre2fa, intentos>>

CerrarLogin(p) ==
    /\ En(p, "login", "cierre") /\ Pasa(p, "fin")
    /\ IF peticion[p].estado = 401 THEN UNCHANGED <<ventana, fallos>> ELSE Devuelve(Clave(p), p)
    /\ UNCHANGED <<ahora, ruta, distribuido, pre2fa, intentos>>

\* LimitarSolicitudRecuperacion: a place by IP, then one by address.
LimitarPorIP(p) ==
    /\ En(p, "forgot", "limite") /\ distribuido
    /\ \/ Registra(Clave(p), p) /\ Pasa(p, "porCorreo")
       \/ NoCabe(Clave(p)) /\ Rechaza(p, 429)
       \/ NoResponde /\ Rechaza(p, 503)
    /\ UNCHANGED <<ahora, ruta, distribuido, pre2fa, intentos>>

\* Mutant: the place by IP is given back only when the store fails.
LimitarPorCorreoSinRevertir(p) ==
    LET k == <<"forgotEmail", peticion[p].correo>> IN
    /\ En(p, "forgot", "porCorreo")
    /\ \/ Registra(k, p) /\ Pasa(p, "handler")
       \/ NoCabe(k) /\ Rechaza(p, 429)
       \/ NoResponde /\ Responde(p, 503, "revierte")
    /\ UNCHANGED <<ahora, ruta, distribuido, pre2fa, intentos>>

LimitarPorCorreo(p) ==
    LET k == <<"forgotEmail", peticion[p].correo>> IN
    /\ En(p, "forgot", "porCorreo")
    /\ \/ Registra(k, p) /\ Pasa(p, "handler")
       \/ NoCabe(k) /\ Responde(p, 429, "revierte")
       \/ NoResponde /\ Responde(p, 503, "revierte")
    /\ UNCHANGED <<ahora, ruta, distribuido, pre2fa, intentos>>

\* The answer goes out after the place by IP was given back.
Revertir(p) ==
    /\ En(p, "forgot", "revierte") /\ Pasa(p, "fin")
    /\ Devuelve(Clave(p), p)
    /\ UNCHANGED <<ahora, ruta, distribuido, pre2fa, intentos>>

\* The handler keeps both places whatever it answers: 400 to an address that is
\* not one, 500 to a database that does not answer.
Recuperar(p) ==
    /\ ruta \in {"forgot", "reset"} /\ peticion[p].fase = "handler"
    /\ \E estado \in {200, 400, 500} : Rechaza(p, estado)
    /\ UNCHANGED <<ahora, ruta, distribuido, ventana, pre2fa, intentos, fallos>>

-----------------------------------------------------------------------------
\* Mutant: the third failure removes the window and leaves the session.
RevocaSoloVentana(p) ==
    \/ ventana' = [ventana EXCEPT ![Clave(p)] = {}] /\ UNCHANGED <<fallos, pre2fa>>
    \/ NoResponde /\ UNCHANGED pre2fa

\* DEL auth:pre2fa:<jti> and the window in one call; its error is ignored.
Revoca(p) ==
    \/ /\ pre2fa' = [pre2fa EXCEPT ![peticion[p].jti] = 0]
       /\ ventana' = [ventana EXCEPT ![Clave(p)] = {}]
       /\ UNCHANGED fallos
    \/ NoResponde /\ UNCHANGED pre2fa

LimitarVerificacion2FA(p) ==
    /\ En(p, "verify", "limite") /\ distribuido
    /\ \/ /\ Cabe(Clave(p)) /\ Agrega(Clave(p), p)
          /\ peticion' = [peticion EXCEPT ![p].fase = "handler",
                                          ![p].cantidad = Cardinality(ventana[Clave(p)]) + 1]
          /\ UNCHANGED <<fallos, pre2fa>>
       \/ ~Cabe(Clave(p)) /\ Revoca(p) /\ Rechaza(p, 401)
       \/ NoResponde /\ Rechaza(p, 503) /\ UNCHANGED pre2fa
    /\ UNCHANGED <<ahora, ruta, distribuido, intentos>>

\* What the handler answers to an error: the last try hides every other answer.
EstadoDeError(p, estado) == IF peticion[p].cantidad >= Limite2FA THEN 401 ELSE estado

\* VerificarTotp, up to the account: a body that is not six digits, a session
\* that is not there any more (or a store that does not answer), an account
\* that is suspended.
LeerPre2FA(p) ==
    /\ En(p, "verify", "handler")
    /\ \/ Responde(p, 400, "cierre") /\ UNCHANGED fallos
       \/ pre2fa[peticion[p].jti] = 0 /\ Responde(p, EstadoDeError(p, 401), "cierre") /\ UNCHANGED fallos
       \/ pre2fa[peticion[p].jti] # 0 /\ Responde(p, EstadoDeError(p, 403), "cierre") /\ UNCHANGED fallos
       \/ pre2fa[peticion[p].jti] # 0 /\ Pasa(p, "comparar") /\ UNCHANGED fallos
       \/ Falla /\ Responde(p, EstadoDeError(p, 401), "cierre")
    /\ UNCHANGED <<ahora, ruta, distribuido, ventana, pre2fa, intentos>>

\* The code is compared: wrong (or used before), or right and the session is
\* consumed with GETDEL, which only one request can do.  A database that does
\* not answer fails the request before or after the session is consumed.
CompararCodigo(p) ==
    LET s == peticion[p].jti IN
    /\ En(p, "verify", "comparar")
    /\ intentos' = [intentos EXCEPT ![s] = @ + 1]
    /\ \/ Responde(p, 401, "cierre") /\ UNCHANGED <<pre2fa, fallos>>
       \/ /\ Responde(p, IF pre2fa[s] = 0 THEN EstadoDeError(p, 401) ELSE 200, "cierre")
          /\ pre2fa' = [pre2fa EXCEPT ![s] = 0] /\ UNCHANGED fallos
       \/ /\ Falla /\ Responde(p, EstadoDeError(p, 401), "cierre")
          /\ pre2fa' \in {pre2fa, [pre2fa EXCEPT ![s] = 0]}
    /\ UNCHANGED <<ahora, ruta, distribuido, ventana>>

\* What the middleware does with the answer of the handler.
CerrarVerificacion(p) ==
    /\ En(p, "verify", "cierre") /\ Pasa(p, "fin")
    /\ CASE peticion[p].estado = 401 /\ peticion[p].cantidad >= Limite2FA -> Revoca(p)
         [] peticion[p].estado = 401 /\ peticion[p].cantidad < Limite2FA ->
                UNCHANGED <<ventana, pre2fa, fallos>>
         [] peticion[p].estado = 200 ->
                /\ \/ ventana' = [ventana EXCEPT ![Clave(p)] = {}] /\ UNCHANGED fallos
                   \/ NoResponde
                /\ UNCHANGED pre2fa
         [] OTHER -> Devuelve(Clave(p), p) /\ UNCHANGED pre2fa
    /\ UNCHANGED <<ahora, ruta, distribuido, intentos>>

Next ==
    \/ Tic
    \/ \E p \in Peticiones :
         \/ \E ip \in IPs, c \in Correos : Llega(p, ip, c)
         \/ \E s \in Sesiones : LlegaCodigo(p, s)
         \/ LimitarRafagas(p) \/ SinRedis(p) \/ SinCorreo(p)
         \/ LimitarLogin(p) \/ Login(p) \/ CerrarLogin(p)
         \/ LimitarPorIP(p) \/ LimitarPorCorreo(p) \/ Revertir(p) \/ Recuperar(p)
         \/ LimitarVerificacion2FA(p) \/ LeerPre2FA(p) \/ CompararCodigo(p) \/ CerrarVerificacion(p)

Spec == Init /\ [][Next]_vars

-----------------------------------------------------------------------------
(* Properties *)

\* However many requests overlap, refused ones included, and whatever the
\* store fails to do, a temporary token sees its code compared at most
\* limite2FA times in its life: the third wrong answer removes the session and
\* the window in one call, and the requests that were on their way then find a
\* new window and no session.
ComparacionesPorToken == \A s \in Sesiones : intentos[s] <= Limite2FA

\* Of the logins of one address from one IP, those that failed or are being
\* tried and came within the window are never more than the limit: the place
\* is taken before the password is compared, and kept by the failures alone.
FallidosAcotados ==
    ruta = "login" => \A i \in IPs, c \in Correos :
        Cardinality({p \in Peticiones :
            /\ Clave(p) = <<"login", i, c>> /\ peticion[p].t > ahora - VentanaLogin /\ peticion[p].t > 0
            /\ peticion[p].fase = "handler" \/ peticion[p].estado = 401}) <= LimiteLogin

\* A recovery request that the limit by address turned away does not use up the
\* quota of its IP: a place by IP belongs to a request that reached the handler or is
\* on its way, unless the store failed to give it back.
CupoConCausa ==
    fallos = 0 => \A i \in IPs : \A e \in ventana[<<"forgotIP", i>>] :
        peticion[e.m].fase = "fin" => peticion[e.m].estado \in {200, 400, 500}
=============================================================================
