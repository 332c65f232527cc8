------------------------------ MODULE Sesiones ------------------------------
(***************************************************************************)
(* The sessions of one account: login with two factors, refresh, the check *)
(* of every request, logout, the three revocations and the purge.          *)
(*                                                                         *)
(* PostgreSQL (fila, cuenta) is the source of truth; Redis keeps a copy of *)
(* each live session (copia) that decides a request without reading the    *)
(* database, and the temporary tokens of the second factor (pre2fa).  No   *)
(* transaction covers both stores, and every operation is a Go handler     *)
(* that may be overtaken between two of its calls: each call that another  *)
(* handler can observe is an action of its own, and proc is what the       *)
(* handler carries from one call to the next.                              *)
(*                                                                         *)
(* Accounts share no row and no key, so one account is enough.  Bounds:    *)
(* Sesiones (rows the account may ever have), Procs (handlers in flight),  *)
(* Tokens (logins), MaxJti (access tokens of one session), MaxFallos       *)
(* (failed Redis calls plus restarts).  The secret of the second factor    *)
(* and its replay window belong to module Cuenta.                          *)
(***************************************************************************)
EXTENDS Integers, FiniteSets

CONSTANTS Sesiones, Procs, Tokens, Nadie, MaxJti, MaxFallos

ASSUME SesionesAssumption ==
    /\ IsFiniteSet(Sesiones)
    /\ MaxJti \in Nat \ {0} /\ MaxFallos \in Nat
    /\ Nadie \notin Tokens

VARIABLES
    cuenta,     \* the row of usuarios: activo, eliminado
    bajaEnCurso,\* the rows the open transaction of EliminarLogicamente holds
    fila,       \* sesiones_activas: state, hash of the last access, expiry
    copia,      \* auth:session:<id>: the access it accepts, 0 when absent
    pre2fa,     \* auth:pre2fa:<jti>: the temporary tokens alive
    cookie,     \* sessions whose refresh token the browser still holds
    proc,       \* the handlers in flight
    fallos,     \* faults spent
    usados,     \* the temporary tokens that opened a session
    causa       \* history: sessions whose copy has a cause to outlive them

vars == <<cuenta, bajaEnCurso, fila, copia, pre2fa, cookie, proc,
          fallos, usados, causa>>

Pasos == {"reposo", "consume", "crea", "replica", "consulta",
          "rota", "borra", "desactiva", "baja", "confirma"}

Reposo == [paso |-> "reposo", ids |-> {}, jti |-> 0, tok |-> Nadie,
           tras |-> "reposo"]

TypeOK ==
    /\ cuenta \in [activo : BOOLEAN, eliminado : BOOLEAN]
    /\ bajaEnCurso \in SUBSET Sesiones
    /\ fila \in [Sesiones -> [est : {"libre", "viva", "cerrada", "purgada"},
                              jti : 0..MaxJti, vencida : BOOLEAN]]
    /\ copia \in [Sesiones -> 0..MaxJti]
    /\ pre2fa \in SUBSET Tokens
    /\ cookie \in SUBSET Sesiones
    /\ proc \in [Procs -> [paso : Pasos, ids : SUBSET Sesiones, jti : 0..MaxJti,
                           tok : Tokens \cup {Nadie},
                           tras : {"reposo", "desactiva"}]]
    /\ fallos \in 0..MaxFallos
    /\ usados \subseteq Tokens
    /\ causa \subseteq Sesiones

Init ==
    /\ cuenta = [activo |-> TRUE, eliminado |-> FALSE]
    /\ bajaEnCurso = {}
    /\ fila = [s \in Sesiones |-> [est |-> "libre", jti |-> 0, vencida |-> FALSE]]
    /\ copia = [s \in Sesiones |-> 0]
    /\ pre2fa = {} /\ cookie = {}
    /\ proc = [p \in Procs |-> Reposo]
    /\ fallos = 0
    /\ usados = {}
    /\ causa = {}

-----------------------------------------------------------------------------
\* Vocabulary

Vigente(s) == fila[s].est = "viva" /\ ~fila[s].vencida
Existe(s) == fila[s].est \in {"viva", "cerrada"}
CuentaHabilitada == cuenta.activo /\ ~cuenta.eliminado
Sigue(p, r) == proc' = [proc EXCEPT ![p] = r]
Termina(p) == Sigue(p, Reposo)
EnReposo(p) == proc[p].paso = "reposo"
En(p, paso) == proc[p].paso = paso
BorradoPendiente(s) == \E p \in Procs : En(p, "borra") /\ s \in proc[p].ids
\* No deletion holds the row of the user (it may hold no session at all).
SinBaja == \A p \in Procs : ~En(p, "baja") /\ ~En(p, "confirma")
Falla == fallos < MaxFallos /\ fallos' = fallos + 1

\* VerificarSesionAccess on the copy alone: what a request that finds
\* auth:session:<id> in Redis is answered.
AceptaCopia(s, j) == copia[s] = j /\ ~fila[s].vencida
\* The same check on the row, when the copy is absent or Redis does not answer.
AceptaFila(s, j) == Vigente(s) /\ fila[s].jti = j
\* The answer to a request that carries the access token j of session s.
AccesoAceptado(s, j) == IF copia[s] # 0 THEN AceptaCopia(s, j) ELSE AceptaFila(s, j)

-----------------------------------------------------------------------------
\* Login: first factor.  The account check and the SET are one step: a token
\* given to an account that has just been suspended is checked again below.
Login(t) ==
    /\ CuentaHabilitada
    /\ t \notin pre2fa /\ t \notin usados
    /\ \A p \in Procs : proc[p].tok # t
    /\ pre2fa' = pre2fa \cup {t}
    /\ UNCHANGED <<cuenta, bajaEnCurso, fila, copia, cookie, proc,
                   fallos, usados, causa>>

\* VerificarTotp with a valid code, up to the GETDEL: the temporary token and
\* the account as they are now.
VerificarTotp(p, t) ==
    /\ EnReposo(p)
    /\ t \in pre2fa
    /\ CuentaHabilitada
    /\ Sigue(p, [Reposo EXCEPT !.paso = "consume", !.tok = t])
    /\ UNCHANGED <<cuenta, bajaEnCurso, fila, copia, pre2fa, cookie,
                   fallos, usados, causa>>

\* consumirPre2FA: GETDEL, so that one verification of the token goes on.
ConsumePre2FA(p) ==
    /\ En(p, "consume")
    /\ pre2fa' = pre2fa \ {proc[p].tok}
    /\ IF proc[p].tok \in pre2fa
       THEN Sigue(p, [proc[p] EXCEPT !.paso = "crea"])
       ELSE Termina(p)
    /\ UNCHANGED <<cuenta, bajaEnCurso, fila, copia, cookie, fallos,
                   usados, causa>>

\* CrearSesionYRegistrarAcceso: the INSERT and the UPDATE of the user's row are
\* one transaction, which waits for a deletion that holds that row.
CrearSesion(p, s) ==
    /\ En(p, "crea") /\ SinBaja
    /\ fila[s].est = "libre"
    /\ fila' = [fila EXCEPT ![s] = [est |-> "viva", jti |-> 1, vencida |-> FALSE]]
    /\ usados' = usados \cup {proc[p].tok}
    /\ cookie' = cookie \cup {s}
    /\ causa' = IF CuentaHabilitada THEN causa ELSE causa \cup {s}
    /\ Sigue(p, [Reposo EXCEPT !.paso = "replica", !.ids = {s}, !.jti = 1])
    /\ UNCHANGED <<cuenta, bajaEnCurso, copia, pre2fa, fallos>>

\* replicarSesion: the SET reaches Redis now, with the payload the handler
\* carries, whatever the row says by now.  The TTL is computed at some instant
\* since the row was read alive: if that was after the expiry there is no SET;
\* if it was before, a SET that was delayed or retried writes the copy late.
ReplicarSesion(p) ==
    /\ En(p, "replica")
    /\ \E s \in proc[p].ids :
         \/ fila[s].vencida /\ UNCHANGED <<copia, causa>>
         \/ /\ copia' = [copia EXCEPT ![s] = proc[p].jti]
            /\ causa' = IF fila[s].est # "viva" \/ s \in bajaEnCurso
                        THEN causa \cup {s}
                        ELSE causa
    /\ Termina(p)
    /\ UNCHANGED <<cuenta, bajaEnCurso, fila, pre2fa, cookie, fallos,
                   usados>>

\* The SET fails: the error is logged and the operation succeeds all the same.
ReplicaFalla(p) ==
    /\ En(p, "replica") /\ Falla
    /\ Termina(p)
    /\ UNCHANGED <<cuenta, bajaEnCurso, fila, copia, pre2fa, cookie,
                   usados, causa>>

-----------------------------------------------------------------------------
\* VerificarSesionAccess when the copy does not decide: it is absent, or Redis
\* does not answer.  The row is read now and replicated later.
VerificarSesionAccess(p, s) ==
    /\ EnReposo(p)
    /\ \/ copia[s] = 0 /\ UNCHANGED fallos
       \/ copia[s] # 0 /\ Falla
    /\ \E j \in 1..MaxJti :
         /\ AceptaFila(s, j)
         /\ Sigue(p, [Reposo EXCEPT !.paso = "replica", !.ids = {s}, !.jti = j])
    /\ UNCHANGED <<cuenta, bajaEnCurso, fila, copia, pre2fa, cookie,
                   usados, causa>>

\* RefrescarToken up to the UPDATE: the row and the user as they are now.
RefrescarToken(p, s) ==
    /\ EnReposo(p)
    /\ s \in cookie
    /\ Vigente(s) /\ cuenta.activo
    /\ Sigue(p, [Reposo EXCEPT !.paso = "rota", !.ids = {s}])
    /\ UNCHANGED <<cuenta, bajaEnCurso, fila, copia, pre2fa, cookie,
                   fallos, usados, causa>>

\* Mutant of RotarJtiAccess: an UPDATE without its WHERE activa.
RotarSinCondicion(p) ==
    /\ En(p, "rota")
    /\ \E s \in proc[p].ids :
         /\ fila[s].jti < MaxJti
         /\ fila' = [fila EXCEPT ![s].jti = @ + 1]
         /\ Sigue(p, [proc[p] EXCEPT !.paso = "replica", !.jti = fila[s].jti + 1])
    /\ UNCHANGED <<cuenta, bajaEnCurso, copia, pre2fa, cookie, fallos,
                   usados, causa>>

\* RotarJtiAccess: UPDATE ... WHERE activa AND fecha_expiracion > now, which
\* waits for the rows a deletion holds.
RotarJtiAccess(p) ==
    /\ En(p, "rota")
    /\ \E s \in proc[p].ids :
         /\ s \notin bajaEnCurso
         /\ IF Vigente(s)
            THEN /\ fila[s].jti < MaxJti
                 /\ fila' = [fila EXCEPT ![s].jti = @ + 1]
                 /\ Sigue(p, [proc[p] EXCEPT !.paso = "replica",
                                             !.jti = fila[s].jti + 1])
            ELSE UNCHANGED fila /\ Termina(p)
    /\ UNCHANGED <<cuenta, bajaEnCurso, copia, pre2fa, cookie, fallos,
                   usados, causa>>

-----------------------------------------------------------------------------
\* Closing sessions

\* The rows that a revocation of the account closes.
Activas == {s \in Sesiones : fila[s].est = "viva"}
Cerrar(ids) == fila' = [s \in Sesiones |->
                   IF s \in ids /\ Existe(s) THEN [fila[s] EXCEPT !.est = "cerrada"]
                                             ELSE fila[s]]

\* CerrarSesion: DesactivarSesion closes the row, then the copy is deleted.
CerrarSesion(p, s) ==
    /\ IF Existe(s)
       THEN /\ s \notin bajaEnCurso
            /\ Cerrar({s})
            /\ Sigue(p, [Reposo EXCEPT !.paso = "borra", !.ids = {s}])
       ELSE UNCHANGED <<fila, proc>>
    /\ UNCHANGED <<cuenta, bajaEnCurso, copia, pre2fa, fallos, usados, causa>>

\* The logout handler drops the cookie before anything else, and answers 401
\* if the service fails.
Logout(p, s) ==
    /\ EnReposo(p)
    /\ s \in cookie
    /\ cookie' = cookie \ {s}
    /\ CerrarSesion(p, s)

\* revocarSesionesDeUsuario (reset of the password or of the second factor,
\* recovery, suspension), which closes every active row in one transaction.
\* It waits for the rows a deletion holds; tras says what the caller does
\* afterwards.
RevocarSesionesDeUsuario(p, tras) ==
    /\ EnReposo(p) /\ Activas \cap bajaEnCurso = {} /\ ~cuenta.eliminado
    /\ Cerrar(Activas)
    /\ Sigue(p, [Reposo EXCEPT !.paso = "borra", !.ids = Activas, !.tras = tras])
    /\ UNCHANGED <<cuenta, bajaEnCurso, copia, pre2fa, cookie, fallos,
                   usados, causa>>

\* revocarOtrasSesionesDeUsuario (change of one's own password).
RevocarOtrasSesiones(p, s) ==
    /\ EnReposo(p) /\ (Activas \ {s}) \cap bajaEnCurso = {} /\ ~cuenta.eliminado
    /\ Vigente(s)
    /\ Cerrar(Activas \ {s})
    /\ Sigue(p, [Reposo EXCEPT !.paso = "borra", !.ids = Activas \ {s}])
    /\ UNCHANGED <<cuenta, bajaEnCurso, copia, pre2fa, cookie, fallos,
                   usados, causa>>

\* Mutant of EliminarSesiones: nothing is deleted.
NoEliminarSesiones(p) ==
    /\ En(p, "borra")
    /\ Sigue(p, [Reposo EXCEPT !.paso = proc[p].tras])
    /\ UNCHANGED <<cuenta, bajaEnCurso, fila, copia, pre2fa, cookie, fallos,
                   usados, causa>>

\* eliminarSesiones: one DEL of every key.
EliminarSesiones(p) ==
    /\ En(p, "borra")
    /\ copia' = [s \in Sesiones |-> IF s \in proc[p].ids THEN 0 ELSE copia[s]]
    /\ causa' = causa \ proc[p].ids
    /\ Sigue(p, [Reposo EXCEPT !.paso = proc[p].tras])
    /\ UNCHANGED <<cuenta, bajaEnCurso, fila, pre2fa, cookie, fallos, usados>>

\* The DEL fails: the callers log it and go on.
EliminarSesionesFalla(p) ==
    /\ En(p, "borra") /\ Falla
    /\ causa' = causa \cup proc[p].ids
    /\ Sigue(p, [Reposo EXCEPT !.paso = proc[p].tras])
    /\ UNCHANGED <<cuenta, bajaEnCurso, fila, copia, pre2fa, cookie,
                   usados>>

\* ActualizarUsuario writes activo after it revoked the sessions; the other
\* direction revokes nothing.
Suspender(p) ==
    /\ En(p, "desactiva") /\ SinBaja
    /\ cuenta' = [cuenta EXCEPT !.activo = FALSE]
    /\ Termina(p)
    /\ UNCHANGED <<bajaEnCurso, fila, copia, pre2fa, cookie, fallos,
                   usados, causa>>

Reactivar ==
    /\ ~cuenta.activo /\ ~cuenta.eliminado /\ SinBaja
    /\ cuenta' = [cuenta EXCEPT !.activo = TRUE]
    /\ UNCHANGED <<bajaEnCurso, fila, copia, pre2fa, cookie, proc,
                   fallos, usados, causa>>

-----------------------------------------------------------------------------
\* EliminarLogicamente: one transaction that, before its COMMIT, deletes the
\* copies of the sessions it closes, if there are any.  Nobody sees its writes
\* before the COMMIT.
IniciarBaja(p) ==
    /\ EnReposo(p) /\ SinBaja /\ ~cuenta.eliminado
    /\ bajaEnCurso' = Activas
    /\ Sigue(p, [Reposo EXCEPT !.paso = "baja", !.ids = Activas])
    /\ UNCHANGED <<cuenta, fila, copia, pre2fa, cookie, fallos, usados, causa>>

BajaBorraCopias(p) ==
    /\ En(p, "baja")
    /\ copia' = [s \in Sesiones |-> IF s \in proc[p].ids THEN 0 ELSE copia[s]]
    /\ Sigue(p, [proc[p] EXCEPT !.paso = "confirma"])
    /\ UNCHANGED <<cuenta, bajaEnCurso, fila, pre2fa, cookie, fallos,
                   usados, causa>>

\* Mutant of BajaFalla: the failed DEL is logged and the deletion goes on.
BajaFallaSigue(p) ==
    /\ En(p, "baja") /\ Falla
    /\ Sigue(p, [proc[p] EXCEPT !.paso = "confirma"])
    /\ UNCHANGED <<cuenta, bajaEnCurso, fila, copia, pre2fa, cookie, usados, causa>>

\* ErrRevocacionFallida: the transaction is rolled back.
BajaFalla(p) ==
    /\ En(p, "baja") /\ Falla
    /\ bajaEnCurso' = {}
    /\ Termina(p)
    /\ UNCHANGED <<cuenta, fila, copia, pre2fa, cookie, usados, causa>>

ConfirmarBaja(p) ==
    /\ En(p, "confirma")
    /\ cuenta' = [cuenta EXCEPT !.activo = FALSE, !.eliminado = TRUE]
    /\ Cerrar(proc[p].ids)
    /\ bajaEnCurso' = {}
    /\ Termina(p)
    /\ UNCHANGED <<copia, pre2fa, cookie, fallos, usados, causa>>

-----------------------------------------------------------------------------
\* Time, purge and faults

\* The refresh expires.
Vencer(s) ==
    /\ Existe(s) /\ ~fila[s].vencida
    /\ fila' = [fila EXCEPT ![s].vencida = TRUE]
    /\ UNCHANGED <<cuenta, bajaEnCurso, copia, pre2fa, cookie, proc, fallos,
                   usados, causa>>

\* The copy goes with its TTL: not before its session expires, and as long
\* after it as its SET came after the computation of the TTL.
VenceCopia(s) ==
    /\ fila[s].vencida /\ copia[s] # 0
    /\ copia' = [copia EXCEPT ![s] = 0]
    /\ UNCHANGED <<cuenta, bajaEnCurso, fila, pre2fa, cookie, proc, fallos,
                   usados, causa>>

\* PurgaWorker.purgar: one DELETE of the closed and the expired rows.
Purgable(s) == Existe(s) /\ (fila[s].est = "cerrada" \/ fila[s].vencida)
Purgar ==
    /\ \E s \in Sesiones : Purgable(s)
    /\ \A s \in Sesiones : Purgable(s) => s \notin bajaEnCurso
    /\ fila' = [s \in Sesiones |-> IF Purgable(s) THEN [fila[s] EXCEPT !.est = "purgada"]
                                                  ELSE fila[s]]
    /\ UNCHANGED <<cuenta, bajaEnCurso, copia, pre2fa, cookie, proc,
                   fallos, usados, causa>>

VencePre2FA(t) ==
    /\ t \in pre2fa
    /\ pre2fa' = pre2fa \ {t}
    /\ UNCHANGED <<cuenta, bajaEnCurso, fila, copia, cookie, proc,
                   fallos, usados, causa>>

\* Redis restarts empty.
ReiniciaRedis ==
    /\ Falla
    /\ copia' = [s \in Sesiones |-> 0] /\ pre2fa' = {}
    /\ UNCHANGED <<cuenta, bajaEnCurso, fila, cookie, proc, usados, causa>>

\* The process dies: handlers are lost, the open transaction is rolled back.
Caida ==
    /\ Falla
    /\ \E p \in Procs : ~EnReposo(p)
    /\ proc' = [p \in Procs |-> Reposo]
    /\ bajaEnCurso' = {}
    /\ causa' = causa \cup {s \in Sesiones : BorradoPendiente(s)}
    /\ UNCHANGED <<cuenta, fila, copia, pre2fa, cookie, usados>>

-----------------------------------------------------------------------------
Verificacion(p) ==
    \/ \E t \in Tokens : VerificarTotp(p, t)
    \/ ConsumePre2FA(p)
    \/ \E s \in Sesiones : CrearSesion(p, s) \/ VerificarSesionAccess(p, s)
    \/ ReplicarSesion(p) \/ ReplicaFalla(p)

Renovacion(p) == (\E s \in Sesiones : RefrescarToken(p, s)) \/ RotarJtiAccess(p)

Cierre(p) ==
    \/ \E s \in Sesiones : Logout(p, s) \/ RevocarOtrasSesiones(p, s)
    \/ \E tras \in {"reposo", "desactiva"} : RevocarSesionesDeUsuario(p, tras)
    \/ EliminarSesiones(p) \/ EliminarSesionesFalla(p) \/ Suspender(p)

Baja(p) == IniciarBaja(p) \/ BajaBorraCopias(p) \/ BajaFalla(p) \/ ConfirmarBaja(p)

Next ==
    \/ \E p \in Procs : Verificacion(p) \/ Renovacion(p) \/ Cierre(p) \/ Baja(p)
    \/ \E t \in Tokens : Login(t) \/ VencePre2FA(t)
    \/ \E s \in Sesiones : Vencer(s) \/ VenceCopia(s)
    \/ Reactivar \/ Purgar \/ ReiniciaRedis \/ Caida

Spec == Init /\ [][Next]_vars

-----------------------------------------------------------------------------
\* Properties

\* A closed session stays closed and is never renewed again, although a
\* refresh may have read it alive before the revocation (auth_repository.go:93).
CierreDefinitivo ==
    [][\A s \in Sesiones : fila[s].est \in {"cerrada", "purgada"} =>
          fila'[s].est \in {"cerrada", "purgada"} /\ fila'[s].jti = fila[s].jti]_vars

\* A copy that still opens a closed session survives for one of three reasons
\* only: its DEL is still to come, failed or was lost in a crash, or a handler
\* replicated the row it had read while it was active (sesiones.go:17-25,
\* auth_service.go:553).  Once the session has expired its copy opens nothing.
CopiaCerradaConCausa ==
    \A s \in Sesiones : copia[s] # 0 /\ ~fila[s].vencida /\ fila[s].est # "viva" =>
        BorradoPendiente(s) \/ s \in causa

\* When a deletion is reported, every session it found is closed in both stores:
\* what still works on a deleted account was in flight meanwhile or had been
\* left behind by an earlier revocation (user_service.go:220-242).
BajaRevoca ==
    cuenta.eliminado => \A s \in Sesiones :
        (\E j \in 1..MaxJti : AccesoAceptado(s, j)) => s \in causa \/ BorradoPendiente(s)
=============================================================================
