------------------------------- MODULE Cuenta -------------------------------
(***************************************************************************)
(* The accounts: what administrators do to them (user_service), what their *)
(* owner does (account_handler, email_change) and what somebody who is not *)
(* logged in yet does (recovery of the password, second factor).  Each     *)
(* request reads an account, checks it, sends mails and writes it back in  *)
(* separate steps, and the requests overlap.                               *)
(*                                                                         *)
(* Passwords, recovery codes, second-factor secrets and e-mail tokens are  *)
(* named after the request that made them (0: the one the account had).    *)
(* The closing of sessions that follows some of the writes is in Sesiones. *)
(*                                                                         *)
(* Bounds: MaxPeticiones requests, Cuentas (identities with their own user *)
(* name), Emails, MaxFallos failed mails or calls.                         *)
(***************************************************************************)
EXTENDS Integers, FiniteSets

CONSTANTS Cuentas, Emails, EmailDe, MaxPeticiones, MaxIntentos, MaxFallos

Peticiones == 1..MaxPeticiones
Origen == 0..MaxPeticiones
Nadie == -1

ASSUME CuentaAssumption ==
    /\ EmailDe \in [Cuentas -> Emails] /\ \A c, d \in Cuentas : EmailDe[c] = EmailDe[d] => c = d
    /\ MaxPeticiones \in Nat /\ MaxIntentos \in Nat \ {0} /\ MaxFallos \in Nat

VARIABLES
    cuenta,     \* the rows of usuarios
    bloqueo,    \* who holds the lock of each row
    peticion,   \* the requests
    token,      \* auth:email_change:<token>, by the request that made it
    correos,    \* mails delivered: [tipo, de, a]
    auditadas,  \* requests for a change of e-mail with their audit entry
    usos,       \* ghost: wrong and right presentations of each recovery code
    fallos

vars == <<cuenta, bloqueo, peticion, token, correos, auditadas, usos, fallos>>
resto == <<bloqueo, token, correos, auditadas, usos, fallos>>

SinFila == [est |-> "nada", email |-> CHOOSE e \in Emails : TRUE, clave |-> 0, temporal |-> FALSE,
            codigo |-> Nadie, vence |-> FALSE, intentos |-> 0, secreto |-> Nadie, vinculado |-> FALSE]
Libre == [op |-> "nada", fase |-> "fin", c |-> CHOOSE c \in Cuentas : TRUE,
          email |-> CHOOSE e \in Emails : TRUE, leida |-> SinFila, de |-> 0]

Viva(c) == cuenta[c].est \in {"activa", "suspendida"}

Init ==
    /\ \E alta \in SUBSET Cuentas, v \in BOOLEAN :
         LET n == MaxIntentos - 1
             olvido == CHOOSE c \in Cuentas : TRUE     \* has a code, and one try left
         IN
         /\ olvido \in alta
         /\ cuenta = [c \in Cuentas |->
              IF c \notin alta THEN SinFila
              ELSE [SinFila EXCEPT !.est = "activa", !.email = EmailDe[c],
                                   !.codigo = IF c = olvido THEN 0 ELSE Nadie,
                                   !.intentos = IF c = olvido THEN n ELSE 0,
                                   !.vinculado = v, !.secreto = IF v THEN 0 ELSE Nadie]]
         /\ usos = [k \in Origen |-> [mal |-> IF k = 0 THEN n ELSE 0, bien |-> 0]]
    /\ bloqueo = [c \in Cuentas |-> Nadie]
    /\ peticion = [p \in Peticiones |-> Libre]
    /\ token = {} /\ correos = {} /\ auditadas = {} /\ fallos = 0

-----------------------------------------------------------------------------
\* Vocabulary

En(p, op, fase) == peticion[p].op = op /\ peticion[p].fase = fase
Pasa(p, fase) == peticion' = [peticion EXCEPT ![p].fase = fase]
Termina(p) == peticion' = [peticion EXCEPT ![p] = [Libre EXCEPT !.op = "fin"]]
Falla == fallos < MaxFallos /\ fallos' = fallos + 1

\* Requests are numbered in the order in which they arrive.
Nueva(p) == peticion[p].op = "nada" /\ \A q \in 1..p - 1 : peticion[q].op # "nada"

\* SELECT: nobody waits for the lock of the row.
Empieza(p, op, fase, c, e) ==
    peticion' = [peticion EXCEPT ![p] =
        [Libre EXCEPT !.op = op, !.fase = fase, !.c = c, !.email = e, !.leida = cuenta[c]]]

Existe(e, menos) == \E c \in Cuentas \ menos : Viva(c) /\ cuenta[c].email = e
\* The unique index, over the rows that were not eliminated.
IndiceUnico(c, e) == ~Existe(e, {c})

Suelta(c, p) == bloqueo[c] \in {Nadie, p}
Correo(tipo, p, a) == correos' = correos \cup {[tipo |-> tipo, de |-> p, a |-> a]}

\* UPDATE ... WHERE eliminado_en IS NULL
Actualizar(c, fila) ==
    IF Viva(c) /\ IndiceUnico(c, fila.email) THEN cuenta' = [cuenta EXCEPT ![c] = fila]
    ELSE UNCHANGED cuenta

-----------------------------------------------------------------------------
\* What an administrator does

\* CrearUsuario: e-mail and user name are free; then the mail; then the row.
CrearUsuario(p, c, e) ==
    /\ Nueva(p) /\ cuenta[c].est = "nada" /\ ~Existe(e, {})
    /\ Empieza(p, "alta", "correo", c, e)
    /\ UNCHANGED <<cuenta, resto>>

\* Mutant of EnviarCredenciales: a mail that fails is only logged.
EnviarSinMirar(p) ==
    /\ \E op \in {"alta", "reset"} : En(p, op, "correo")
    /\ \/ Correo("clave", p, peticion[p].email) /\ UNCHANGED fallos
       \/ Falla /\ UNCHANGED correos
    /\ Pasa(p, "escribe")
    /\ UNCHANGED <<cuenta, bloqueo, token, auditadas, usos>>
\* The temporary password goes by mail before anything is written.
EnviarCredenciales(p) ==
    /\ \E op \in {"alta", "reset"} : En(p, op, "correo")
    /\ \/ Correo("clave", p, peticion[p].email) /\ Pasa(p, "escribe") /\ UNCHANGED fallos
       \/ Falla /\ Termina(p) /\ UNCHANGED correos
    /\ UNCHANGED <<cuenta, bloqueo, token, auditadas, usos>>

\* The INSERT: a repeated e-mail or user name ends in a 409.
Insertar(p) ==
    /\ En(p, "alta", "escribe")
    /\ LET c == peticion[p].c
           e == peticion[p].email
       IN IF cuenta[c].est = "nada" /\ IndiceUnico(c, e)
          THEN cuenta' = [cuenta EXCEPT ![c] = [SinFila EXCEPT !.est = "activa", !.email = e,
                                                               !.clave = p, !.temporal = TRUE]]
          ELSE UNCHANGED cuenta
    /\ Termina(p) /\ UNCHANGED resto

\* ActualizarUsuario with another e-mail, or with activo.
LeerParaEditar(p, c, e) ==
    /\ Nueva(p) /\ Viva(c) /\ (e = cuenta[c].email \/ ~Existe(e, {c}))
    /\ Empieza(p, "editar", "escribe", c, e)
    /\ UNCHANGED <<cuenta, resto>>
Editar(p) ==
    /\ En(p, "editar", "escribe")
    /\ LET c == peticion[p].c
           e == peticion[p].email
       IN /\ Suelta(c, p)
          /\ IF e # peticion[p].leida.email THEN Actualizar(c, [cuenta[c] EXCEPT !.email = e])
             ELSE \E est \in {"activa", "suspendida"} : Actualizar(c, [cuenta[c] EXCEPT !.est = est])
    /\ Termina(p) /\ UNCHANGED resto

\* EliminarLogicamente: one transaction, undone if the access cannot be revoked.
EliminarUsuario(p, c) ==
    /\ Nueva(p) /\ Viva(c) /\ Suelta(c, p)
    /\ \/ cuenta' = [cuenta EXCEPT ![c] = [@ EXCEPT !.est = "eliminada", !.codigo = Nadie,
                                                    !.vence = FALSE, !.intentos = 0]]
          /\ UNCHANGED fallos
       \/ Falla /\ UNCHANGED cuenta
    /\ peticion' = [peticion EXCEPT ![p] = [Libre EXCEPT !.op = "fin"]]
    /\ UNCHANGED <<bloqueo, token, correos, auditadas, usos>>

ResetearContrasena(p, c) ==
    /\ Nueva(p) /\ Viva(c)
    /\ Empieza(p, "reset", "correo", c, cuenta[c].email)
    /\ UNCHANGED <<cuenta, resto>>
AplicarReset(p) ==
    /\ En(p, "reset", "escribe") /\ Suelta(peticion[p].c, p)
    /\ LET c == peticion[p].c
       IN Actualizar(c, [cuenta[c] EXCEPT !.clave = p, !.temporal = TRUE])
    /\ Termina(p) /\ UNCHANGED resto

ResetearTotp(p, c) ==
    /\ Nueva(p) /\ Viva(c)
    /\ Empieza(p, "resetTotp", "escribe", c, cuenta[c].email)
    /\ UNCHANGED <<cuenta, resto>>
\* UPDATE by id alone: secret and flag together.
ActualizarTotp(c, s, v) == cuenta' = [cuenta EXCEPT ![c].secreto = s, ![c].vinculado = v]
AplicarResetTotp(p) ==
    /\ En(p, "resetTotp", "escribe") /\ Suelta(peticion[p].c, p)
    /\ ActualizarTotp(peticion[p].c, Nadie, FALSE)
    /\ Termina(p) /\ UNCHANGED resto

-----------------------------------------------------------------------------
\* What the owner does

\* CambiarContrasena: the current password is checked against what was read.
CambiarContrasena(p, c) ==
    /\ Nueva(p) /\ cuenta[c].est = "activa"
    /\ Empieza(p, "cambio", "escribe", c, cuenta[c].email)
    /\ UNCHANGED <<cuenta, resto>>
AplicarCambio(p) ==
    /\ En(p, "cambio", "escribe") /\ Suelta(peticion[p].c, p)
    /\ LET c == peticion[p].c
       IN Actualizar(c, [cuenta[c] EXCEPT !.clave = p, !.temporal = FALSE])
    /\ Termina(p) /\ UNCHANGED resto

\* ObtenerQRParaVinculacion: only before the second factor is linked.
ObtenerQR(p, c) ==
    /\ Nueva(p) /\ cuenta[c].est = "activa" /\ ~cuenta[c].vinculado
    /\ Empieza(p, "qr", "escribe", c, cuenta[c].email)
    /\ UNCHANGED <<cuenta, resto>>
GuardarSecreto(p) ==
    /\ En(p, "qr", "escribe") /\ Suelta(peticion[p].c, p)
    /\ ActualizarTotp(peticion[p].c, p, FALSE)
    /\ Termina(p) /\ UNCHANGED resto

\* VerificarTotp with a code of the secret it read.
VerificarTotp(p, c) ==
    /\ Nueva(p) /\ cuenta[c].est = "activa" /\ cuenta[c].secreto # Nadie
    /\ Empieza(p, "totp", "escribe", c, cuenta[c].email)
    /\ UNCHANGED <<cuenta, resto>>
\* The first right code links the secret it was checked against.
Vincular(p) ==
    /\ En(p, "totp", "escribe") /\ Suelta(peticion[p].c, p)
    /\ IF peticion[p].leida.vinculado THEN UNCHANGED cuenta
       ELSE ActualizarTotp(peticion[p].c, peticion[p].leida.secreto, TRUE)
    /\ Termina(p) /\ UNCHANGED resto

\* solicitarCambioEmail: password and second factor; the new e-mail is free.
SolicitarCambioEmail(p, c, e) ==
    /\ Nueva(p) /\ cuenta[c].est = "activa" /\ cuenta[c].vinculado
    /\ e # cuenta[c].email /\ ~Existe(e, {c})
    /\ Empieza(p, "correo", "audita", c, e)
    /\ UNCHANGED <<cuenta, resto>>
\* RegistrarEstricto: without its entry there is no request.
AuditarSolicitud(p) ==
    /\ En(p, "correo", "audita")
    /\ \/ auditadas' = auditadas \cup {p} /\ Pasa(p, "alerta") /\ UNCHANGED fallos
       \/ Falla /\ Termina(p) /\ UNCHANGED auditadas
    /\ UNCHANGED <<cuenta, bloqueo, token, correos, usos>>
\* The current address is warned first.
AlertarCambio(p) ==
    /\ En(p, "correo", "alerta")
    /\ \/ Correo("alerta", p, peticion[p].leida.email) /\ Pasa(p, "guarda") /\ UNCHANGED fallos
       \/ Falla /\ Termina(p) /\ UNCHANGED correos
    /\ UNCHANGED <<cuenta, bloqueo, token, auditadas, usos>>
GuardarToken(p) ==
    /\ En(p, "correo", "guarda")
    /\ \/ /\ token' = token \cup {[de |-> p, c |-> peticion[p].c, nuevo |-> peticion[p].email,
                                   original |-> peticion[p].leida.email]}
          /\ Pasa(p, "correo") /\ UNCHANGED fallos
       \/ Falla /\ Termina(p) /\ UNCHANGED token
    /\ UNCHANGED <<cuenta, bloqueo, correos, auditadas, usos>>
\* The token goes to the new address; if it cannot, the DEL may fail too.
EnviarToken(p) ==
    /\ En(p, "correo", "correo")
    /\ \/ Correo("token", p, peticion[p].email) /\ UNCHANGED <<token, fallos>>
       \/ Falla /\ token' \in {token, {t \in token : t.de # p}} /\ UNCHANGED correos
    /\ Termina(p)
    /\ UNCHANGED <<cuenta, bloqueo, auditadas, usos>>

\* ConfirmarEmail: GET, GETDEL, and one transaction.
ConfirmarEmail(p, t) ==
    /\ Nueva(p) /\ t \in token /\ [tipo |-> "token", de |-> t.de, a |-> t.nuevo] \in correos
    /\ peticion' = [peticion EXCEPT ![p] = [Libre EXCEPT !.op = "confirma", !.fase = "consume",
                        !.c = t.c, !.email = t.nuevo, !.leida.email = t.original, !.de = t.de]]
    /\ UNCHANGED <<cuenta, resto>>
ConsumirToken(p) ==
    /\ En(p, "confirma", "consume")
    /\ LET mio == {t \in token : t.de = peticion[p].de}
       IN IF mio = {} THEN Termina(p) ELSE Pasa(p, "escribe")
    /\ token' = {t \in token : t.de # peticion[p].de}
    /\ UNCHANGED <<cuenta, bloqueo, correos, auditadas, usos, fallos>>
\* Mutant of ConfirmarCambioEmail: any e-mail is replaced.
ConfirmarSinComparar(p) ==
    /\ En(p, "confirma", "escribe") /\ Suelta(peticion[p].c, p)
    /\ LET c == peticion[p].c
       IN Actualizar(c, [cuenta[c] EXCEPT !.email = peticion[p].email])
    /\ Termina(p) /\ UNCHANGED resto
\* The UPDATE asks for the e-mail the request started from; its audit entry is
\* in the same transaction.
ConfirmarCambioEmail(p) ==
    /\ En(p, "confirma", "escribe") /\ Suelta(peticion[p].c, p)
    /\ LET c == peticion[p].c
       IN IF cuenta[c].est = "activa" /\ cuenta[c].email = peticion[p].leida.email
          THEN \/ Actualizar(c, [cuenta[c] EXCEPT !.email = peticion[p].email]) /\ UNCHANGED fallos
               \/ Falla /\ UNCHANGED cuenta
          ELSE UNCHANGED <<cuenta, fallos>>
    /\ Termina(p) /\ UNCHANGED <<bloqueo, token, correos, auditadas, usos>>

VenceToken ==
    /\ \E t \in token : token' = token \ {t}
    /\ UNCHANGED <<cuenta, bloqueo, peticion, correos, auditadas, usos, fallos>>

-----------------------------------------------------------------------------
\* Recovery of the password

SolicitarRecuperacion(p, c) ==
    /\ Nueva(p) /\ cuenta[c].est = "activa"
    /\ Empieza(p, "codigo", "escribe", c, cuenta[c].email)
    /\ UNCHANGED <<cuenta, resto>>
\* UPDATE by id alone: a new code starts its own count.
ActualizarCodigoRecuperacion(p) ==
    /\ En(p, "codigo", "escribe") /\ Suelta(peticion[p].c, p)
    /\ cuenta' = [cuenta EXCEPT ![peticion[p].c] =
                    [@ EXCEPT !.codigo = p, !.vence = FALSE, !.intentos = 0]]
    /\ Pasa(p, "correo") /\ UNCHANGED resto
EnviarCodigo(p) ==
    /\ En(p, "codigo", "correo")
    /\ \/ Correo("codigo", p, peticion[p].email) /\ UNCHANGED fallos
       \/ Falla /\ UNCHANGED correos
    /\ Termina(p) /\ UNCHANGED <<cuenta, bloqueo, token, auditadas, usos>>

VenceCodigo(c) ==
    /\ cuenta[c].codigo # Nadie /\ ~cuenta[c].vence
    /\ cuenta' = [cuenta EXCEPT ![c].vence = TRUE]
    /\ UNCHANGED <<peticion, resto>>

\* Mutant of Bloquear: the row is read without FOR UPDATE.
BloquearSinBloqueo(p, c) ==
    /\ Nueva(p) /\ Viva(c)
    /\ Empieza(p, "recupera", "escribe", c, cuenta[c].email)
    /\ UNCHANGED <<cuenta, resto>>
\* SELECT ... FOR UPDATE
Bloquear(p, c) ==
    /\ Nueva(p) /\ Viva(c) /\ bloqueo[c] = Nadie
    /\ bloqueo' = [bloqueo EXCEPT ![c] = p]
    /\ Empieza(p, "recupera", "escribe", c, cuenta[c].email)
    /\ UNCHANGED <<cuenta, token, correos, auditadas, usos, fallos>>

SinCodigo(f) == [f EXCEPT !.codigo = Nadie, !.vence = FALSE]
\* A wrong code counts; the last one allowed takes the code away.
Errado(f) ==
    LET n == f.intentos + 1
    IN IF n >= MaxIntentos THEN SinCodigo([f EXCEPT !.intentos = n]) ELSE [f EXCEPT !.intentos = n]

\* The rest of the transaction, over the row it read.
ConfirmarRecuperacion(p, acierta) ==
    /\ En(p, "recupera", "escribe")
    /\ LET c == peticion[p].c
           f == peticion[p].leida
           k == f.codigo
           cuenta2(g) == cuenta' = [cuenta EXCEPT ![c] =
                            [@ EXCEPT !.codigo = g.codigo, !.vence = g.vence, !.intentos = g.intentos,
                                      !.clave = g.clave, !.temporal = g.temporal]]
       IN /\ CASE k = Nadie -> UNCHANGED <<cuenta, usos>>
               [] k # Nadie /\ f.intentos >= MaxIntentos -> cuenta2(SinCodigo(f)) /\ UNCHANGED usos
               [] k # Nadie /\ f.intentos < MaxIntentos /\ ~acierta ->
                    cuenta2(Errado(f)) /\ usos' = [usos EXCEPT ![k].mal = @ + 1]
               [] k # Nadie /\ f.intentos < MaxIntentos /\ acierta /\ f.vence ->
                    cuenta2(SinCodigo(f)) /\ UNCHANGED usos
               [] OTHER ->
                    \/ /\ cuenta2([SinCodigo(f) EXCEPT !.clave = p, !.temporal = FALSE, !.intentos = 0])
                       /\ usos' = [usos EXCEPT ![k].bien = @ + 1]
                    \/ UNCHANGED <<cuenta, usos>>      \* the new password is the present one: refused
          /\ bloqueo' = [bloqueo EXCEPT ![c] = Nadie]
    /\ Termina(p) /\ UNCHANGED <<token, correos, auditadas, fallos>>

Administra(p) ==
    \/ EnviarCredenciales(p) \/ Insertar(p) \/ Editar(p) \/ AplicarReset(p) \/ AplicarResetTotp(p)
    \/ \E c \in Cuentas :
         \/ EliminarUsuario(p, c) \/ ResetearContrasena(p, c) \/ ResetearTotp(p, c)
         \/ \E e \in Emails : CrearUsuario(p, c, e) \/ LeerParaEditar(p, c, e)
Propia(p) ==
    \/ AplicarCambio(p) \/ GuardarSecreto(p) \/ Vincular(p)
    \/ AuditarSolicitud(p) \/ AlertarCambio(p) \/ GuardarToken(p) \/ EnviarToken(p)
    \/ ConsumirToken(p) \/ ConfirmarCambioEmail(p)
    \/ \E t \in token : ConfirmarEmail(p, t)
    \/ \E c \in Cuentas :
         \/ CambiarContrasena(p, c) \/ ObtenerQR(p, c) \/ VerificarTotp(p, c)
         \/ \E e \in Emails : SolicitarCambioEmail(p, c, e)
Recupera(p) ==
    \/ ActualizarCodigoRecuperacion(p) \/ EnviarCodigo(p)
    \/ \E acierta \in BOOLEAN : ConfirmarRecuperacion(p, acierta)
    \/ \E c \in Cuentas : SolicitarRecuperacion(p, c) \/ Bloquear(p, c)

Next ==
    \/ \E p \in Peticiones : Administra(p) \/ Propia(p) \/ Recupera(p)
    \/ VenceToken \/ \E c \in Cuentas : VenceCodigo(c)

Spec == Init /\ [][Next]_vars

-----------------------------------------------------------------------------
\* Properties

\* A temporary password in force was delivered: to the e-mail the account had
\* when the request read it.  (CrearUsuario and ResetearContrasena send the
\* mail before they write, "para no crear cuentas sin credenciales
\* entregadas", user_service.go:77-78.)
ClaveEntregada ==
    \A c \in Cuentas : cuenta[c].temporal =>
        \E m \in correos : m.tipo = "clave" /\ m.de = cuenta[c].clave

\* The address that loses an account through a token was warned before, and
\* the request has its audit entry, whatever an administrator changed in
\* between.  (email_change.go:72-79, user_repository.go:356-369.)
DesplazadoAvisado ==
    [][\A p \in Peticiones, c \in Cuentas :
         En(p, "confirma", "escribe") /\ ~En(p, "confirma", "escribe")' /\ cuenta'[c].email # cuenta[c].email =>
             /\ [tipo |-> "alerta", de |-> peticion[p].de, a |-> cuenta[c].email] \in correos
             /\ peticion[p].de \in auditadas]_vars

\* No recovery code is tried wrongly more than MaxIntentos times or used
\* twice, however many requests present it at the same time.
\* (ConfirmarRecuperacionConBloqueo, auth_repository.go:258-260.)
CodigoAcotado == \A k \in Origen : usos[k].mal <= MaxIntentos /\ usos[k].bien <= 1

=============================================================================
