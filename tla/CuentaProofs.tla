---------------------------- MODULE CuentaProofs ----------------------------
(***************************************************************************)
(* Proofs about Cuenta: the second count that a recovery code keeps below  *)
(* its limit, the mail behind every temporary password, and the warning    *)
(* behind every change of e-mail, for any number of accounts, addresses    *)
(* and overlapping requests.                                               *)
(***************************************************************************)
EXTENDS Cuenta, TLAPS

\* What each variable can hold.
Filas == [est : {"nada", "activa", "suspendida", "eliminada"}, email : Emails, clave : Origen,
          temporal : BOOLEAN, codigo : Origen \cup {Nadie}, vence : BOOLEAN, intentos : Nat,
          secreto : Origen \cup {Nadie}, vinculado : BOOLEAN]
Registros == [op : {"nada", "fin", "alta", "editar", "reset", "resetTotp", "cambio", "qr", "totp",
                    "correo", "confirma", "codigo", "recupera"},
              fase : {"fin", "correo", "escribe", "audita", "alerta", "guarda", "consume"},
              c : Cuentas, email : Emails, leida : Filas, de : Origen]
Tipos ==
    /\ Cuentas # {} /\ Emails # {}
    /\ cuenta \in [Cuentas -> Filas]
    /\ bloqueo \in [Cuentas -> Peticiones \cup {Nadie}]
    /\ peticion \in [Peticiones -> Registros]
    /\ token \subseteq [de : Origen, c : Cuentas, nuevo : Emails, original : Emails]
    /\ usos \in [Origen -> [mal : Nat, bien : Nat]]

\* A request that recovers a password holds the lock of its row, and what it
\* read is still there: nobody else writes the password or the code meanwhile.
BajoBloqueo ==
    \A p \in Peticiones : peticion[p].op = "recupera" =>
        LET c == peticion[p].c
            f == peticion[p].leida
        IN /\ bloqueo[c] = p /\ cuenta[c].est # "nada"
           /\ f.codigo = cuenta[c].codigo /\ f.intentos = cuenta[c].intentos
           /\ f.clave = cuenta[c].clave /\ f.temporal = cuenta[c].temporal

\* A code is born in one row, from the request it is named after.
CodigoPropio ==
    \A c, d \in Cuentas : cuenta[c].codigo # Nadie /\ cuenta[c].codigo = cuenta[d].codigo => c = d
SinEstrenar(k) == k \in Peticiones /\ (peticion[k].op = "nada" \/ En(k, "codigo", "escribe"))
CodigoNuevo ==
    \A k \in Origen : SinEstrenar(k) =>
        usos[k].mal = 0 /\ usos[k].bien = 0 /\ \A c \in Cuentas : cuenta[c].codigo # k

\* The count of the row is the number of wrong presentations of its code.
CuentaExacta ==
    \A c \in Cuentas : LET k == cuenta[c].codigo IN
        k # Nadie => /\ usos[k].bien = 0 /\ usos[k].mal = cuenta[c].intentos
                     /\ cuenta[c].intentos < MaxIntentos

\* Who is about to write a temporary password has sent it.
PorEscribirEnviada ==
    \A p \in Peticiones : (En(p, "alta", "escribe") \/ En(p, "reset", "escribe")) =>
        \E m \in correos : m.tipo = "clave" /\ m.de = p

\* A change of e-mail, from the request to the confirmation, has its entry and,
\* once the warning went out, its mail to the address the request started from.
Alerta(p, e) == [tipo |-> "alerta", de |-> p, a |-> e]
SolicitudAvisada ==
    \A p \in Peticiones : peticion[p].op = "correo" =>
        /\ peticion[p].fase \in {"alerta", "guarda", "correo"} => p \in auditadas
        /\ peticion[p].fase \in {"guarda", "correo"} => Alerta(p, peticion[p].leida.email) \in correos
TokenAvisado == \A t \in token : t.de \in auditadas /\ Alerta(t.de, t.original) \in correos
ConfirmacionAvisada ==
    \A p \in Peticiones : peticion[p].op = "confirma" =>
        peticion[p].de \in auditadas /\ Alerta(peticion[p].de, peticion[p].leida.email) \in correos

\* The inductive invariant.
IInv == /\ Tipos /\ BajoBloqueo /\ CodigoPropio /\ CodigoNuevo /\ CuentaExacta /\ CodigoAcotado
        /\ PorEscribirEnviada /\ ClaveEntregada
        /\ SolicitudAvisada /\ TokenAvisado /\ ConfirmacionAvisada

-----------------------------------------------------------------------------
(* Types *)

\* The first e-mail and the first account, which the blank rows and requests hold.
LEMMA Primeros ==
    ASSUME Cuentas # {}, Emails # {}
    PROVE  /\ (CHOOSE c \in Cuentas : TRUE) \in Cuentas
           /\ (CHOOSE e \in Emails : TRUE) \in Emails
<1>1. (CHOOSE c \in Cuentas : TRUE) \in Cuentas
  <2>1. PICK c \in Cuentas : TRUE
    OBVIOUS
  <2> QED BY <2>1
<1>2. (CHOOSE e \in Emails : TRUE) \in Emails
  <2>1. PICK e \in Emails : TRUE
    OBVIOUS
  <2> QED BY <2>1
<1> QED BY <1>1, <1>2

\* A blank row is a row, and a blank request a request.
LEMMA EnBlanco ==
    ASSUME Cuentas # {}, Emails # {}
    PROVE  /\ SinFila \in Filas /\ SinFila.est = "nada" /\ SinFila.codigo = Nadie
           /\ SinFila.temporal = FALSE
           /\ Libre \in Registros /\ Libre.op = "nada" /\ Libre.fase = "fin"
<1> USE Primeros, CuentaAssumption
<1>1. SinFila \in Filas /\ SinFila.est = "nada" /\ SinFila.codigo = Nadie /\ SinFila.temporal = FALSE
  BY DEF SinFila, Filas, Origen, Nadie
<1>2. Libre \in Registros /\ Libre.op = "nada" /\ Libre.fase = "fin"
  BY <1>1 DEF Libre, Registros, Origen
<1> QED BY <1>1, <1>2

\* What a wrong code leaves in a row is a row: the count grows by one, and the
\* code goes when the count reaches the limit.
LEMMA FilaErrada ==
    ASSUME NEW f \in Filas
    PROVE  /\ SinCodigo(f) \in Filas /\ Errado(f) \in Filas
           /\ SinCodigo(f).codigo = Nadie
           /\ SinCodigo(f).clave = f.clave /\ SinCodigo(f).temporal = f.temporal
           /\ Errado(f).intentos = f.intentos + 1
           /\ Errado(f).clave = f.clave /\ Errado(f).temporal = f.temporal
           /\ f.intentos + 1 >= MaxIntentos => Errado(f).codigo = Nadie
           /\ f.intentos + 1 < MaxIntentos => Errado(f).codigo = f.codigo
<1> USE CuentaAssumption
<1>1. \A g \in Filas : SinCodigo(g) \in Filas
  BY DEF SinCodigo, Filas, Nadie
<1>2. /\ SinCodigo(f).codigo = Nadie
      /\ SinCodigo(f).clave = f.clave /\ SinCodigo(f).temporal = f.temporal
  BY DEF SinCodigo, Filas
<1> DEFINE g == [f EXCEPT !.intentos = f.intentos + 1]
<1>3. /\ g \in Filas /\ g.intentos = f.intentos + 1 /\ g.codigo = f.codigo
      /\ g.clave = f.clave /\ g.temporal = f.temporal
  BY DEF Filas
<1>4. Errado(f) = IF f.intentos + 1 >= MaxIntentos THEN SinCodigo(g) ELSE g
  BY DEF Errado
<1>5. /\ SinCodigo(g).intentos = g.intentos /\ SinCodigo(g).clave = g.clave
      /\ SinCodigo(g).temporal = g.temporal /\ SinCodigo(g).codigo = Nadie
  BY <1>3 DEF SinCodigo, Filas
<1> HIDE DEF g
<1>6. f.intentos \in Nat /\ MaxIntentos \in Nat
  BY DEF Filas
<1>7. CASE f.intentos + 1 >= MaxIntentos
  BY <1>1, <1>2, <1>3, <1>4, <1>5, <1>6, <1>7
<1>8. CASE f.intentos + 1 < MaxIntentos
  BY <1>1, <1>2, <1>3, <1>4, <1>6, <1>8
<1> QED BY <1>6, <1>7, <1>8

\* Every step that reads starts a request that nobody had started.
Lectura(p) ==
    \E op \in {"alta", "editar", "reset", "resetTotp", "cambio", "qr", "totp", "correo", "codigo"},
       fase \in {"correo", "escribe", "audita"}, c \in Cuentas, e \in Emails :
        /\ Nueva(p) /\ Empieza(p, op, fase, c, e)
        /\ op \in {"alta", "reset"} => fase = "correo"
        /\ op = "correo" => fase = "audita"
        /\ op = "codigo" => fase = "escribe"
        /\ UNCHANGED <<cuenta, resto>>

\* The steps, as what they do to the tables: reading, writing the row of a
\* request and ending it, and the ones that travel between both.
Escribe(p) ==
    \/ Insertar(p) \/ Editar(p) \/ AplicarReset(p) \/ AplicarResetTotp(p)
    \/ AplicarCambio(p) \/ GuardarSecreto(p) \/ Vincular(p) \/ ConfirmarCambioEmail(p)
Avanza(p) ==
    \/ EnviarCredenciales(p) \/ AuditarSolicitud(p) \/ AlertarCambio(p) \/ GuardarToken(p)
    \/ EnviarToken(p) \/ ConsumirToken(p) \/ EnviarCodigo(p)

PasoDe(p) ==
    \/ Lectura(p) \/ Escribe(p) \/ Avanza(p) \/ ActualizarCodigoRecuperacion(p)
    \/ \E c \in Cuentas : EliminarUsuario(p, c) \/ Bloquear(p, c)
    \/ \E t \in token : ConfirmarEmail(p, t)
    \/ \E acierta \in BOOLEAN : ConfirmarRecuperacion(p, acierta)

\* Every step of the system is one of these.
LEMMA Pasos ==
    ASSUME Tipos, Next
    PROVE  VenceToken \/ (\E c \in Cuentas : VenceCodigo(c)) \/ \E p \in Peticiones : PasoDe(p)
<1> DEFINE Lee(p) ==
      \/ \E c \in Cuentas :
           \/ ResetearContrasena(p, c) \/ ResetearTotp(p, c) \/ CambiarContrasena(p, c)
           \/ ObtenerQR(p, c) \/ VerificarTotp(p, c) \/ SolicitarRecuperacion(p, c)
      \/ \E c \in Cuentas, e \in Emails :
           CrearUsuario(p, c, e) \/ LeerParaEditar(p, c, e) \/ SolicitarCambioEmail(p, c, e)
<1>1. ASSUME NEW p \in Peticiones, Lee(p)
      PROVE  Lectura(p)
  <2>1. ASSUME NEW c \in Cuentas
        PROVE  cuenta[c].email \in Emails
    BY DEF Tipos, Filas
  <2>2. ASSUME NEW c \in Cuentas, NEW e \in Emails,
               CrearUsuario(p, c, e) \/ LeerParaEditar(p, c, e) \/ SolicitarCambioEmail(p, c, e)
        PROVE  Lectura(p)
    BY <2>2 DEF Lectura, CrearUsuario, LeerParaEditar, SolicitarCambioEmail
  <2>3. ASSUME NEW c \in Cuentas,
               ResetearContrasena(p, c) \/ ResetearTotp(p, c) \/ CambiarContrasena(p, c)
               \/ ObtenerQR(p, c) \/ VerificarTotp(p, c) \/ SolicitarRecuperacion(p, c)
        PROVE  Lectura(p)
    BY <2>1, <2>3 DEF Lectura, ResetearContrasena, ResetearTotp, CambiarContrasena, ObtenerQR,
       VerificarTotp, SolicitarRecuperacion
  <2> QED BY <1>1, <2>2, <2>3
<1>2. ASSUME NEW p \in Peticiones, Administra(p) \/ Propia(p) \/ Recupera(p)
      PROVE  Lee(p) \/ PasoDe(p)
  BY <1>2, Zenon DEF Administra, Propia, Recupera, Escribe, Avanza, PasoDe
<1> HIDE DEF Lee
<1>3. ASSUME NEW p \in Peticiones, Administra(p) \/ Propia(p) \/ Recupera(p)
      PROVE  PasoDe(p)
  BY <1>1, <1>2, <1>3 DEF PasoDe
<1> QED BY <1>3 DEF Next

\* One request moves at a time: it ends, or starts, or goes on with what it read.
Sucede(v, n) ==
    \/ n = [Libre EXCEPT !.op = "fin"]
    \/ v.op = "nada" /\ n.op # "nada"
    \/ v.op # "nada" /\ \E fase \in {"correo", "escribe", "alerta", "guarda"} : n = [v EXCEPT !.fase = fase]

\* A step of the system moves one request or none, and keeps their types.
LEMMA PeticionPaso ==
    ASSUME Tipos, Next
    PROVE  /\ peticion' \in [Peticiones -> Registros]
           /\ \/ UNCHANGED peticion
              \/ \E p \in Peticiones :
                   /\ \A q \in Peticiones \ {p} : peticion'[q] = peticion[q]
                   /\ Sucede(peticion[p], peticion'[p])
<1> USE EnBlanco, CuentaAssumption
<1> DEFINE G == /\ peticion' \in [Peticiones -> Registros]
                /\ \/ UNCHANGED peticion
                   \/ \E p \in Peticiones :
                        /\ \A q \in Peticiones \ {p} : peticion'[q] = peticion[q]
                        /\ Sucede(peticion[p], peticion'[p])
<1>t. peticion \in [Peticiones -> Registros] /\ cuenta \in [Cuentas -> Filas]
      /\ token \subseteq [de : Origen, c : Cuentas, nuevo : Emails, original : Emails]
      /\ Libre \in Registros /\ Libre.op = "nada"
  BY DEF Tipos
<1>1. ASSUME NEW p \in Peticiones, NEW n \in Registros,
             peticion' = [peticion EXCEPT ![p] = n], Sucede(peticion[p], n)
      PROVE  G
  BY <1>t, <1>1
<1>2. ASSUME NEW p \in Peticiones, Termina(p)
      PROVE  G
  <2>1. [Libre EXCEPT !.op = "fin"] \in Registros
    BY <1>t DEF Registros
  <2> QED BY <1>1, <1>2, <2>1 DEF Termina, Sucede
<1>3. ASSUME NEW p \in Peticiones, peticion[p].op # "nada",
             Pasa(p, "correo") \/ Pasa(p, "escribe") \/ Pasa(p, "alerta") \/ Pasa(p, "guarda")
      PROVE  G
  <2>1. PICK fase \in {"correo", "escribe", "alerta", "guarda"} :
          peticion' = [peticion EXCEPT ![p] = [peticion[p] EXCEPT !.fase = fase]]
    BY <1>3, <1>t DEF Pasa
  <2>2. [peticion[p] EXCEPT !.fase = fase] \in Registros
    BY <1>t DEF Registros
  <2>3. Sucede(peticion[p], [peticion[p] EXCEPT !.fase = fase])
    BY <1>3 DEF Sucede
  <2> QED BY <1>1, <2>1, <2>2, <2>3
<1>4. ASSUME NEW p \in Peticiones, NEW n \in Registros,
             Nueva(p), peticion' = [peticion EXCEPT ![p] = n], n.op # "nada"
      PROVE  G
  BY <1>1, <1>4 DEF Nueva, Sucede
<1> HIDE DEF G
<1>5. ASSUME NEW p \in Peticiones, Lectura(p)
      PROVE  G
  <2>1. PICK op \in {"alta", "editar", "reset", "resetTotp", "cambio", "qr", "totp", "correo", "codigo"},
             fase \in {"correo", "escribe", "audita"}, c \in Cuentas, e \in Emails :
          Nueva(p) /\ Empieza(p, op, fase, c, e)
    BY <1>5 DEF Lectura
  <2> DEFINE n == [Libre EXCEPT !.op = op, !.fase = fase, !.c = c, !.email = e, !.leida = cuenta[c]]
  <2>2. n \in Registros /\ n.op # "nada"
    BY <1>t DEF Registros
  <2>3. Nueva(p) /\ peticion' = [peticion EXCEPT ![p] = n]
    BY <2>1 DEF Empieza
  <2> HIDE DEF n
  <2> QED BY <1>4, <2>2, <2>3
<1>6. ASSUME NEW p \in Peticiones, NEW c \in Cuentas, Bloquear(p, c)
      PROVE  G
  <2> DEFINE n == [Libre EXCEPT !.op = "recupera", !.fase = "escribe", !.c = c,
                                !.email = cuenta[c].email, !.leida = cuenta[c]]
  <2>1. cuenta[c] \in Filas /\ cuenta[c].email \in Emails
    BY <1>t DEF Filas
  <2>2. n \in Registros /\ n.op # "nada"
    BY <1>t, <2>1 DEF Registros
  <2>3. Nueva(p) /\ peticion' = [peticion EXCEPT ![p] = n]
    BY <1>6 DEF Bloquear, Empieza
  <2> HIDE DEF n
  <2> QED BY <1>4, <2>2, <2>3
<1>7. ASSUME NEW p \in Peticiones, NEW t \in token, ConfirmarEmail(p, t)
      PROVE  G
  <2> DEFINE n == [Libre EXCEPT !.op = "confirma", !.fase = "consume", !.c = t.c,
                                !.email = t.nuevo, !.leida.email = t.original, !.de = t.de]
  <2>1. t.c \in Cuentas /\ t.nuevo \in Emails /\ t.original \in Emails /\ t.de \in Origen
    BY <1>t
  <2>2. [Libre.leida EXCEPT !.email = t.original] \in Filas
    BY <1>t, <2>1 DEF Registros, Filas
  <2>3. n \in Registros /\ n.op # "nada"
    BY <1>t, <2>1, <2>2 DEF Registros
  <2>4. Nueva(p) /\ peticion' = [peticion EXCEPT ![p] = n]
    BY <1>7 DEF ConfirmarEmail
  <2> HIDE DEF n
  <2> QED BY <1>4, <2>3, <2>4
<1>8. ASSUME NEW p \in Peticiones, Escribe(p)
      PROVE  G
  BY <1>2, <1>8 DEF Escribe, Insertar, Editar, AplicarReset, AplicarResetTotp, AplicarCambio,
     GuardarSecreto, Vincular, ConfirmarCambioEmail
<1>9. ASSUME NEW p \in Peticiones, Avanza(p)
      PROVE  G
  <2>1. CASE EnviarCredenciales(p) \/ AuditarSolicitud(p) \/ AlertarCambio(p) \/ GuardarToken(p)
    BY <1>2, <1>3, <2>1 DEF EnviarCredenciales, AuditarSolicitud, AlertarCambio, GuardarToken, En
  <2>2. CASE EnviarToken(p) \/ ConsumirToken(p) \/ EnviarCodigo(p)
    BY <1>2, <1>3, <2>2 DEF EnviarToken, ConsumirToken, EnviarCodigo, En
  <2> QED BY <1>9, <2>1, <2>2 DEF Avanza
<1>10. ASSUME NEW p \in Peticiones, ActualizarCodigoRecuperacion(p)
       PROVE  G
  BY <1>3, <1>10 DEF ActualizarCodigoRecuperacion, En
<1>11. ASSUME NEW p \in Peticiones, NEW acierta \in BOOLEAN, ConfirmarRecuperacion(p, acierta)
       PROVE  G
  BY <1>2, <1>11 DEF ConfirmarRecuperacion
<1>12. ASSUME NEW p \in Peticiones, NEW c \in Cuentas, EliminarUsuario(p, c)
       PROVE  G
  BY <1>2, <1>12 DEF EliminarUsuario, Termina
<1>13. ASSUME UNCHANGED peticion
       PROVE  G
  BY <1>t, <1>13 DEF G
<1>14. ASSUME VenceToken \/ \E c \in Cuentas : VenceCodigo(c)
       PROVE  G
  BY <1>13, <1>14 DEF VenceToken, VenceCodigo, resto
<1>15. G
  <2>1. ASSUME NEW p \in Peticiones,
               \/ \E c \in Cuentas : EliminarUsuario(p, c) \/ Bloquear(p, c)
               \/ \E t \in token : ConfirmarEmail(p, t)
               \/ \E acierta \in BOOLEAN : ConfirmarRecuperacion(p, acierta)
        PROVE  G
    BY <1>6, <1>7, <1>11, <1>12, <2>1
  <2>2. ASSUME NEW p \in Peticiones,
               Lectura(p) \/ Escribe(p) \/ Avanza(p) \/ ActualizarCodigoRecuperacion(p)
        PROVE  G
    BY <1>5, <1>8, <1>9, <1>10, <2>2
  <2>3. ASSUME NEW p \in Peticiones, PasoDe(p)
        PROVE  G
    BY <2>1, <2>2, <2>3 DEF PasoDe
  <2> QED BY <1>14, <2>3, Pasos
<1> QED BY <1>15 DEF G

-----------------------------------------------------------------------------
(* What a step does to the rows *)

\* Actualizar touches one row, and leaves in it what it held or what it was given.
LEMMA ActualizarFila ==
    ASSUME Tipos, NEW d \in Cuentas, NEW fila \in Filas, Actualizar(d, fila)
    PROVE  /\ cuenta' \in [Cuentas -> Filas]
           /\ \A c \in Cuentas \ {d} : cuenta'[c] = cuenta[c]
           /\ cuenta'[d] = cuenta[d] \/ (cuenta'[d] = fila /\ cuenta[d].est \in {"activa", "suspendida"})
BY DEF Actualizar, Viva, Tipos

\* The second half of a recovery, over what it read: there is no code; the code
\* goes; a wrong try counts; or a right one gives the account its new password.
LEMMA RecuperacionPaso ==
    ASSUME Tipos, NEW p \in Peticiones, NEW acierta \in BOOLEAN, ConfirmarRecuperacion(p, acierta)
    PROVE  LET c == peticion[p].c
               f == peticion[p].leida
               k == f.codigo
           IN /\ cuenta' \in [Cuentas -> Filas]
              /\ \A d \in Cuentas \ {c} : cuenta'[d] = cuenta[d]
              /\ cuenta'[c].est = cuenta[c].est
              /\ cuenta'[c].codigo \in {cuenta[c].codigo, Nadie, k}
              /\ \/ UNCHANGED <<cuenta, usos>>
                 \/ /\ k # Nadie /\ UNCHANGED usos
                    /\ cuenta'[c].codigo = Nadie
                    /\ cuenta'[c].clave = f.clave /\ cuenta'[c].temporal = f.temporal
                 \/ /\ k # Nadie /\ f.intentos < MaxIntentos /\ usos' = [usos EXCEPT ![k].mal = @ + 1]
                    /\ cuenta'[c].intentos = f.intentos + 1
                    /\ f.intentos + 1 >= MaxIntentos => cuenta'[c].codigo = Nadie
                    /\ f.intentos + 1 < MaxIntentos => cuenta'[c].codigo = k
                    /\ cuenta'[c].clave = f.clave /\ cuenta'[c].temporal = f.temporal
                 \/ /\ k # Nadie /\ usos' = [usos EXCEPT ![k].bien = @ + 1]
                    /\ cuenta'[c].codigo = Nadie /\ cuenta'[c].temporal = FALSE
<1> DEFINE c == peticion[p].c
           f == peticion[p].leida
           k == f.codigo
           Fila(g) == [cuenta[c] EXCEPT !.codigo = g.codigo, !.vence = g.vence, !.intentos = g.intentos,
                                        !.clave = g.clave, !.temporal = g.temporal]
           cuenta2(g) == cuenta' = [cuenta EXCEPT ![c] = Fila(g)]
           usada == [SinCodigo(f) EXCEPT !.clave = p, !.temporal = FALSE, !.intentos = 0]
<1>t. c \in Cuentas /\ f \in Filas /\ cuenta \in [Cuentas -> Filas]
  BY DEF Tipos, Registros
<1>f. /\ f.codigo \in Origen \cup {Nadie} /\ f.intentos \in Nat
      /\ f.temporal \in BOOLEAN /\ f.clave \in Origen
  BY <1>t DEF Filas
<1>1. ASSUME NEW g \in Filas, cuenta2(g)
      PROVE  /\ cuenta' \in [Cuentas -> Filas]
             /\ \A d \in Cuentas \ {c} : cuenta'[d] = cuenta[d]
             /\ cuenta'[c].est = cuenta[c].est
             /\ cuenta'[c].codigo = g.codigo /\ cuenta'[c].intentos = g.intentos
             /\ cuenta'[c].clave = g.clave /\ cuenta'[c].temporal = g.temporal
  <2>1. Fila(g) \in Filas /\ Fila(g).est = cuenta[c].est /\ Fila(g).codigo = g.codigo
        /\ Fila(g).intentos = g.intentos /\ Fila(g).clave = g.clave /\ Fila(g).temporal = g.temporal
    BY <1>t DEF Filas
  <2>2. cuenta' = [cuenta EXCEPT ![c] = Fila(g)]
    BY <1>1
  <2> HIDE DEF Fila
  <2> QED BY <1>t, <2>1, <2>2
<1>2. /\ SinCodigo(f) \in Filas /\ SinCodigo(f).codigo = Nadie
      /\ SinCodigo(f).clave = f.clave /\ SinCodigo(f).temporal = f.temporal
  BY <1>t, FilaErrada
<1>3. usada \in Filas /\ usada.codigo = Nadie /\ usada.temporal = FALSE
  <2> DEFINE s == SinCodigo(f)
  <2>1. s \in Filas /\ s.codigo = Nadie /\ p \in Origen
    BY <1>2, CuentaAssumption DEF Peticiones, Origen
  <2> HIDE DEF s
  <2>2. [s EXCEPT !.clave = p, !.temporal = FALSE, !.intentos = 0] \in Filas
    BY <2>1 DEF Filas
  <2>3. [s EXCEPT !.clave = p, !.temporal = FALSE, !.intentos = 0].codigo = Nadie
    BY <2>1 DEF Filas
  <2>4. [s EXCEPT !.clave = p, !.temporal = FALSE, !.intentos = 0].temporal = FALSE
    BY <2>1 DEF Filas
  <2> QED BY <2>2, <2>3, <2>4 DEF s
<1>4. /\ Errado(f) \in Filas /\ Errado(f).intentos = f.intentos + 1
      /\ Errado(f).clave = f.clave /\ Errado(f).temporal = f.temporal
      /\ f.intentos + 1 >= MaxIntentos => Errado(f).codigo = Nadie
      /\ f.intentos + 1 < MaxIntentos => Errado(f).codigo = f.codigo
  BY <1>t, FilaErrada
<1>5. \/ UNCHANGED <<cuenta, usos>>
      \/ k # Nadie /\ cuenta2(SinCodigo(f)) /\ UNCHANGED usos
      \/ k # Nadie /\ f.intentos < MaxIntentos /\ cuenta2(Errado(f)) /\ usos' = [usos EXCEPT ![k].mal = @ + 1]
      \/ k # Nadie /\ cuenta2(usada) /\ usos' = [usos EXCEPT ![k].bien = @ + 1]
  <2> DEFINE U == UNCHANGED <<cuenta, usos>>
             V == cuenta2(SinCodigo(f)) /\ UNCHANGED usos
             W == cuenta2(Errado(f)) /\ usos' = [usos EXCEPT ![k].mal = @ + 1]
             X == cuenta2(usada) /\ usos' = [usos EXCEPT ![k].bien = @ + 1]
  <2>1. (CASE k = Nadie -> U
          [] k # Nadie /\ f.intentos >= MaxIntentos -> V
          [] k # Nadie /\ f.intentos < MaxIntentos /\ ~acierta -> W
          [] k # Nadie /\ f.intentos < MaxIntentos /\ acierta /\ f.vence -> V
          [] OTHER -> X \/ U)
    BY Zenon DEF ConfirmarRecuperacion
  <2> HIDE DEF U, V, W, X
  <2>2. U \/ (k # Nadie /\ V) \/ (k # Nadie /\ f.intentos < MaxIntentos /\ W) \/ (k # Nadie /\ X)
    BY <2>1, Zenon
  <2> QED BY <2>2, Zenon DEF U, V, W, X
<1>6. CASE UNCHANGED <<cuenta, usos>>
  BY <1>6, <1>t
<1>7. CASE k # Nadie /\ cuenta2(SinCodigo(f)) /\ UNCHANGED usos
  <2> HIDE DEF cuenta2
  <2> QED BY <1>7, <1>1, <1>2
<1>8. CASE k # Nadie /\ f.intentos < MaxIntentos /\ cuenta2(Errado(f)) /\ usos' = [usos EXCEPT ![k].mal = @ + 1]
  <2> HIDE DEF cuenta2
  <2> QED BY <1>8, <1>1, <1>4, <1>f, CuentaAssumption
<1>9. CASE k # Nadie /\ cuenta2(usada) /\ usos' = [usos EXCEPT ![k].bien = @ + 1]
  <2> HIDE DEF cuenta2, usada
  <2> QED BY <1>9, <1>1, <1>3
<1> QED BY <1>5, <1>6, <1>7, <1>8, <1>9

\* What can happen to the password and the code of row c in one step: nothing;
\* or a request that may write the row gives it a temporary password, takes the
\* temporary mark off, takes the code off, or gives it its own new code; or a
\* recovery ends.  Only an INSERT does not look at the lock, and the row it
\* writes did not exist.
Igual(c) == /\ cuenta'[c].codigo = cuenta[c].codigo /\ cuenta'[c].intentos = cuenta[c].intentos
            /\ cuenta'[c].clave = cuenta[c].clave /\ cuenta'[c].temporal = cuenta[c].temporal
MismoCodigo(c) == cuenta'[c].codigo = cuenta[c].codigo /\ cuenta'[c].intentos = cuenta[c].intentos
Nace(c, p) ==
    /\ En(p, "alta", "escribe") /\ cuenta[c].est = "nada"
    /\ cuenta'[c].codigo = Nadie /\ cuenta'[c].clave = p
Renueva(c, p) ==
    /\ En(p, "reset", "escribe") /\ MismoCodigo(c) /\ cuenta'[c].clave = p
Cambia(c, p) ==
    MismoCodigo(c) /\ cuenta'[c].temporal = FALSE
Olvida(c) ==
    cuenta'[c].codigo = Nadie /\ cuenta'[c].clave = cuenta[c].clave /\ cuenta'[c].temporal = cuenta[c].temporal
Estrena(c, p) ==
    /\ En(p, "codigo", "escribe") /\ En(p, "codigo", "correo")'
    /\ cuenta'[c].codigo = p /\ cuenta'[c].intentos = 0
    /\ cuenta'[c].clave = cuenta[c].clave /\ cuenta'[c].temporal = cuenta[c].temporal
Recobra(c, p) == c = peticion[p].c /\ \E acierta \in BOOLEAN : ConfirmarRecuperacion(p, acierta)
Escrita(c, p) ==
    /\ Suelta(c, p) /\ peticion'[p].op # "recupera"
    /\ Renueva(c, p) \/ Cambia(c, p) \/ Olvida(c) \/ Estrena(c, p)

\* Those are all the ways in which a step changes the rows.
LEMMA FilaPaso ==
    ASSUME Tipos, Next
    PROVE  /\ cuenta' \in [Cuentas -> Filas]
           /\ \A c \in Cuentas :
                /\ cuenta'[c].est = "nada" => cuenta[c].est = "nada"
                /\ Igual(c) \/ \E p \in Peticiones : Nace(c, p) \/ Escrita(c, p) \/ Recobra(c, p)
<1> DEFINE H(c) == /\ cuenta'[c].est = "nada" => cuenta[c].est = "nada"
                   /\ Igual(c) \/ \E p \in Peticiones : Nace(c, p) \/ Escrita(c, p) \/ Recobra(c, p)
           G == cuenta' \in [Cuentas -> Filas] /\ \A c \in Cuentas : H(c)
<1>t. /\ cuenta \in [Cuentas -> Filas] /\ peticion \in [Peticiones -> Registros]
      /\ SinFila \in Filas /\ SinFila.est = "nada" /\ SinFila.codigo = Nadie
      /\ Libre \in Registros /\ Libre.op = "nada"
      /\ Peticiones \subseteq Origen
  <2>1. Peticiones \subseteq Origen
    BY CuentaAssumption DEF Peticiones, Origen
  <2> QED BY <2>1, EnBlanco DEF Tipos
<1>f. \A p \in Peticiones : peticion[p].c \in Cuentas /\ peticion[p].email \in Emails
                            /\ peticion[p].leida \in Filas
  BY <1>t DEF Registros
<1>r. \A p \in Peticiones : Termina(p) => peticion'[p].op = "fin"
  BY <1>t DEF Termina, Registros
<1>1. ASSUME UNCHANGED cuenta
      PROVE  G
  BY <1>1, <1>t DEF Igual
\* One row, written by p.
<1>2. ASSUME NEW p \in Peticiones, NEW d \in Cuentas, NEW fila \in Filas,
             cuenta' = [cuenta EXCEPT ![d] = fila],
             fila.est = "nada" => cuenta[d].est = "nada",
             \/ /\ fila.codigo = cuenta[d].codigo /\ fila.intentos = cuenta[d].intentos
                /\ fila.clave = cuenta[d].clave /\ fila.temporal = cuenta[d].temporal
             \/ Nace(d, p) \/ Escrita(d, p)
      PROVE  G
  <2>1. \A c \in Cuentas \ {d} : cuenta'[c] = cuenta[c]
    BY <1>2, <1>t
  <2>2. cuenta'[d] = fila /\ cuenta' \in [Cuentas -> Filas]
    BY <1>2, <1>t
  <2>3. \A c \in Cuentas \ {d} : H(c)
    BY <2>1 DEF Igual
  <2>4. H(d)
    BY <2>2, <1>2 DEF Igual
  <2> QED BY <2>2, <2>3, <2>4
<1>3. ASSUME NEW p \in Peticiones, Lectura(p) \/ Avanza(p)
      PROVE  G
  BY <1>1, <1>3 DEF Lectura, Avanza, EnviarCredenciales, AuditarSolicitud, AlertarCambio, GuardarToken,
     EnviarToken, ConsumirToken, EnviarCodigo
<1>4. ASSUME NEW p \in Peticiones, Insertar(p)
      PROVE  G
  <2> DEFINE d == peticion[p].c
             fila == [SinFila EXCEPT !.est = "activa", !.email = peticion[p].email, !.clave = p, !.temporal = TRUE]
  <2>1. fila \in Filas /\ fila.est = "activa" /\ fila.codigo = Nadie /\ fila.clave = p
    BY <1>t, <1>f DEF Filas
  <2>2. d \in Cuentas /\ En(p, "alta", "escribe")
    BY <1>4, <1>f DEF Insertar
  <2>3. UNCHANGED cuenta \/ (cuenta[d].est = "nada" /\ cuenta' = [cuenta EXCEPT ![d] = fila])
    BY <1>4 DEF Insertar
  <2> HIDE DEF fila, d, G
  <2>4. CASE cuenta[d].est = "nada" /\ cuenta' = [cuenta EXCEPT ![d] = fila]
    <3>1. cuenta'[d] = fila
      BY <1>t, <2>2, <2>4
    <3>2. Nace(d, p)
      BY <2>1, <2>2, <2>4, <3>1 DEF Nace
    <3> QED BY <1>2, <2>1, <2>2, <2>4, <3>2
  <2> QED BY <2>3, <2>4, <1>1
<1>5. ASSUME NEW p \in Peticiones, NEW d \in Cuentas, NEW fila \in Filas,
             Actualizar(d, fila), fila.est # "nada",
             /\ fila.codigo = cuenta[d].codigo /\ fila.intentos = cuenta[d].intentos
             /\ fila.clave = cuenta[d].clave /\ fila.temporal = cuenta[d].temporal
      PROVE  G
  <2> HIDE DEF G
  <2> QED BY <1>1, <1>2, <1>5 DEF Actualizar
<1>6. ASSUME NEW p \in Peticiones, Editar(p)
      PROVE  G
  <2> DEFINE d == peticion[p].c
             e == peticion[p].email
  <2>1. d \in Cuentas /\ e \in Emails /\ cuenta[d] \in Filas
    BY <1>f, <1>t
  <2>2. \/ Actualizar(d, [cuenta[d] EXCEPT !.email = e])
        \/ \E est \in {"activa", "suspendida"} : Actualizar(d, [cuenta[d] EXCEPT !.est = est])
    BY <1>6 DEF Editar
  <2> HIDE DEF d, e, G
  <2>3. CASE Actualizar(d, [cuenta[d] EXCEPT !.email = e])
    <3> DEFINE fila == [cuenta[d] EXCEPT !.email = e]
    <3>1. /\ fila \in Filas /\ fila.est = cuenta[d].est
          /\ fila.codigo = cuenta[d].codigo /\ fila.intentos = cuenta[d].intentos
          /\ fila.clave = cuenta[d].clave /\ fila.temporal = cuenta[d].temporal
      BY <2>1 DEF Filas
    <3>2. Actualizar(d, fila)
      BY <2>3
    <3> HIDE DEF fila
    <3> QED BY <1>1, <1>5, <2>1, <3>1, <3>2 DEF Actualizar, Viva
  <2>4. ASSUME NEW est \in {"activa", "suspendida"}, Actualizar(d, [cuenta[d] EXCEPT !.est = est])
        PROVE  G
    <3> DEFINE fila == [cuenta[d] EXCEPT !.est = est]
    <3>1. /\ fila \in Filas /\ fila.est # "nada"
          /\ fila.codigo = cuenta[d].codigo /\ fila.intentos = cuenta[d].intentos
          /\ fila.clave = cuenta[d].clave /\ fila.temporal = cuenta[d].temporal
      BY <2>1 DEF Filas
    <3>2. Actualizar(d, fila)
      BY <2>4
    <3> HIDE DEF fila
    <3> QED BY <1>5, <2>1, <3>1, <3>2
  <2> QED BY <2>2, <2>3, <2>4
<1>7. ASSUME NEW p \in Peticiones, AplicarReset(p) \/ AplicarCambio(p)
      PROVE  G
  <2> DEFINE d == peticion[p].c
             fila(t) == [cuenta[d] EXCEPT !.clave = p, !.temporal = t]
  <2>1. d \in Cuentas /\ cuenta[d] \in Filas /\ p \in Origen /\ Suelta(d, p) /\ peticion'[p].op = "fin"
    BY <1>f, <1>t, <1>r, <1>7 DEF AplicarReset, AplicarCambio
  <2>2. ASSUME NEW t \in BOOLEAN
        PROVE  /\ fila(t) \in Filas /\ fila(t).est = cuenta[d].est /\ fila(t).codigo = cuenta[d].codigo
               /\ fila(t).intentos = cuenta[d].intentos /\ fila(t).clave = p /\ fila(t).temporal = t
    BY <2>1 DEF Filas
  <2>3. PICK t \in BOOLEAN : Actualizar(d, fila(t)) /\ (t => En(p, "reset", "escribe"))
    BY <1>7 DEF AplicarReset, AplicarCambio
  <2> HIDE DEF fila, d, G
  <2>4. CASE cuenta' = [cuenta EXCEPT ![d] = fila(t)]
    <3>1. cuenta'[d] = fila(t)
      BY <1>t, <2>1, <2>4
    <3>2. Renueva(d, p) \/ Cambia(d, p)
      BY <2>2, <2>3, <3>1 DEF Renueva, Cambia, MismoCodigo
    <3>3. Escrita(d, p)
      BY <2>1, <3>2 DEF Escrita
    <3> QED BY <1>2, <2>1, <2>2, <2>4, <3>3
  <2> QED BY <1>1, <2>3, <2>4 DEF Actualizar
<1>8. ASSUME NEW p \in Peticiones, AplicarResetTotp(p) \/ GuardarSecreto(p) \/ Vincular(p)
      PROVE  G
  <2> DEFINE d == peticion[p].c
             fila(s, v) == [cuenta[d] EXCEPT !.secreto = s, !.vinculado = v]
  <2>1. d \in Cuentas /\ cuenta[d] \in Filas /\ p \in Origen /\ peticion[p].leida.secreto \in Origen \cup {Nadie}
    BY <1>f, <1>t DEF Filas
  <2>2. ASSUME NEW s \in Origen \cup {Nadie}, NEW v \in BOOLEAN
        PROVE  /\ fila(s, v) \in Filas /\ fila(s, v).est = cuenta[d].est /\ fila(s, v).codigo = cuenta[d].codigo
               /\ fila(s, v).intentos = cuenta[d].intentos /\ fila(s, v).clave = cuenta[d].clave
               /\ fila(s, v).temporal = cuenta[d].temporal
    BY <2>1 DEF Filas
  <2>3. UNCHANGED cuenta
        \/ \E s \in Origen \cup {Nadie}, v \in BOOLEAN : cuenta' = [cuenta EXCEPT ![d].secreto = s, ![d].vinculado = v]
    BY <1>8, <2>1 DEF AplicarResetTotp, GuardarSecreto, Vincular, ActualizarTotp
  <2> HIDE DEF d, G
  <2>4. ASSUME NEW s \in Origen \cup {Nadie}, NEW v \in BOOLEAN,
               cuenta' = [cuenta EXCEPT ![d].secreto = s, ![d].vinculado = v]
        PROVE  G
    <3>1. cuenta' = [cuenta EXCEPT ![d] = fila(s, v)]
      BY <1>t, <2>1, <2>4
    <3> HIDE DEF fila
    <3> QED BY <1>2, <2>1, <2>2, <3>1
  <2> QED BY <1>1, <2>3, <2>4
<1>9. ASSUME NEW p \in Peticiones, ConfirmarCambioEmail(p)
      PROVE  G
  <2> DEFINE d == peticion[p].c
             fila == [cuenta[d] EXCEPT !.email = peticion[p].email]
  <2>1. d \in Cuentas /\ cuenta[d] \in Filas /\ peticion[p].email \in Emails
    BY <1>f, <1>t
  <2>2. /\ fila \in Filas /\ fila.est = cuenta[d].est
        /\ fila.codigo = cuenta[d].codigo /\ fila.intentos = cuenta[d].intentos
        /\ fila.clave = cuenta[d].clave /\ fila.temporal = cuenta[d].temporal
    BY <2>1 DEF Filas
  <2>3. UNCHANGED cuenta \/ Actualizar(d, fila)
    BY <1>9 DEF ConfirmarCambioEmail
  <2> HIDE DEF fila, d, G
  <2> QED BY <1>1, <1>5, <2>1, <2>2, <2>3 DEF Actualizar, Viva
<1>10. ASSUME NEW p \in Peticiones, NEW d \in Cuentas, EliminarUsuario(p, d)
       PROVE  G
  <2> DEFINE fila == [cuenta[d] EXCEPT !.est = "eliminada", !.codigo = Nadie, !.vence = FALSE, !.intentos = 0]
  <2>1. fila \in Filas /\ fila.est = "eliminada" /\ fila.codigo = Nadie
        /\ fila.clave = cuenta[d].clave /\ fila.temporal = cuenta[d].temporal
    BY <1>t DEF Filas
  <2>2. UNCHANGED cuenta \/ cuenta' = [cuenta EXCEPT ![d] = fila]
    BY <1>10 DEF EliminarUsuario
  <2>3. Suelta(d, p) /\ peticion'[p].op = "fin"
    BY <1>10, <1>r DEF EliminarUsuario, Termina
  <2> HIDE DEF fila, G
  <2>4. CASE cuenta' = [cuenta EXCEPT ![d] = fila]
    <3>1. cuenta'[d] = fila
      BY <1>t, <2>4
    <3>2. Escrita(d, p)
      BY <2>1, <2>3, <3>1 DEF Escrita, Olvida
    <3> QED BY <1>2, <2>1, <2>4, <3>2
  <2> QED BY <1>1, <2>2, <2>4
<1>11. ASSUME NEW p \in Peticiones, ActualizarCodigoRecuperacion(p)
       PROVE  G
  <2> DEFINE d == peticion[p].c
             fila == [cuenta[d] EXCEPT !.codigo = p, !.vence = FALSE, !.intentos = 0]
  <2>1. d \in Cuentas /\ cuenta[d] \in Filas /\ p \in Origen
    BY <1>f, <1>t
  <2>2. fila \in Filas /\ fila.est = cuenta[d].est /\ fila.codigo = p /\ fila.intentos = 0
        /\ fila.clave = cuenta[d].clave /\ fila.temporal = cuenta[d].temporal
    BY <2>1 DEF Filas
  <2>3. /\ cuenta' = [cuenta EXCEPT ![d] = fila]
        /\ Suelta(d, p) /\ En(p, "codigo", "escribe") /\ peticion' = [peticion EXCEPT ![p].fase = "correo"]
    BY <1>11 DEF ActualizarCodigoRecuperacion, Pasa
  <2>4. peticion[p] \in Registros /\ peticion[p].op = "codigo"
    BY <1>t, <2>3 DEF En
  <2>5. peticion'[p].op = "codigo" /\ peticion'[p].fase = "correo"
    BY <1>t, <2>3, <2>4 DEF Registros
  <2> HIDE DEF fila, d, G
  <2>6. cuenta'[d] = fila
    BY <1>t, <2>1, <2>3
  <2>7. Estrena(d, p)
    BY <2>2, <2>3, <2>5, <2>6 DEF Estrena, En
  <2>8. Escrita(d, p)
    BY <2>3, <2>5, <2>7 DEF Escrita
  <2> QED BY <1>2, <2>1, <2>2, <2>3, <2>8
<1>12. ASSUME NEW p \in Peticiones, NEW acierta \in BOOLEAN, ConfirmarRecuperacion(p, acierta)
       PROVE  G
  <2> DEFINE d == peticion[p].c
  <2>1. /\ cuenta' \in [Cuentas -> Filas] /\ \A c \in Cuentas \ {d} : cuenta'[c] = cuenta[c]
        /\ cuenta'[d].est = cuenta[d].est
    BY <1>12, RecuperacionPaso
  <2>2. Recobra(d, p)
    BY <1>12 DEF Recobra
  <2> HIDE DEF d
  <2> QED BY <2>1, <2>2 DEF Igual
<1>13. ASSUME NEW d \in Cuentas, VenceCodigo(d)
       PROVE  G
  <2> DEFINE fila == [cuenta[d] EXCEPT !.vence = TRUE]
  <2>1. fila \in Filas /\ fila.est = cuenta[d].est
        /\ fila.codigo = cuenta[d].codigo /\ fila.intentos = cuenta[d].intentos
        /\ fila.clave = cuenta[d].clave /\ fila.temporal = cuenta[d].temporal
    BY <1>t DEF Filas
  <2>2. cuenta' = [cuenta EXCEPT ![d] = fila]
    BY <1>13 DEF VenceCodigo
  <2> HIDE DEF fila
  <2>3. \A c \in Cuentas \ {d} : cuenta'[c] = cuenta[c]
    BY <2>2, <1>t
  <2> QED BY <1>t, <2>1, <2>2, <2>3 DEF Igual
<1> HIDE DEF G
<1>14. ASSUME NEW p \in Peticiones, PasoDe(p)
       PROVE  G
  <2>1. CASE Escribe(p)
    BY <1>4, <1>6, <1>7, <1>8, <1>9, <2>1 DEF Escribe
  <2>2. CASE \E c \in Cuentas : EliminarUsuario(p, c) \/ Bloquear(p, c)
    BY <1>1, <1>10, <2>2 DEF Bloquear
  <2>3. CASE \E t \in token : ConfirmarEmail(p, t)
    BY <1>1, <2>3 DEF ConfirmarEmail
  <2> QED BY <1>3, <1>11, <1>12, <1>14, <2>1, <2>2, <2>3 DEF PasoDe
<1>15. ASSUME VenceToken
       PROVE  G
  BY <1>1, <1>15 DEF VenceToken
<1>16. G
  BY <1>13, <1>14, <1>15, Pasos
<1> QED BY <1>16 DEF G

-----------------------------------------------------------------------------
(* What a step does to the requests and to the rest *)

\* A request that goes on with what it read, in another phase.
Prosigue(p, op, antes, luego) ==
    /\ peticion[p].op = op /\ peticion[p].fase = antes
    /\ peticion'[p].op = op /\ peticion'[p].fase = luego
    /\ peticion'[p].c = peticion[p].c /\ peticion'[p].leida = peticion[p].leida
    /\ peticion'[p].de = peticion[p].de
Empezada(p) ==
    /\ Lectura(p) /\ peticion'[p].op \notin {"nada", "fin", "recupera", "confirma"}
    /\ peticion'[p].op \in {"alta", "reset"} => peticion'[p].fase = "correo"
    /\ peticion'[p].op = "correo" => peticion'[p].fase = "audita"
    /\ peticion'[p].op = "codigo" => peticion'[p].fase = "escribe"
Acabada(p) == peticion'[p].op = "fin"
Bloqueante(p) == \E c \in Cuentas :
    Bloquear(p, c) /\ peticion'[p].op = "recupera" /\ peticion'[p].c = c /\ peticion'[p].leida = cuenta[c]
Confirmante(p) == \E t \in token :
    /\ ConfirmarEmail(p, t) /\ peticion'[p].op = "confirma"
    /\ peticion'[p].de = t.de /\ peticion'[p].leida.email = t.original

\* What a step of request p does to the request, and to it alone.
LEMMA Suerte ==
    ASSUME Tipos, NEW p \in Peticiones, PasoDe(p)
    PROVE  /\ \A q \in Peticiones \ {p} : peticion'[q] = peticion[q]
           /\ \/ Acabada(p) \/ Empezada(p) \/ Bloqueante(p) \/ Confirmante(p)
              \/ EnviarCredenciales(p) /\ Correo("clave", p, peticion[p].email)
                 /\ (Prosigue(p, "alta", "correo", "escribe") \/ Prosigue(p, "reset", "correo", "escribe"))
              \/ AuditarSolicitud(p) /\ auditadas' = auditadas \cup {p}
                 /\ Prosigue(p, "correo", "audita", "alerta")
              \/ AlertarCambio(p) /\ Correo("alerta", p, peticion[p].leida.email)
                 /\ Prosigue(p, "correo", "alerta", "guarda")
              \/ GuardarToken(p) /\ Prosigue(p, "correo", "guarda", "correo")
              \/ ConsumirToken(p) /\ Prosigue(p, "confirma", "consume", "escribe")
              \/ ActualizarCodigoRecuperacion(p) /\ Prosigue(p, "codigo", "escribe", "correo")
<1> USE EnBlanco
<1>t. peticion \in [Peticiones -> Registros] /\ cuenta \in [Cuentas -> Filas] /\ Libre \in Registros
      /\ Cuentas # {} /\ Emails # {}
      /\ token \subseteq [de : Origen, c : Cuentas, nuevo : Emails, original : Emails]
  BY DEF Tipos
<1> DEFINE Otras == \A q \in Peticiones \ {p} : peticion'[q] = peticion[q]
\* A request p that is n now.
<1>0. ASSUME NEW n, peticion' = [peticion EXCEPT ![p] = n]
      PROVE  Otras /\ peticion'[p] = n
  BY <1>0, <1>t
<1>1. ASSUME Termina(p)
      PROVE  Otras /\ Acabada(p)
  <2>1. [Libre EXCEPT !.op = "fin"].op = "fin"
    BY <1>t DEF Registros
  <2> QED BY <1>0, <1>1, <2>1 DEF Termina, Acabada
<1>2. ASSUME NEW op, NEW antes, NEW luego, En(p, op, antes), Pasa(p, luego)
      PROVE  Otras /\ Prosigue(p, op, antes, luego)
  <2>1. peticion' = [peticion EXCEPT ![p] = [peticion[p] EXCEPT !.fase = luego]]
    BY <1>2 DEF Pasa
  <2>2. peticion[p] \in Registros
    BY <1>t
  <2>3. /\ [peticion[p] EXCEPT !.fase = luego].op = peticion[p].op
        /\ [peticion[p] EXCEPT !.fase = luego].fase = luego
        /\ [peticion[p] EXCEPT !.fase = luego].c = peticion[p].c
        /\ [peticion[p] EXCEPT !.fase = luego].leida = peticion[p].leida
        /\ [peticion[p] EXCEPT !.fase = luego].de = peticion[p].de
    BY <2>2 DEF Registros
  <2> QED BY <1>0, <1>2, <2>1, <2>3 DEF En, Prosigue
<1> HIDE DEF Otras
<1>3. ASSUME Lectura(p)
      PROVE  Otras /\ Empezada(p)
  <2>1. PICK op \in {"alta", "editar", "reset", "resetTotp", "cambio", "qr", "totp", "correo", "codigo"},
             fase \in {"correo", "escribe", "audita"}, c \in Cuentas, e \in Emails :
          /\ Empieza(p, op, fase, c, e)
          /\ op \in {"alta", "reset"} => fase = "correo"
          /\ op = "correo" => fase = "audita"
          /\ op = "codigo" => fase = "escribe"
    BY <1>3 DEF Lectura
  <2> DEFINE n == [Libre EXCEPT !.op = op, !.fase = fase, !.c = c, !.email = e, !.leida = cuenta[c]]
  <2>2. n.op = op /\ n.fase = fase
    BY <1>t DEF Registros
  <2>3. peticion' = [peticion EXCEPT ![p] = n]
    BY <2>1 DEF Empieza
  <2> HIDE DEF n
  <2>4. Otras /\ peticion'[p] = n
    BY <1>0, <2>3
  <2> QED BY <1>3, <2>1, <2>2, <2>4 DEF Empezada
<1>4. ASSUME NEW c \in Cuentas, Bloquear(p, c)
      PROVE  Otras /\ Bloqueante(p)
  <2> DEFINE n == [Libre EXCEPT !.op = "recupera", !.fase = "escribe", !.c = c,
                                !.email = cuenta[c].email, !.leida = cuenta[c]]
  <2>1. n.op = "recupera" /\ n.c = c /\ n.leida = cuenta[c]
    BY <1>t DEF Registros
  <2>2. peticion' = [peticion EXCEPT ![p] = n]
    BY <1>4 DEF Bloquear, Empieza
  <2> HIDE DEF n
  <2> QED BY <1>0, <1>4, <2>1, <2>2 DEF Bloqueante
<1>5. ASSUME NEW t \in token, ConfirmarEmail(p, t)
      PROVE  Otras /\ Confirmante(p)
  <2> DEFINE n == [Libre EXCEPT !.op = "confirma", !.fase = "consume", !.c = t.c,
                                !.email = t.nuevo, !.leida.email = t.original, !.de = t.de]
  <2>1. Libre.leida \in Filas
    BY <1>t DEF Registros
  <2>2. [Libre.leida EXCEPT !.email = t.original].email = t.original
    BY <2>1 DEF Filas
  <2>3. n.op = "confirma" /\ n.de = t.de /\ n.leida.email = t.original
    BY <1>t, <2>2 DEF Registros
  <2>4. peticion' = [peticion EXCEPT ![p] = n]
    BY <1>5 DEF ConfirmarEmail
  <2> HIDE DEF n
  <2> QED BY <1>0, <1>5, <2>3, <2>4 DEF Confirmante
<1>6. ASSUME Escribe(p)
      PROVE  Termina(p)
  BY <1>6 DEF Escribe, Insertar, Editar, AplicarReset, AplicarResetTotp, AplicarCambio,
     GuardarSecreto, Vincular, ConfirmarCambioEmail
<1>7. ASSUME NEW c \in Cuentas, EliminarUsuario(p, c)
      PROVE  Termina(p)
  BY <1>7 DEF EliminarUsuario, Termina
<1>8. ASSUME NEW acierta \in BOOLEAN, ConfirmarRecuperacion(p, acierta)
      PROVE  Termina(p)
  BY <1>8 DEF ConfirmarRecuperacion
<1>9. CASE EnviarCredenciales(p)
  BY <1>1, <1>2, <1>9 DEF EnviarCredenciales, Otras
<1>10. CASE AuditarSolicitud(p)
  BY <1>1, <1>2, <1>10 DEF AuditarSolicitud, Otras
<1>11. CASE AlertarCambio(p)
  BY <1>1, <1>2, <1>11 DEF AlertarCambio, Otras
<1>12. CASE GuardarToken(p)
  BY <1>1, <1>2, <1>12 DEF GuardarToken, Otras
<1>13. CASE ConsumirToken(p)
  BY <1>1, <1>2, <1>13 DEF ConsumirToken, Otras
<1>14. CASE EnviarToken(p) \/ EnviarCodigo(p)
  BY <1>1, <1>14 DEF EnviarToken, EnviarCodigo, Otras
<1>15. CASE ActualizarCodigoRecuperacion(p)
  BY <1>2, <1>15 DEF ActualizarCodigoRecuperacion, Otras
<1>16. CASE Escribe(p)
  BY <1>1, <1>6, <1>16 DEF Otras
<1>17. CASE Lectura(p)
  BY <1>3, <1>17 DEF Otras
<1>18. CASE \E c \in Cuentas : EliminarUsuario(p, c) \/ Bloquear(p, c)
  BY <1>1, <1>4, <1>7, <1>18 DEF Otras
<1>19. CASE \E t \in token : ConfirmarEmail(p, t)
  BY <1>5, <1>19 DEF Otras
<1>20. CASE \E acierta \in BOOLEAN : ConfirmarRecuperacion(p, acierta)
  BY <1>1, <1>8, <1>20 DEF Otras
<1> QED BY <1>9, <1>10, <1>11, <1>12, <1>13, <1>14, <1>15, <1>16, <1>17, <1>18, <1>19, <1>20
        DEF PasoDe, Avanza

\* A request changes by its own step.
LEMMA Autor ==
    ASSUME Tipos, Next, NEW q \in Peticiones
    PROVE  peticion'[q] = peticion[q] \/ PasoDe(q)
<1>1. ASSUME NEW p \in Peticiones, PasoDe(p)
      PROVE  peticion'[q] = peticion[q] \/ PasoDe(q)
  BY <1>1, Suerte
<1>2. CASE VenceToken \/ \E c \in Cuentas : VenceCodigo(c)
  BY <1>2 DEF VenceToken, VenceCodigo
<1> QED BY <1>1, <1>2, Pasos

\* The lock is taken by a recovery and left by it; the counts move with a
\* recovery; mails and entries stay; a token comes from the request it names.
LEMMA RestoPaso ==
    ASSUME Tipos, Next
    PROVE  /\ \/ UNCHANGED bloqueo
              \/ \E p \in Peticiones, c \in Cuentas :
                    bloqueo[c] = Nadie /\ bloqueo' = [bloqueo EXCEPT ![c] = p]
              \/ \E p \in Peticiones : En(p, "recupera", "escribe") /\ Acabada(p)
                    /\ bloqueo' = [bloqueo EXCEPT ![peticion[p].c] = Nadie]
           /\ UNCHANGED usos \/ \E p \in Peticiones, acierta \in BOOLEAN : ConfirmarRecuperacion(p, acierta)
           /\ correos \subseteq correos' /\ auditadas \subseteq auditadas'
           /\ token' \subseteq token \/ \E p \in Peticiones :
                En(p, "correo", "guarda") /\ token' = token \cup
                    {[de |-> p, c |-> peticion[p].c, nuevo |-> peticion[p].email,
                      original |-> peticion[p].leida.email]}
<1> DEFINE B == \/ UNCHANGED bloqueo
                \/ \E p \in Peticiones, c \in Cuentas :
                      bloqueo[c] = Nadie /\ bloqueo' = [bloqueo EXCEPT ![c] = p]
                \/ \E p \in Peticiones : En(p, "recupera", "escribe") /\ Acabada(p)
                      /\ bloqueo' = [bloqueo EXCEPT ![peticion[p].c] = Nadie]
           U == UNCHANGED usos \/ \E p \in Peticiones, acierta \in BOOLEAN : ConfirmarRecuperacion(p, acierta)
           M == correos \subseteq correos' /\ auditadas \subseteq auditadas'
           K == token' \subseteq token \/ \E p \in Peticiones :
                  En(p, "correo", "guarda") /\ token' = token \cup
                      {[de |-> p, c |-> peticion[p].c, nuevo |-> peticion[p].email,
                        original |-> peticion[p].leida.email]}
<1>1. ASSUME NEW p \in Peticiones, Lectura(p)
      PROVE  B /\ U /\ M /\ K
  BY <1>1 DEF Lectura, resto
<1>2. ASSUME NEW p \in Peticiones, Escribe(p)
      PROVE  B /\ U /\ M /\ K
  BY <1>2 DEF Escribe, Insertar, Editar, AplicarReset, AplicarResetTotp, AplicarCambio,
     GuardarSecreto, Vincular, ConfirmarCambioEmail, resto
<1>3. ASSUME NEW p \in Peticiones, Avanza(p)
      PROVE  B /\ U /\ M /\ K
  BY <1>3 DEF Avanza, EnviarCredenciales, AuditarSolicitud, AlertarCambio, GuardarToken,
     EnviarToken, ConsumirToken, EnviarCodigo, Correo, En
<1>4. ASSUME NEW p \in Peticiones, ActualizarCodigoRecuperacion(p)
      PROVE  B /\ U /\ M /\ K
  BY <1>4 DEF ActualizarCodigoRecuperacion, resto
<1>5. ASSUME NEW p \in Peticiones, NEW c \in Cuentas, EliminarUsuario(p, c) \/ Bloquear(p, c)
      PROVE  B /\ U /\ M /\ K
  BY <1>5 DEF EliminarUsuario, Bloquear
<1>6. ASSUME NEW p \in Peticiones, NEW t \in token, ConfirmarEmail(p, t)
      PROVE  B /\ U /\ M /\ K
  BY <1>6 DEF ConfirmarEmail, resto
<1>7. ASSUME NEW p \in Peticiones, NEW acierta \in BOOLEAN, ConfirmarRecuperacion(p, acierta)
      PROVE  B /\ U /\ M /\ K
  <2>1. En(p, "recupera", "escribe") /\ bloqueo' = [bloqueo EXCEPT ![peticion[p].c] = Nadie]
        /\ UNCHANGED <<token, correos, auditadas>> /\ Termina(p)
    BY <1>7, Zenon DEF ConfirmarRecuperacion
  <2>2. Acabada(p)
    BY <2>1, EnBlanco DEF Termina, Acabada, Tipos, Registros
  <2> QED BY <1>7, <2>1, <2>2
<1>8. ASSUME VenceToken \/ \E c \in Cuentas : VenceCodigo(c)
      PROVE  B /\ U /\ M /\ K
  BY <1>8 DEF VenceToken, VenceCodigo, resto
<1> HIDE DEF B, U, M, K
<1>9. ASSUME NEW p \in Peticiones, PasoDe(p)
      PROVE  B /\ U /\ M /\ K
  BY <1>1, <1>2, <1>3, <1>4, <1>5, <1>6, <1>7, <1>9 DEF PasoDe
<1>10. B /\ U /\ M /\ K
  BY <1>8, <1>9, Pasos
<1> QED BY <1>10 DEF B, U, M, K

\* Every step keeps the types.
LEMMA TiposPaso ==
    ASSUME Tipos, Next
    PROVE  Tipos'
<1>1. /\ Cuentas # {} /\ Emails # {} /\ cuenta' \in [Cuentas -> Filas]
      /\ peticion' \in [Peticiones -> Registros]
  BY FilaPaso, PeticionPaso DEF Tipos
<1>2. bloqueo' \in [Cuentas -> Peticiones \cup {Nadie}]
  BY RestoPaso DEF Tipos
<1>3. token' \subseteq [de : Origen, c : Cuentas, nuevo : Emails, original : Emails]
  <2>1. ASSUME NEW p \in Peticiones
        PROVE  [de |-> p, c |-> peticion[p].c, nuevo |-> peticion[p].email,
                original |-> peticion[p].leida.email]
                 \in [de : Origen, c : Cuentas, nuevo : Emails, original : Emails]
    <3>1. p \in Origen
      BY CuentaAssumption DEF Peticiones, Origen
    <3> QED BY <3>1 DEF Tipos, Registros, Filas
  <2> HIDE DEF Peticiones
  <2> QED BY <2>1, RestoPaso DEF Tipos
<1>4. usos' \in [Origen -> [mal : Nat, bien : Nat]]
  <2>1. CASE UNCHANGED usos
    BY <2>1 DEF Tipos
  <2>2. ASSUME NEW p \in Peticiones, NEW acierta \in BOOLEAN, ConfirmarRecuperacion(p, acierta)
        PROVE  usos' \in [Origen -> [mal : Nat, bien : Nat]]
    <3> DEFINE k == peticion[p].leida.codigo
    <3>1. k \in Origen \cup {Nadie} /\ usos \in [Origen -> [mal : Nat, bien : Nat]]
      BY DEF Tipos, Registros, Filas
    <3>2. UNCHANGED usos \/ (k # Nadie /\ (usos' = [usos EXCEPT ![k].mal = @ + 1]
                                           \/ usos' = [usos EXCEPT ![k].bien = @ + 1]))
      BY <2>2, RecuperacionPaso
    <3> HIDE DEF k
    <3> QED BY <3>1, <3>2
  <2> QED BY <2>1, <2>2, RestoPaso
<1> QED BY <1>1, <1>2, <1>3, <1>4 DEF Tipos

-----------------------------------------------------------------------------
(* The recovery codes *)

\* A recovery keeps its lock, and under it what it read, until it ends.
LEMMA BajoBloqueoPaso ==
    ASSUME Tipos, Next, BajoBloqueo
    PROVE  BajoBloqueo'
<1> SUFFICES ASSUME NEW q \in Peticiones, peticion'[q].op = "recupera"
             PROVE  LET c == peticion'[q].c
                        f == peticion'[q].leida
                    IN /\ bloqueo'[c] = q /\ cuenta'[c].est # "nada"
                       /\ f.codigo = cuenta'[c].codigo /\ f.intentos = cuenta'[c].intentos
                       /\ f.clave = cuenta'[c].clave /\ f.temporal = cuenta'[c].temporal
  BY DEF BajoBloqueo
<1>t. /\ bloqueo \in [Cuentas -> Peticiones \cup {Nadie}] /\ peticion \in [Peticiones -> Registros]
      /\ cuenta \in [Cuentas -> Filas] /\ \A p \in Peticiones : peticion[p].c \in Cuentas
  BY DEF Tipos, Registros
<1>n. \A p \in Peticiones : p # Nadie
  BY CuentaAssumption DEF Peticiones, Nadie
<1> HIDE DEF Peticiones, Nadie
<1>1. CASE peticion'[q] = peticion[q]
  <2> DEFINE c == peticion[q].c
  <2>1. /\ peticion[q].op = "recupera" /\ c \in Cuentas
        /\ bloqueo[c] = q /\ cuenta[c].est # "nada"
        /\ peticion[q].leida.codigo = cuenta[c].codigo /\ peticion[q].leida.intentos = cuenta[c].intentos
        /\ peticion[q].leida.clave = cuenta[c].clave /\ peticion[q].leida.temporal = cuenta[c].temporal
    BY <1>1, <1>t DEF BajoBloqueo
  <2>2. ~Acabada(q)
    BY DEF Acabada
  <2>3. bloqueo'[c] = q
    <3>1. ASSUME NEW p \in Peticiones, En(p, "recupera", "escribe"), Acabada(p)
          PROVE  peticion[p].c # c
      BY <2>1, <2>2, <3>1 DEF BajoBloqueo, En
    <3> HIDE DEF c
    <3>2. ASSUME NEW p \in Peticiones, En(p, "recupera", "escribe"), Acabada(p),
                 bloqueo' = [bloqueo EXCEPT ![peticion[p].c] = Nadie]
          PROVE  bloqueo'[c] = q
      BY <1>t, <2>1, <3>1, <3>2
    <3>3. ASSUME NEW p \in Peticiones, NEW d \in Cuentas, bloqueo[d] = Nadie,
                 bloqueo' = [bloqueo EXCEPT ![d] = p]
          PROVE  bloqueo'[c] = q
      BY <1>t, <1>n, <2>1, <3>3
    <3> QED BY <2>1, <3>2, <3>3, RestoPaso
  <2>4. Igual(c) /\ cuenta'[c].est # "nada"
    <3>1. cuenta'[c].est = "nada" => cuenta[c].est = "nada"
      BY FilaPaso, <2>1
    <3>2. Igual(c) \/ \E p \in Peticiones : Nace(c, p) \/ Escrita(c, p) \/ Recobra(c, p)
      BY FilaPaso, <2>1
    <3>3. ASSUME NEW p \in Peticiones, Nace(c, p)
          PROVE  FALSE
      BY <2>1, <3>3 DEF Nace
    <3>4. ASSUME NEW p \in Peticiones, Escrita(c, p)
          PROVE  FALSE
      BY <1>n, <2>1, <3>4 DEF Escrita, Suelta
    <3>5. ASSUME NEW p \in Peticiones, Recobra(c, p)
          PROVE  FALSE
      <4>1. PICK acierta \in BOOLEAN : c = peticion[p].c /\ ConfirmarRecuperacion(p, acierta)
        BY <3>5 DEF Recobra
      <4>2. En(p, "recupera", "escribe") /\ Termina(p)
        BY <4>1, Zenon DEF ConfirmarRecuperacion
      <4>3. p = q
        BY <2>1, <4>1, <4>2 DEF BajoBloqueo, En
      <4> QED BY <1>t, <4>2, <4>3, EnBlanco DEF Termina, Tipos, Registros
    <3> QED BY <2>1, <3>1, <3>2, <3>3, <3>4, <3>5
  <2> QED BY <1>1, <2>1, <2>3, <2>4 DEF Igual
<1>2. CASE PasoDe(q)
  <2>1. Bloqueante(q) \/ peticion'[q] = peticion[q]
    BY <1>2, Suerte DEF Acabada, Empezada, Confirmante, Prosigue
  <2>2. CASE Bloqueante(q)
    <3>1. PICK c \in Cuentas :
            Bloquear(q, c) /\ peticion'[q].op = "recupera" /\ peticion'[q].c = c /\ peticion'[q].leida = cuenta[c]
      BY <2>2 DEF Bloqueante
    <3>2. bloqueo' = [bloqueo EXCEPT ![c] = q] /\ UNCHANGED cuenta /\ cuenta[c].est # "nada"
      BY <3>1 DEF Bloquear, Viva
    <3> QED BY <1>t, <3>1, <3>2
  <2> QED BY <1>1, <2>1, <2>2
<1> QED BY <1>1, <1>2, Autor

\* A code that no request has written is in no row and has no uses.
LEMMA CodigoNuevoPaso ==
    ASSUME Tipos, Next, BajoBloqueo, CodigoNuevo
    PROVE  CodigoNuevo'
<1> SUFFICES ASSUME NEW k \in Origen, SinEstrenar(k)'
             PROVE  /\ usos'[k].mal = 0 /\ usos'[k].bien = 0
                    /\ \A c \in Cuentas : cuenta'[c].codigo # k
  BY DEF CodigoNuevo
<1>t. /\ peticion \in [Peticiones -> Registros] /\ usos \in [Origen -> [mal : Nat, bien : Nat]]
      /\ \A p \in Peticiones : peticion[p].c \in Cuentas
  BY DEF Tipos, Registros
<1>n. k \in Peticiones /\ k # Nadie
  BY CuentaAssumption DEF Peticiones, Nadie, SinEstrenar
<1>1. SinEstrenar(k)
  <2>1. CASE peticion'[k] = peticion[k]
    BY <2>1 DEF SinEstrenar, En
  <2>2. CASE PasoDe(k)
    <3>1. Empezada(k) \/ peticion[k].op = "nada"
      BY <2>2, <1>n, Suerte DEF Acabada, Bloqueante, Confirmante, Prosigue, SinEstrenar, En
    <3>2. peticion[k].op = "nada"
      BY <3>1 DEF Empezada, Lectura, Nueva
    <3> QED BY <1>n, <3>2 DEF SinEstrenar
  <2> QED BY <1>n, <2>1, <2>2, Autor
<1>2. usos[k].mal = 0 /\ usos[k].bien = 0 /\ \A c \in Cuentas : cuenta[c].codigo # k
  BY <1>1 DEF CodigoNuevo
<1>3. ASSUME NEW p \in Peticiones, En(p, "recupera", "escribe")
      PROVE  peticion[p].leida.codigo # k
  BY <1>t, <1>2, <1>3 DEF BajoBloqueo, En
<1>4. usos'[k] = usos[k]
  <2>1. ASSUME NEW p \in Peticiones, NEW acierta \in BOOLEAN, ConfirmarRecuperacion(p, acierta)
        PROVE  usos'[k] = usos[k]
    <3> DEFINE j == peticion[p].leida.codigo
    <3>1. En(p, "recupera", "escribe")
      BY <2>1, Zenon DEF ConfirmarRecuperacion
    <3>2. j # k
      BY <1>3, <3>1
    <3>3. UNCHANGED usos \/ usos' = [usos EXCEPT ![j].mal = @ + 1]
                         \/ usos' = [usos EXCEPT ![j].bien = @ + 1]
      BY <2>1, RecuperacionPaso
    <3> HIDE DEF j
    <3> QED BY <1>t, <3>2, <3>3
  <2> QED BY <2>1, RestoPaso
<1>5. ASSUME NEW c \in Cuentas
      PROVE  cuenta'[c].codigo # k
  <2>1. Igual(c) \/ \E p \in Peticiones : Nace(c, p) \/ Escrita(c, p) \/ Recobra(c, p)
    BY FilaPaso
  <2>2. CASE Igual(c)
    BY <2>2, <1>2 DEF Igual
  <2>3. ASSUME NEW p \in Peticiones, Nace(c, p)
        PROVE  cuenta'[c].codigo # k
    BY <1>n, <2>3 DEF Nace
  <2>4. ASSUME NEW p \in Peticiones, Escrita(c, p)
        PROVE  cuenta'[c].codigo # k
    <3>1. ~Estrena(c, k)
      BY DEF Estrena, SinEstrenar, En
    <3> QED BY <1>n, <1>2, <2>4, <3>1 DEF Escrita, Renueva, Cambia, Olvida, Estrena, MismoCodigo
  <2>5. ASSUME NEW p \in Peticiones, Recobra(c, p)
        PROVE  cuenta'[c].codigo # k
    <3>1. PICK acierta \in BOOLEAN : c = peticion[p].c /\ ConfirmarRecuperacion(p, acierta)
      BY <2>5 DEF Recobra
    <3>2. En(p, "recupera", "escribe")
      BY <3>1, Zenon DEF ConfirmarRecuperacion
    <3>3. peticion[p].leida.codigo # k
      BY <1>3, <3>2
    <3>4. cuenta'[c].codigo \in {cuenta[c].codigo, Nadie, peticion[p].leida.codigo}
      BY <3>1, RecuperacionPaso
    <3> QED BY <1>n, <1>2, <3>3, <3>4
  <2> QED BY <2>1, <2>2, <2>3, <2>4, <2>5
<1> QED BY <1>2, <1>4, <1>5

\* A new code was in no row, so it is in one.
LEMMA CodigoPropioPaso ==
    ASSUME Tipos, Next, BajoBloqueo, CodigoNuevo, CodigoPropio
    PROVE  CodigoPropio'
<1>n. \A p \in Peticiones : p # Nadie /\ p \in Origen
  BY CuentaAssumption DEF Peticiones, Nadie, Origen
<1>t. \A p \in Peticiones : peticion[p].c \in Cuentas
  BY DEF Tipos, Registros
\* A row has the code it had, or none, or the new one of a request that p names.
<1>1. ASSUME NEW c \in Cuentas
      PROVE  \/ cuenta'[c].codigo \in {cuenta[c].codigo, Nadie}
             \/ \E p \in Peticiones : En(p, "codigo", "escribe") /\ cuenta'[c].codigo = p
                                      /\ c = peticion[p].c /\ \A d \in Cuentas \ {c} : cuenta'[d] = cuenta[d]
  <2>1. Igual(c) \/ \E p \in Peticiones : Nace(c, p) \/ Escrita(c, p) \/ Recobra(c, p)
    BY FilaPaso
  <2>2. ASSUME NEW p \in Peticiones, Recobra(c, p)
        PROVE  cuenta'[c].codigo \in {cuenta[c].codigo, Nadie}
    <3>1. PICK acierta \in BOOLEAN : c = peticion[p].c /\ ConfirmarRecuperacion(p, acierta)
      BY <2>2 DEF Recobra
    <3>2. En(p, "recupera", "escribe")
      BY <3>1, Zenon DEF ConfirmarRecuperacion
    <3>3. peticion[p].leida.codigo = cuenta[c].codigo
      BY <3>1, <3>2 DEF BajoBloqueo, En
    <3>4. cuenta'[c].codigo \in {cuenta[c].codigo, Nadie, peticion[p].leida.codigo}
      BY <3>1, RecuperacionPaso
    <3> QED BY <3>3, <3>4
  <2>3. ASSUME NEW p \in Peticiones, Estrena(c, p)
        PROVE  c = peticion[p].c /\ \A d \in Cuentas \ {c} : cuenta'[d] = cuenta[d]
    <3>1. PasoDe(p)
      BY <2>3, Autor DEF Estrena, En
    <3>2. ActualizarCodigoRecuperacion(p)
      <4>1. peticion[p].op = "codigo" /\ peticion[p].fase = "escribe"
            /\ peticion'[p].op = "codigo" /\ peticion'[p].fase = "correo"
        BY <2>3 DEF Estrena, En
      <4>2. ~Empezada(p)
        BY <4>1 DEF Empezada, Lectura, Nueva
      <4> QED BY <3>1, <4>1, <4>2, Suerte DEF Acabada, Bloqueante, Confirmante, Prosigue
    <3>3. cuenta' = [cuenta EXCEPT ![peticion[p].c] =
                       [@ EXCEPT !.codigo = p, !.vence = FALSE, !.intentos = 0]]
      BY <3>2 DEF ActualizarCodigoRecuperacion
    <3>4. \A d \in Cuentas \ {peticion[p].c} : cuenta'[d] = cuenta[d]
      BY <3>3, <1>t DEF Tipos
    <3>5. c = peticion[p].c
      <4>1. \A d \in Cuentas : cuenta[d].codigo # p
        BY <1>n, <2>3 DEF Estrena, CodigoNuevo, SinEstrenar
      <4> QED BY <3>4, <4>1, <2>3 DEF Estrena
    <3> QED BY <3>4, <3>5
  <2> QED BY <2>1, <2>2, <2>3
          DEF Igual, Nace, Escrita, Renueva, Cambia, Olvida, Estrena, MismoCodigo
<1> SUFFICES ASSUME NEW c \in Cuentas, NEW d \in Cuentas,
                    cuenta'[c].codigo # Nadie, cuenta'[c].codigo = cuenta'[d].codigo
             PROVE  c = d
  BY DEF CodigoPropio
<1>2. ASSUME NEW x \in Cuentas, NEW y \in Cuentas, NEW p \in Peticiones, En(p, "codigo", "escribe"),
             cuenta'[x].codigo = p, cuenta'[y].codigo = p, \A z \in Cuentas \ {x} : cuenta'[z] = cuenta[z]
      PROVE  x = y
  <2>1. \A z \in Cuentas : cuenta[z].codigo # p
    BY <1>n, <1>2 DEF CodigoNuevo, SinEstrenar
  <2> QED BY <1>2, <2>1
<1> QED BY <1>1, <1>2 DEF CodigoPropio

\* The counts of a code move when the row that holds it ends a recovery: one
\* more wrong try and the code stays or goes, or the right one and it goes.
LEMMA UsosPaso ==
    ASSUME Tipos, Next, BajoBloqueo, CodigoPropio, CuentaExacta, NEW k \in Origen
    PROVE  \/ usos'[k] = usos[k] /\ \A p \in Peticiones, acierta \in BOOLEAN :
                  ConfirmarRecuperacion(p, acierta) =>
                      cuenta[peticion[p].c].codigo # k \/ cuenta'[peticion[p].c].codigo = Nadie
                      \/ UNCHANGED cuenta
           \/ \E c \in Cuentas :
                /\ cuenta[c].codigo = k /\ usos[k].bien = 0 /\ usos[k].mal = cuenta[c].intentos
                /\ cuenta[c].intentos < MaxIntentos
                /\ \/ usos'[k].mal = usos[k].mal + 1 /\ usos'[k].bien = 0
                      /\ (cuenta'[c].codigo = Nadie
                          \/ (cuenta'[c].intentos = usos'[k].mal /\ usos'[k].mal < MaxIntentos))
                   \/ usos'[k].mal = usos[k].mal /\ usos'[k].bien = 1 /\ cuenta'[c].codigo = Nadie
<1>t. usos \in [Origen -> [mal : Nat, bien : Nat]] /\ MaxIntentos \in Nat
  BY CuentaAssumption DEF Tipos
<1> DEFINE Quieto == usos'[k] = usos[k] /\ \A p \in Peticiones, acierta \in BOOLEAN :
                  ConfirmarRecuperacion(p, acierta) =>
                      cuenta[peticion[p].c].codigo # k \/ cuenta'[peticion[p].c].codigo = Nadie
                      \/ UNCHANGED cuenta
           Otro == \E c \in Cuentas :
                /\ cuenta[c].codigo = k /\ usos[k].bien = 0 /\ usos[k].mal = cuenta[c].intentos
                /\ cuenta[c].intentos < MaxIntentos
                /\ \/ usos'[k].mal = usos[k].mal + 1 /\ usos'[k].bien = 0
                      /\ (cuenta'[c].codigo = Nadie
                          \/ (cuenta'[c].intentos = usos'[k].mal /\ usos'[k].mal < MaxIntentos))
                   \/ usos'[k].mal = usos[k].mal /\ usos'[k].bien = 1 /\ cuenta'[c].codigo = Nadie
<1>1. ASSUME NEW p \in Peticiones, NEW acierta \in BOOLEAN, ConfirmarRecuperacion(p, acierta)
      PROVE  \/ usos'[k] = usos[k] /\ (cuenta[peticion[p].c].codigo # k
                                       \/ cuenta'[peticion[p].c].codigo = Nadie \/ UNCHANGED cuenta)
             \/ Otro
  <2> DEFINE c == peticion[p].c
             f == peticion[p].leida
             j == f.codigo
  <2>1. c \in Cuentas /\ j \in Origen \cup {Nadie} /\ f.intentos \in Nat
    BY DEF Tipos, Registros, Filas
  <2>2. En(p, "recupera", "escribe")
    BY <1>1, Zenon DEF ConfirmarRecuperacion
  <2>3. j = cuenta[c].codigo /\ f.intentos = cuenta[c].intentos
    BY <2>2 DEF BajoBloqueo, En
  <2>4. \/ UNCHANGED <<cuenta, usos>>
        \/ UNCHANGED usos /\ cuenta'[c].codigo = Nadie
        \/ /\ j # Nadie /\ f.intentos < MaxIntentos /\ usos' = [usos EXCEPT ![j].mal = @ + 1]
           /\ cuenta'[c].intentos = f.intentos + 1
           /\ f.intentos + 1 >= MaxIntentos => cuenta'[c].codigo = Nadie
        \/ j # Nadie /\ usos' = [usos EXCEPT ![j].bien = @ + 1] /\ cuenta'[c].codigo = Nadie
    BY <1>1, RecuperacionPaso
  <2> HIDE DEF c, f, j
  <2>5. CASE UNCHANGED <<cuenta, usos>>
    BY <2>5 DEF c
  <2>6. CASE UNCHANGED usos /\ cuenta'[c].codigo = Nadie
    BY <2>6 DEF c
  <2>7. CASE j # k
    BY <1>t, <2>1, <2>3, <2>4, <2>7 DEF c
  <2>8. CASE j = k /\ j # Nadie
    <3>1. usos[k].bien = 0 /\ usos[k].mal = cuenta[c].intentos /\ cuenta[c].intentos < MaxIntentos
      BY <2>1, <2>3, <2>8 DEF CuentaExacta
    <3>2. CASE /\ usos' = [usos EXCEPT ![j].mal = @ + 1]
               /\ cuenta'[c].intentos = f.intentos + 1
               /\ f.intentos + 1 >= MaxIntentos => cuenta'[c].codigo = Nadie
      <4>1. usos'[k].mal = usos[k].mal + 1 /\ usos'[k].bien = 0
        BY <1>t, <2>8, <3>1, <3>2
      <4>2. cuenta'[c].codigo = Nadie
            \/ (cuenta'[c].intentos = usos'[k].mal /\ usos'[k].mal < MaxIntentos)
        BY <1>t, <2>1, <2>3, <3>1, <3>2, <4>1
      <4> QED BY <2>1, <2>3, <2>8, <3>1, <4>1, <4>2
    <3>3. CASE usos' = [usos EXCEPT ![j].bien = @ + 1] /\ cuenta'[c].codigo = Nadie
      <4>1. usos'[k].mal = usos[k].mal /\ usos'[k].bien = 1
        BY <1>t, <2>8, <3>1, <3>3
      <4> QED BY <2>1, <2>3, <2>8, <3>1, <3>3, <4>1
    <3> QED BY <2>4, <2>5, <2>6, <3>2, <3>3
  <2>9. k # Nadie
    BY CuentaAssumption DEF Origen, Nadie
  <2> QED BY <2>7, <2>8, <2>9
<1>2. CASE UNCHANGED usos
  BY <1>1, <1>2
<1> QED BY <1>1, <1>2, RestoPaso

\* The limits, and the row that counts them.
LEMMA CuentaExactaPaso ==
    ASSUME Tipos, Next, BajoBloqueo, CodigoPropio, CodigoNuevo, CuentaExacta, CodigoAcotado
    PROVE  CuentaExacta' /\ CodigoAcotado'
<1>t. usos \in [Origen -> [mal : Nat, bien : Nat]] /\ MaxIntentos \in Nat \ {0}
      /\ \A c \in Cuentas : cuenta[c].codigo \in Origen \cup {Nadie} /\ cuenta'[c].codigo \in Origen \cup {Nadie}
  BY CuentaAssumption, FilaPaso DEF Tipos, Filas
<1>n. \A p \in Peticiones : p \in Origen
  BY CuentaAssumption DEF Peticiones, Origen
<1>1. CodigoAcotado'
  <2> SUFFICES ASSUME NEW k \in Origen
               PROVE  usos'[k].mal <= MaxIntentos /\ usos'[k].bien <= 1
    BY DEF CodigoAcotado
  <2> QED BY <1>t, UsosPaso DEF CodigoAcotado
<1>2. ASSUME NEW c \in Cuentas, cuenta'[c].codigo # Nadie
      PROVE  LET k == cuenta'[c].codigo IN
             usos'[k].bien = 0 /\ usos'[k].mal = cuenta'[c].intentos /\ cuenta'[c].intentos < MaxIntentos
  <2> DEFINE k == cuenta'[c].codigo
  <2>1. k \in Origen
    BY <1>t, <1>2
  <2>2. ASSUME MismoCodigo(c)
        PROVE  usos'[k].bien = 0 /\ usos'[k].mal = cuenta'[c].intentos /\ cuenta'[c].intentos < MaxIntentos
    <3>1. cuenta[c].codigo = k /\ usos[k].bien = 0 /\ usos[k].mal = cuenta[c].intentos
          /\ cuenta[c].intentos < MaxIntentos /\ cuenta'[c].intentos = cuenta[c].intentos
      BY <1>2, <2>2 DEF MismoCodigo, CuentaExacta
    <3>2. CASE usos'[k] = usos[k]
      BY <3>1, <3>2
    <3>3. ASSUME NEW d \in Cuentas, cuenta[d].codigo = k, usos[k].bien = 0, usos[k].mal = cuenta[d].intentos,
                 \/ usos'[k].mal = usos[k].mal + 1 /\ usos'[k].bien = 0
                    /\ (cuenta'[d].codigo = Nadie
                        \/ (cuenta'[d].intentos = usos'[k].mal /\ usos'[k].mal < MaxIntentos))
                 \/ usos'[k].mal = usos[k].mal /\ usos'[k].bien = 1 /\ cuenta'[d].codigo = Nadie
          PROVE  usos'[k].bien = 0 /\ usos'[k].mal = cuenta'[c].intentos /\ cuenta'[c].intentos < MaxIntentos
      <4>1. c = d
        BY <1>2, <3>1, <3>3 DEF CodigoPropio
      <4> QED BY <1>2, <3>3, <4>1
    <3> HIDE DEF k
    <3> QED BY <2>1, <3>2, <3>3, UsosPaso
  <2>3. ASSUME NEW p \in Peticiones, Estrena(c, p)
        PROVE  usos'[k].bien = 0 /\ usos'[k].mal = cuenta'[c].intentos /\ cuenta'[c].intentos < MaxIntentos
    <3>1. k = p /\ cuenta'[c].intentos = 0
      BY <2>3 DEF Estrena
    <3>2. usos[k].bien = 0 /\ usos[k].mal = 0 /\ \A d \in Cuentas : cuenta[d].codigo # k
      BY <1>n, <2>3, <3>1 DEF Estrena, CodigoNuevo, SinEstrenar
    <3> HIDE DEF k
    <3>3. usos'[k] = usos[k]
      BY <2>1, <3>2, UsosPaso
    <3> QED BY <1>t, <3>1, <3>2, <3>3
  <2>4. ASSUME NEW p \in Peticiones, Recobra(c, p)
        PROVE  usos'[k].bien = 0 /\ usos'[k].mal = cuenta'[c].intentos /\ cuenta'[c].intentos < MaxIntentos
    <3>1. PICK acierta \in BOOLEAN : c = peticion[p].c /\ ConfirmarRecuperacion(p, acierta)
      BY <2>4 DEF Recobra
    <3>2. En(p, "recupera", "escribe")
      BY <3>1, Zenon DEF ConfirmarRecuperacion
    <3>3. peticion[p].leida.codigo = cuenta[c].codigo
      BY <3>1, <3>2 DEF BajoBloqueo, En
    <3>4. cuenta[c].codigo = k
      <4>1. cuenta'[c].codigo \in {cuenta[c].codigo, Nadie, peticion[p].leida.codigo}
        BY <3>1, RecuperacionPaso
      <4> QED BY <1>2, <3>3, <4>1
    <3>5. usos[k].bien = 0 /\ usos[k].mal = cuenta[c].intentos /\ cuenta[c].intentos < MaxIntentos
      BY <1>2, <3>4 DEF CuentaExacta
    <3> HIDE DEF k
    <3>6. CASE usos'[k] = usos[k] /\ UNCHANGED cuenta
      BY <3>5, <3>6
    <3>7. ASSUME NEW d \in Cuentas, cuenta[d].codigo = k,
                 \/ usos'[k].bien = 0
                    /\ (cuenta'[d].codigo = Nadie
                        \/ (cuenta'[d].intentos = usos'[k].mal /\ usos'[k].mal < MaxIntentos))
                 \/ cuenta'[d].codigo = Nadie
          PROVE  usos'[k].bien = 0 /\ usos'[k].mal = cuenta'[c].intentos /\ cuenta'[c].intentos < MaxIntentos
      <4>1. c = d
        BY <1>2, <3>4, <3>7 DEF CodigoPropio, k
      <4> QED BY <1>2, <3>7, <4>1
    <3> QED BY <1>2, <2>1, <3>1, <3>4, <3>6, <3>7, UsosPaso
  <2>5. Igual(c) \/ \E p \in Peticiones : Nace(c, p) \/ Escrita(c, p) \/ Recobra(c, p)
    BY FilaPaso
  <2>6. ASSUME NEW p \in Peticiones, Nace(c, p) \/ Escrita(c, p)
        PROVE  MismoCodigo(c) \/ Estrena(c, p)
    BY <1>2, <2>6 DEF Nace, Escrita, Renueva, Cambia, Olvida
  <2>7. Igual(c) => MismoCodigo(c)
    BY DEF Igual, MismoCodigo
  <2> QED BY <2>2, <2>3, <2>4, <2>5, <2>6, <2>7
<1> QED BY <1>1, <1>2 DEF CuentaExacta

-----------------------------------------------------------------------------
(* The temporary passwords *)

\* Who sent the credentials goes on to write; the mail stays.
LEMMA PorEscribirEnviadaPaso ==
    ASSUME Tipos, Next, PorEscribirEnviada
    PROVE  PorEscribirEnviada'
<1> SUFFICES ASSUME NEW p \in Peticiones, (En(p, "alta", "escribe") \/ En(p, "reset", "escribe"))'
             PROVE  \E m \in correos' : m.tipo = "clave" /\ m.de = p
  BY DEF PorEscribirEnviada
<1>1. CASE peticion'[p] = peticion[p]
  <2>1. PICK m \in correos : m.tipo = "clave" /\ m.de = p
    BY <1>1 DEF PorEscribirEnviada, En
  <2> QED BY <2>1, RestoPaso
<1>2. CASE PasoDe(p)
  <2>1. Correo("clave", p, peticion[p].email)
    BY <1>2, Suerte DEF Acabada, Empezada, Bloqueante, Confirmante, Prosigue, En
  <2> DEFINE m == [tipo |-> "clave", de |-> p, a |-> peticion[p].email]
  <2>2. m \in correos' /\ m.tipo = "clave" /\ m.de = p
    BY <2>1 DEF Correo
  <2> QED BY <2>2
<1> QED BY <1>1, <1>2, Autor

\* A temporary password enters a row from a request that sent it, and a
\* recovery that leaves the password alone writes the one that is there.
LEMMA ClaveEntregadaPaso ==
    ASSUME Tipos, Next, BajoBloqueo, PorEscribirEnviada, ClaveEntregada
    PROVE  ClaveEntregada'
<1> SUFFICES ASSUME NEW c \in Cuentas, cuenta'[c].temporal
             PROVE  \E m \in correos' : m.tipo = "clave" /\ m.de = cuenta'[c].clave
  BY DEF ClaveEntregada
<1>1. correos \subseteq correos'
  BY RestoPaso
<1>2. ASSUME cuenta[c].temporal, cuenta'[c].clave = cuenta[c].clave
      PROVE  \E m \in correos' : m.tipo = "clave" /\ m.de = cuenta'[c].clave
  BY <1>1, <1>2 DEF ClaveEntregada
<1>3. ASSUME NEW p \in Peticiones, En(p, "alta", "escribe") \/ En(p, "reset", "escribe"),
             cuenta'[c].clave = p
      PROVE  \E m \in correos' : m.tipo = "clave" /\ m.de = cuenta'[c].clave
  BY <1>1, <1>3 DEF PorEscribirEnviada
<1>4. ASSUME NEW p \in Peticiones, Nace(c, p) \/ Escrita(c, p)
      PROVE  \E m \in correos' : m.tipo = "clave" /\ m.de = cuenta'[c].clave
  BY <1>2, <1>3, <1>4 DEF Nace, Escrita, Renueva, Cambia, Olvida, Estrena
<1>5. ASSUME NEW p \in Peticiones, Recobra(c, p)
      PROVE  cuenta[c].temporal /\ cuenta'[c].clave = cuenta[c].clave
  <2>1. PICK acierta \in BOOLEAN : c = peticion[p].c /\ ConfirmarRecuperacion(p, acierta)
    BY <1>5 DEF Recobra
  <2>2. En(p, "recupera", "escribe")
    BY <2>1, Zenon DEF ConfirmarRecuperacion
  <2>3. peticion[p].leida.clave = cuenta[c].clave /\ peticion[p].leida.temporal = cuenta[c].temporal
    BY <2>1, <2>2 DEF BajoBloqueo, En
  <2>4. UNCHANGED cuenta \/ cuenta'[c].temporal = FALSE
        \/ (cuenta'[c].clave = peticion[p].leida.clave /\ cuenta'[c].temporal = peticion[p].leida.temporal)
    BY <2>1, RecuperacionPaso
  <2> QED BY <2>3, <2>4
<1>6. Igual(c) \/ \E p \in Peticiones : Nace(c, p) \/ Escrita(c, p) \/ Recobra(c, p)
  BY FilaPaso
<1> QED BY <1>2, <1>4, <1>5, <1>6 DEF Igual

-----------------------------------------------------------------------------
(* The change of e-mail *)

\* A request for a change collects its entry, then its warning.
LEMMA SolicitudAvisadaPaso ==
    ASSUME Tipos, Next, SolicitudAvisada
    PROVE  SolicitudAvisada'
<1> SUFFICES ASSUME NEW p \in Peticiones, peticion'[p].op = "correo"
             PROVE  /\ peticion'[p].fase \in {"alerta", "guarda", "correo"} => p \in auditadas'
                    /\ peticion'[p].fase \in {"guarda", "correo"} =>
                          Alerta(p, peticion'[p].leida.email) \in correos'
  BY DEF SolicitudAvisada, Alerta
<1>1. correos \subseteq correos' /\ auditadas \subseteq auditadas'
  BY RestoPaso
<1>2. CASE peticion'[p] = peticion[p]
  BY <1>1, <1>2 DEF SolicitudAvisada
<1>3. CASE PasoDe(p)
  <2>1. CASE Empezada(p)
    BY <2>1 DEF Empezada
  <2>2. CASE auditadas' = auditadas \cup {p} /\ Prosigue(p, "correo", "audita", "alerta")
    BY <2>2 DEF Prosigue
  <2>3. CASE Correo("alerta", p, peticion[p].leida.email) /\ Prosigue(p, "correo", "alerta", "guarda")
    BY <1>1, <2>3 DEF Prosigue, SolicitudAvisada, Correo, Alerta
  <2>4. CASE Prosigue(p, "correo", "guarda", "correo")
    BY <1>1, <2>4 DEF Prosigue, SolicitudAvisada
  <2> QED BY <1>3, <2>1, <2>2, <2>3, <2>4, Suerte DEF Acabada, Bloqueante, Confirmante, Prosigue
<1> QED BY <1>2, <1>3, Autor

\* The token takes the entry and the warning from its request.
LEMMA TokenAvisadoPaso ==
    ASSUME Tipos, Next, SolicitudAvisada, TokenAvisado
    PROVE  TokenAvisado'
<1>1. correos \subseteq correos' /\ auditadas \subseteq auditadas'
  BY RestoPaso
<1>2. \A t \in token : t.de \in auditadas' /\ Alerta(t.de, t.original) \in correos'
  BY <1>1 DEF TokenAvisado
<1>3. ASSUME NEW p \in Peticiones, En(p, "correo", "guarda")
      PROVE  p \in auditadas' /\ Alerta(p, peticion[p].leida.email) \in correos'
  BY <1>1, <1>3 DEF SolicitudAvisada, En
<1>4. \A t \in token' : t.de \in auditadas' /\ Alerta(t.de, t.original) \in correos'
  BY <1>2, <1>3, RestoPaso
<1> QED BY <1>4 DEF TokenAvisado, Alerta

\* The confirmation takes both from the token.
LEMMA ConfirmacionAvisadaPaso ==
    ASSUME Tipos, Next, TokenAvisado, ConfirmacionAvisada
    PROVE  ConfirmacionAvisada'
<1> SUFFICES ASSUME NEW p \in Peticiones, peticion'[p].op = "confirma"
             PROVE  peticion'[p].de \in auditadas'
                    /\ Alerta(peticion'[p].de, peticion'[p].leida.email) \in correos'
  BY DEF ConfirmacionAvisada, Alerta
<1>1. correos \subseteq correos' /\ auditadas \subseteq auditadas'
  BY RestoPaso
<1>2. CASE peticion'[p] = peticion[p]
  BY <1>1, <1>2 DEF ConfirmacionAvisada
<1>3. CASE PasoDe(p)
  <2>1. CASE Confirmante(p)
    BY <1>1, <2>1 DEF Confirmante, TokenAvisado
  <2>2. CASE Prosigue(p, "confirma", "consume", "escribe")
    BY <1>1, <2>2 DEF Prosigue, ConfirmacionAvisada
  <2> QED BY <1>3, <2>1, <2>2, Suerte DEF Acabada, Bloqueante, Empezada, Prosigue
<1> QED BY <1>2, <1>3, Autor

-----------------------------------------------------------------------------
(* The theorems *)

\* At the start at most one account has a code, with one try left.
LEMMA IInvInicio ==
    ASSUME Init
    PROVE  IInv
<1>1. PICK alta \in SUBSET Cuentas, v \in BOOLEAN :
        LET n == MaxIntentos - 1
            olvido == CHOOSE c \in Cuentas : TRUE
        IN /\ olvido \in alta
           /\ cuenta = [c \in Cuentas |->
                IF c \notin alta THEN SinFila
                ELSE [SinFila EXCEPT !.est = "activa", !.email = EmailDe[c],
                                     !.codigo = IF c = olvido THEN 0 ELSE Nadie,
                                     !.intentos = IF c = olvido THEN n ELSE 0,
                                     !.vinculado = v, !.secreto = IF v THEN 0 ELSE Nadie]]
           /\ usos = [k \in Origen |-> [mal |-> IF k = 0 THEN n ELSE 0, bien |-> 0]]
  BY DEF Init
<1> DEFINE olvido == CHOOSE c \in Cuentas : TRUE
           n == MaxIntentos - 1
           Alta(c) == [SinFila EXCEPT !.est = "activa", !.email = EmailDe[c],
                                      !.codigo = IF c = olvido THEN 0 ELSE Nadie,
                                      !.intentos = IF c = olvido THEN n ELSE 0,
                                      !.vinculado = v, !.secreto = IF v THEN 0 ELSE Nadie]
<1>2. Cuentas # {} /\ Emails # {} /\ olvido \in Cuentas /\ n \in Nat /\ n < MaxIntentos
      /\ 0 \in Origen /\ MaxIntentos \in Nat
  <2>1. n \in Nat /\ n < MaxIntentos /\ 0 \in Origen /\ MaxIntentos \in Nat
    BY CuentaAssumption DEF Origen
  <2>2. olvido \in alta /\ alta \subseteq Cuentas
    BY <1>1
  <2> HIDE DEF olvido
  <2>3. EmailDe[olvido] \in Emails
    BY <2>2, CuentaAssumption
  <2> HIDE DEF n
  <2> QED BY <2>1, <2>2, <2>3
<1>3. /\ SinFila \in Filas /\ SinFila.codigo = Nadie /\ SinFila.temporal = FALSE
      /\ Libre \in Registros /\ Libre.op = "nada" /\ Libre.fase = "fin"
  BY <1>2, EnBlanco
<1> HIDE DEF olvido, n
<1>4. ASSUME NEW c \in Cuentas
      PROVE  /\ Alta(c) \in Filas /\ Alta(c).temporal = FALSE
             /\ Alta(c).codigo = IF c = olvido THEN 0 ELSE Nadie
             /\ Alta(c).intentos = IF c = olvido THEN n ELSE 0
  <2>1. EmailDe[c] \in Emails
    BY CuentaAssumption
  <2> QED BY <1>2, <1>3, <2>1 DEF Filas
<1>5. cuenta = [c \in Cuentas |-> IF c \notin alta THEN SinFila ELSE Alta(c)]
  BY <1>1 DEF olvido, n
<1>6. usos = [k \in Origen |-> [mal |-> IF k = 0 THEN n ELSE 0, bien |-> 0]]
  BY <1>1 DEF n
<1> HIDE DEF Alta
<1>7. ASSUME NEW c \in Cuentas
      PROVE  /\ cuenta[c] \in Filas /\ cuenta[c].temporal = FALSE
             /\ cuenta[c].codigo = Nadie \/ (c = olvido /\ cuenta[c].codigo = 0 /\ cuenta[c].intentos = n)
  <2>1. cuenta[c] = IF c \notin alta THEN SinFila ELSE Alta(c)
    BY <1>5
  <2>2. CASE c \notin alta
    BY <1>3, <2>1, <2>2
  <2>3. CASE c \in alta
    BY <1>4, <2>1, <2>3
  <2> QED BY <2>2, <2>3
<1>8. \A p \in Peticiones : peticion[p].op = "nada" /\ peticion[p].fase = "fin"
  BY <1>3 DEF Init
<1>9. Tipos
  <2>1. usos \in [Origen -> [mal : Nat, bien : Nat]]
    BY <1>2, <1>6
  <2>2. cuenta \in [Cuentas -> Filas]
    BY <1>5, <1>7
  <2> QED BY <1>2, <1>3, <2>1, <2>2 DEF Init, Tipos
<1>10. CodigoPropio
  BY <1>7 DEF CodigoPropio
<1>11. CodigoNuevo
  <2>1. \A k \in Origen : SinEstrenar(k) => k # 0 /\ k # Nadie
    BY CuentaAssumption DEF SinEstrenar, Peticiones, Nadie
  <2> QED BY <1>6, <1>7, <2>1 DEF CodigoNuevo
<1>12. CuentaExacta
  <2>1. usos[0].bien = 0 /\ usos[0].mal = n
    BY <1>2, <1>6
  <2> QED BY <1>2, <1>7, <2>1 DEF CuentaExacta
<1>13. CodigoAcotado
  BY <1>2, <1>6 DEF CodigoAcotado
<1>14. BajoBloqueo /\ PorEscribirEnviada /\ SolicitudAvisada /\ ConfirmacionAvisada
  BY <1>8 DEF BajoBloqueo, PorEscribirEnviada, SolicitudAvisada, ConfirmacionAvisada, En
<1>15. ClaveEntregada
  BY <1>7 DEF ClaveEntregada
<1>16. TokenAvisado
  BY DEF Init, TokenAvisado
<1> QED BY <1>9, <1>10, <1>11, <1>12, <1>13, <1>14, <1>15, <1>16 DEF IInv

\* Every step keeps the invariant.
LEMMA IInvPaso ==
    ASSUME IInv, [Next]_vars
    PROVE  IInv'
<1>1. CASE Next
  BY <1>1, TiposPaso, BajoBloqueoPaso, CodigoPropioPaso, CodigoNuevoPaso, CuentaExactaPaso,
     PorEscribirEnviadaPaso, ClaveEntregadaPaso, SolicitudAvisadaPaso, TokenAvisadoPaso,
     ConfirmacionAvisadaPaso DEF IInv
<1>2. CASE UNCHANGED vars
  BY <1>2 DEF vars, IInv, Tipos, BajoBloqueo, CodigoPropio, CodigoNuevo, SinEstrenar, CuentaExacta,
     CodigoAcotado, PorEscribirEnviada, ClaveEntregada, SolicitudAvisada, TokenAvisado,
     ConfirmacionAvisada, Alerta, En
<1> QED BY <1>1, <1>2

\* The invariant holds throughout every behaviour.
THEOREM Invariante == Spec => []IInv
<1>1. Init => IInv
  BY IInvInicio
<1>2. IInv /\ [Next]_vars => IInv'
  BY IInvPaso
<1> QED BY <1>1, <1>2, PTL DEF Spec

\* No recovery code is tried wrongly more than MaxIntentos times or used twice
\* (ConfirmarRecuperacionConBloqueo).
THEOREM CodigosAcotados == Spec => []CodigoAcotado
<1>1. IInv => CodigoAcotado
  BY DEF IInv
<1> QED BY <1>1, Invariante, PTL

\* A temporary password in force went out by mail (CrearUsuario,
\* ResetearContrasena).
THEOREM ClavesEntregadas == Spec => []ClaveEntregada
<1>1. IInv => ClaveEntregada
  BY DEF IInv
<1> QED BY <1>1, Invariante, PTL

\* The address that a confirmation takes from an account had been warned, and
\* the request had its entry (ConfirmarCambioEmail).
THEOREM DesplazadosAvisados == Spec => DesplazadoAvisado
<1> DEFINE Avisado == \A p \in Peticiones, c \in Cuentas :
         En(p, "confirma", "escribe") /\ ~En(p, "confirma", "escribe")' /\ cuenta'[c].email # cuenta[c].email =>
             /\ [tipo |-> "alerta", de |-> peticion[p].de, a |-> cuenta[c].email] \in correos
             /\ peticion[p].de \in auditadas
<1>1. ASSUME IInv, [Next]_vars
      PROVE  [Avisado]_vars
  <2> SUFFICES ASSUME Next, NEW p \in Peticiones, NEW c \in Cuentas,
                      En(p, "confirma", "escribe"), ~En(p, "confirma", "escribe")',
                      cuenta'[c].email # cuenta[c].email
               PROVE  /\ [tipo |-> "alerta", de |-> peticion[p].de, a |-> cuenta[c].email] \in correos
                      /\ peticion[p].de \in auditadas
    BY <1>1
  <2>1. PasoDe(p)
    BY <1>1, Autor DEF IInv, En
  <2>2. peticion[p] \in Registros /\ peticion[p].op = "confirma" /\ peticion[p].fase = "escribe"
        /\ peticion[p].c \in Cuentas /\ cuenta \in [Cuentas -> Filas]
    BY <1>1 DEF IInv, Tipos, Registros, En
  <2>3. ConfirmarCambioEmail(p)
    <3>1. ~Lectura(p) /\ ~Avanza(p) /\ ~ActualizarCodigoRecuperacion(p)
      BY <2>2 DEF Lectura, Nueva, Avanza, EnviarCredenciales, AuditarSolicitud, AlertarCambio, GuardarToken,
         EnviarToken, ConsumirToken, EnviarCodigo, ActualizarCodigoRecuperacion, En
    <3>2. ~\E d \in Cuentas : EliminarUsuario(p, d) \/ Bloquear(p, d)
      BY <2>2 DEF EliminarUsuario, Bloquear, Nueva
    <3>3. ~\E t \in token : ConfirmarEmail(p, t)
      BY <2>2 DEF ConfirmarEmail, Nueva
    <3>4. ~\E acierta \in BOOLEAN : ConfirmarRecuperacion(p, acierta)
      <4>1. ASSUME NEW acierta \in BOOLEAN, ConfirmarRecuperacion(p, acierta)
            PROVE  FALSE
        <5>1. En(p, "recupera", "escribe")
          BY <4>1, Zenon DEF ConfirmarRecuperacion
        <5> QED BY <2>2, <5>1 DEF En
      <4> QED BY <4>1
    <3>5. Escribe(p)
      BY <2>1, <3>1, <3>2, <3>3, <3>4 DEF PasoDe
    <3> QED BY <2>2, <3>5 DEF Escribe, Insertar, Editar, AplicarReset, AplicarResetTotp, AplicarCambio,
       GuardarSecreto, Vincular, En
  <2>4. c = peticion[p].c /\ cuenta[c].email = peticion[p].leida.email
    <3> DEFINE d == peticion[p].c
               fila == [cuenta[d] EXCEPT !.email = peticion[p].email]
    <3>1. UNCHANGED cuenta
          \/ (cuenta[d].email = peticion[p].leida.email /\ cuenta' = [cuenta EXCEPT ![d] = fila])
      BY <2>3 DEF ConfirmarCambioEmail, Actualizar
    <3> HIDE DEF d, fila
    <3>2. d \in Cuentas
      BY <2>2 DEF d
    <3> QED BY <2>2, <3>1, <3>2 DEF d
  <2> QED BY <1>1, <2>2, <2>4 DEF IInv, ConfirmacionAvisada, Alerta
<1>2. []IInv /\ [][Next]_vars => [][Avisado]_vars
  BY <1>1, PTL
<1> QED BY <1>2, Invariante, PTL DEF Spec, DesplazadoAvisado
=============================================================================
