---------------------------- MODULE SesionesProofs ----------------------------
(***************************************************************************)
(* The safety of Sesiones for any number of sessions, handlers, logins,    *)
(* rotations and faults: a closed session stays closed, the copy that      *)
(* still opens one has a cause, and a deletion leaves no access behind but *)
(* those with one.                                                         *)
(***************************************************************************)
EXTENDS Sesiones, TLAPS

-----------------------------------------------------------------------------
(* The inductive invariant *)

\* A handler of the second factor carries a token.
ConToken == \A p \in Procs : proc[p].paso \in {"consume", "crea"} => proc[p].tok \in Tokens

Tipos == TypeOK /\ ConToken

\* One deletion at a time, which holds the rows it will close.
EnBaja(p) == proc[p].paso \in {"baja", "confirma"}
Exclusiva ==
    /\ \A p \in Procs : EnBaja(p) => proc[p].ids = bajaEnCurso
    /\ \A p, q \in Procs : EnBaja(p) /\ EnBaja(q) => p = q

\* While it lasts, every live session is one of them.
Retenidas ==
    \A p \in Procs : EnBaja(p) => \A s \in Sesiones : fila[s].est = "viva" => s \in bajaEnCurso

\* What a handler is about to delete from Redis is closed in PostgreSQL.
BorraCerradas ==
    \A p \in Procs : En(p, "borra") =>
        \A s \in proc[p].ids : fila[s].est \in {"cerrada", "purgada"}

\* After the DEL of a deletion its copies are gone, or came back with a cause.
SinCopias == \A p \in Procs : En(p, "confirma") => \A s \in proc[p].ids : copia[s] # 0 => s \in causa

\* A session opened on an eliminated account was in flight: it is a cause.
Tardias == cuenta.eliminado => \A s \in Sesiones : fila[s].est = "viva" => s \in causa

IInv ==
    /\ Tipos
    /\ Exclusiva /\ Retenidas /\ BorraCerradas /\ SinCopias /\ Tardias
    /\ CopiaCerradaConCausa

-----------------------------------------------------------------------------
(* Types *)

Cuentas == [activo : BOOLEAN, eliminado : BOOLEAN]
Filas == [est : {"libre", "viva", "cerrada", "purgada"}, jti : 0..MaxJti, vencida : BOOLEAN]
Registros == [paso : Pasos, ids : SUBSET Sesiones, jti : 0..MaxJti,
              tok : Tokens \cup {Nadie}, tras : {"reposo", "desactiva"}]

\* The initial state is well typed.
LEMMA TiposInicial == Init => Tipos
BY SesionesAssumption DEF Init, Tipos, TypeOK, ConToken, Reposo, Pasos

\* A handler goes from one call to the next.
LEMMA TipoSigue ==
  ASSUME Tipos, NEW p \in Procs, NEW r \in Registros, Sigue(p, r),
         r.paso \in {"consume", "crea"} => r.tok \in Tokens
  PROVE  ConToken' /\ proc' \in [Procs -> Registros]
<1>1. proc \in [Procs -> Registros]
  BY DEF Tipos, TypeOK, Registros
<1>2. proc' = [proc EXCEPT ![p] = r]
  BY DEF Sigue
<1>3. QED BY <1>1, <1>2 DEF Tipos, ConToken

\* What a handler starts with.
LEMMA Inicios ==
  /\ Reposo \in Registros
  /\ \A paso \in Pasos, t \in Tokens : [Reposo EXCEPT !.paso = paso, !.tok = t] \in Registros
  /\ \A paso \in Pasos, ids \in SUBSET Sesiones, tras \in {"reposo", "desactiva"} :
       [Reposo EXCEPT !.paso = paso, !.ids = ids, !.tras = tras] \in Registros
  /\ \A paso \in Pasos, ids \in SUBSET Sesiones :
       [Reposo EXCEPT !.paso = paso, !.ids = ids] \in Registros
  /\ \A paso \in Pasos, ids \in SUBSET Sesiones, j \in 0..MaxJti :
       [Reposo EXCEPT !.paso = paso, !.ids = ids, !.jti = j] \in Registros
<1>1. Reposo \in Registros
  BY SesionesAssumption DEF Reposo, Registros, Pasos
<1>2. ASSUME NEW paso \in Pasos, NEW t \in Tokens PROVE [Reposo EXCEPT !.paso = paso, !.tok = t] \in Registros
  BY <1>1, <1>2 DEF Registros
<1>3. ASSUME NEW paso \in Pasos, NEW ids \in SUBSET Sesiones PROVE [Reposo EXCEPT !.paso = paso, !.ids = ids] \in Registros
  BY <1>1, <1>3 DEF Registros
<1>4. ASSUME NEW paso \in Pasos, NEW ids \in SUBSET Sesiones, NEW tras \in {"reposo", "desactiva"}
      PROVE [Reposo EXCEPT !.paso = paso, !.ids = ids, !.tras = tras] \in Registros
  BY <1>1, <1>4 DEF Registros
<1>5. ASSUME NEW paso \in Pasos, NEW ids \in SUBSET Sesiones, NEW j \in 0..MaxJti
      PROVE [Reposo EXCEPT !.paso = paso, !.ids = ids, !.jti = j] \in Registros
  BY <1>1, <1>5 DEF Registros
<1>6. QED BY <1>1, <1>2, <1>3, <1>4, <1>5

\* The steps that write sesiones_activas.
LEMMA CambioDeFila ==
  ASSUME Next
  PROVE  \/ fila' = fila
         \/ \E p \in Procs, s \in Sesiones : CrearSesion(p, s)
         \/ \E p \in Procs : RotarJtiAccess(p)
         \/ \E ids : Cerrar(ids)
         \/ \E s \in Sesiones : Vencer(s)
         \/ Purgar
<1>1. ASSUME NEW p \in Procs, Cierre(p) PROVE fila' = fila \/ \E ids : Cerrar(ids)
  BY <1>1 DEF Cierre, Logout, CerrarSesion, RevocarOtrasSesiones, RevocarSesionesDeUsuario, EliminarSesiones,
              EliminarSesionesFalla, Suspender
<1>2. ASSUME NEW p \in Procs, Baja(p) PROVE fila' = fila \/ \E ids : Cerrar(ids)
  BY <1>2 DEF Baja, IniciarBaja, BajaBorraCopias, BajaFalla, ConfirmarBaja
<1>3. QED BY <1>1, <1>2 DEF Next, Verificacion, Renovacion, VerificarTotp, ConsumePre2FA, VerificarSesionAccess,
              ReplicarSesion, ReplicaFalla, RefrescarToken, Login, VencePre2FA, VenceCopia, Reactivar, ReiniciaRedis, Caida

\* The rows keep their type.
LEMMA TipoFila ==
  ASSUME TypeOK, Next
  PROVE  fila' \in [Sesiones -> Filas]
<1>0. fila \in [Sesiones -> Filas] /\ 1 \in 0..MaxJti /\ MaxJti \in Nat
  BY SesionesAssumption DEF TypeOK, Filas
<1>1. ASSUME NEW ids, Cerrar(ids) PROVE fila' \in [Sesiones -> Filas]
  BY <1>0, <1>1 DEF Cerrar, Filas
<1>2. ASSUME NEW p \in Procs, NEW s \in Sesiones, CrearSesion(p, s) PROVE fila' \in [Sesiones -> Filas]
  BY <1>0, <1>2 DEF CrearSesion, Filas
<1>3. ASSUME NEW p \in Procs, RotarJtiAccess(p) PROVE fila' \in [Sesiones -> Filas]
  <2>1. PICK s \in proc[p].ids : fila' = fila \/ (fila[s].jti < MaxJti /\ fila' = [fila EXCEPT ![s].jti = @ + 1])
    BY <1>3 DEF RotarJtiAccess
  <2>2. s \in Sesiones
    BY <2>1 DEF TypeOK
  <2>3. QED BY <1>0, <2>1, <2>2 DEF Filas
<1>4. ASSUME NEW s \in Sesiones, Vencer(s) PROVE fila' \in [Sesiones -> Filas]
  BY <1>0, <1>4 DEF Vencer, Filas
<1>5. ASSUME Purgar PROVE fila' \in [Sesiones -> Filas]
  BY <1>0, <1>5 DEF Purgar, Filas
<1>6. QED BY <1>0, <1>1, <1>2, <1>3, <1>4, <1>5, CambioDeFila

\* The handlers keep theirs.
LEMMA TipoProc ==
  ASSUME Tipos, Next
  PROVE  ConToken' /\ proc' \in [Procs -> Registros]
<1> DEFINE G == ConToken' /\ proc' \in [Procs -> Registros]
<1>0. /\ ConToken /\ proc \in [Procs -> Registros]
      /\ \A p \in Procs : proc[p] \in Registros
      /\ {"reposo", "consume", "crea", "replica", "rota", "borra", "desactiva", "baja", "confirma"} \subseteq Pasos
  BY DEF Tipos, TypeOK, Registros, Pasos
<1>1. ASSUME NEW p \in Procs, Termina(p) PROVE G
  <2>1. Reposo.paso = "reposo"
    BY DEF Reposo
  <2>2. QED BY <1>1, <2>1, TipoSigue, Inicios DEF Termina
<1>2. ASSUME NEW p \in Procs, NEW paso \in Pasos, paso \notin {"consume", "crea"},
             NEW ids \in SUBSET Sesiones, NEW j \in 0..MaxJti, NEW tras \in {"reposo", "desactiva"}
      PROVE  /\ Sigue(p, [Reposo EXCEPT !.paso = paso, !.ids = ids]) => G
             /\ Sigue(p, [Reposo EXCEPT !.paso = paso, !.ids = ids, !.jti = j]) => G
             /\ Sigue(p, [Reposo EXCEPT !.paso = paso, !.ids = ids, !.tras = tras]) => G
             /\ Sigue(p, [proc[p] EXCEPT !.paso = paso]) => G
             /\ Sigue(p, [proc[p] EXCEPT !.paso = paso, !.jti = j]) => G
  <2>1. Reposo \in Registros /\ proc[p] \in Registros
    BY <1>0, Inicios
  <2>2. \A r \in {[Reposo EXCEPT !.paso = paso, !.ids = ids], [Reposo EXCEPT !.paso = paso, !.ids = ids, !.jti = j],
                  [Reposo EXCEPT !.paso = paso, !.ids = ids, !.tras = tras],
                  [proc[p] EXCEPT !.paso = paso], [proc[p] EXCEPT !.paso = paso, !.jti = j]} :
          r \in Registros /\ r.paso = paso
    BY <2>1 DEF Registros
  <2>3. \A r \in Registros : r.paso = paso /\ Sigue(p, r) => G
    BY <1>2, TipoSigue
  <2>4. QED BY <2>2, <2>3
<1>a. ASSUME NEW p \in Procs, NEW paso \in Pasos, paso \notin {"consume", "crea"}, NEW ids \in SUBSET Sesiones
      PROVE  /\ Sigue(p, [Reposo EXCEPT !.paso = paso, !.ids = ids]) => G
             /\ Sigue(p, [proc[p] EXCEPT !.paso = paso]) => G
             /\ \A tras \in {"reposo", "desactiva"} :
                  Sigue(p, [Reposo EXCEPT !.paso = paso, !.ids = ids, !.tras = tras]) => G
  <2>1. 0 \in 0..MaxJti
    BY SesionesAssumption
  <2>2. QED BY <1>2, <1>a, <2>1
<1>3. ASSUME NEW p \in Procs, Verificacion(p) PROVE G
  <2>1. ASSUME NEW t \in Tokens, VerificarTotp(p, t) PROVE G
    <3>1. [Reposo EXCEPT !.paso = "consume", !.tok = t] \in Registros
          /\ [Reposo EXCEPT !.paso = "consume", !.tok = t].tok = t
      BY <1>0, Inicios DEF Reposo
    <3>2. QED BY <2>1, <3>1, TipoSigue DEF VerificarTotp
  <2>2. CASE ConsumePre2FA(p)
    <3>1. CASE Sigue(p, [proc[p] EXCEPT !.paso = "crea"])
      <4>1. [proc[p] EXCEPT !.paso = "crea"] \in Registros
            /\ [proc[p] EXCEPT !.paso = "crea"].tok = proc[p].tok
        BY <1>0 DEF Registros
      <4>2. proc[p].tok \in Tokens
        BY <1>0, <2>2 DEF ConsumePre2FA, En, ConToken
      <4>3. QED BY <3>1, <4>1, <4>2, TipoSigue
    <3>2. QED BY <1>1, <2>2, <3>1 DEF ConsumePre2FA
  <2>3. ASSUME NEW s \in Sesiones, CrearSesion(p, s) PROVE G
    <3>1. 1 \in 0..MaxJti /\ {s} \in SUBSET Sesiones
      BY SesionesAssumption
    <3>2. QED BY <1>0, <1>2, <2>3, <3>1 DEF CrearSesion
  <2>4. ASSUME NEW s \in Sesiones, VerificarSesionAccess(p, s) PROVE G
    <3>1. PICK j \in 1..MaxJti : Sigue(p, [Reposo EXCEPT !.paso = "replica", !.ids = {s}, !.jti = j])
      BY <2>4 DEF VerificarSesionAccess
    <3>2. j \in 0..MaxJti /\ {s} \in SUBSET Sesiones
      BY SesionesAssumption
    <3>3. QED BY <1>0, <1>2, <3>1, <3>2
  <2>5. CASE ReplicarSesion(p) \/ ReplicaFalla(p)
    BY <1>1, <2>5 DEF ReplicarSesion, ReplicaFalla
  <2>6. QED BY <1>3, <2>1, <2>2, <2>3, <2>4, <2>5 DEF Verificacion
<1>4. ASSUME NEW p \in Procs, Renovacion(p) PROVE G
  <2>1. ASSUME NEW s \in Sesiones, RefrescarToken(p, s) PROVE G
    <3>1. {s} \in SUBSET Sesiones
      OBVIOUS
    <3>2. QED BY <1>0, <1>a, <2>1, <3>1 DEF RefrescarToken
  <2>2. CASE RotarJtiAccess(p)
    <3>1. proc[p].ids \subseteq Sesiones
      BY <1>0 DEF Registros
    <3>2. PICK s \in proc[p].ids :
            IF Vigente(s)
            THEN fila[s].jti < MaxJti /\ Sigue(p, [proc[p] EXCEPT !.paso = "replica", !.jti = fila[s].jti + 1])
            ELSE Termina(p)
      BY <2>2 DEF RotarJtiAccess
    <3>3. fila[s].jti \in 0..MaxJti /\ MaxJti \in Nat
      BY <3>1, SesionesAssumption DEF Tipos, TypeOK
    <3>4. fila[s].jti < MaxJti => fila[s].jti + 1 \in 0..MaxJti
      BY <3>3
    <3>5. QED BY <1>0, <1>1, <1>2, <3>2, <3>4
  <2>3. QED BY <1>4, <2>1, <2>2 DEF Renovacion
<1>5. ASSUME NEW p \in Procs, Cierre(p) PROVE G
  <2>1. ASSUME NEW s \in Sesiones, Logout(p, s) PROVE G
    <3>1. {s} \in SUBSET Sesiones
      OBVIOUS
    <3>2. CASE Sigue(p, [Reposo EXCEPT !.paso = "borra", !.ids = {s}])
      BY <1>0, <1>a, <3>1, <3>2
    <3>3. CASE proc' = proc
      BY <1>0, <3>3 DEF ConToken
    <3>4. QED BY <2>1, <3>2, <3>3 DEF Logout, CerrarSesion
  <2>2. ASSUME NEW s \in Sesiones, RevocarOtrasSesiones(p, s) PROVE G
    <3>1. Activas \ {s} \in SUBSET Sesiones
      BY DEF Activas
    <3>2. QED BY <1>0, <1>a, <2>2, <3>1 DEF RevocarOtrasSesiones
  <2>3. ASSUME NEW tras \in {"reposo", "desactiva"}, RevocarSesionesDeUsuario(p, tras) PROVE G
    <3>1. Activas \in SUBSET Sesiones
      BY DEF Activas
    <3>2. QED BY <1>0, <1>a, <2>3, <3>1 DEF RevocarSesionesDeUsuario
  <2>4. CASE EliminarSesiones(p) \/ EliminarSesionesFalla(p)
    <3> DEFINE r == [Reposo EXCEPT !.paso = proc[p].tras]
    <3>1. proc[p].tras \in Pasos /\ proc[p].tras \notin {"consume", "crea"}
      BY <1>0 DEF Registros
    <3>2. r \in Registros /\ r.paso = proc[p].tras
      BY <3>1, Inicios DEF Registros
    <3>3. Sigue(p, r)
      BY <2>4 DEF EliminarSesiones, EliminarSesionesFalla
    <3>4. QED BY <3>1, <3>2, <3>3, TipoSigue
  <2>5. CASE Suspender(p)
    BY <1>1, <2>5 DEF Suspender
  <2>6. QED BY <1>5, <2>1, <2>2, <2>3, <2>4, <2>5 DEF Cierre
<1>6. ASSUME NEW p \in Procs, Baja(p) PROVE G
  <2>1. Activas \in SUBSET Sesiones /\ {} \in SUBSET Sesiones
    BY DEF Activas
  <2>2. CASE IniciarBaja(p)
    BY <1>0, <1>a, <2>1, <2>2 DEF IniciarBaja
  <2>3. CASE BajaBorraCopias(p)
    BY <1>0, <1>a, <2>1, <2>3 DEF BajaBorraCopias
  <2>4. CASE BajaFalla(p) \/ ConfirmarBaja(p)
    BY <1>1, <2>4 DEF BajaFalla, ConfirmarBaja
  <2>5. QED BY <1>6, <2>2, <2>3, <2>4 DEF Baja
<1>7. CASE Caida
  <2>1. Reposo \in Registros /\ Reposo.paso = "reposo"
    BY Inicios DEF Reposo
  <2>2. QED BY <1>7, <2>1 DEF Caida, ConToken
<1>8. CASE proc' = proc
  BY <1>0, <1>8 DEF ConToken
<1>9. QED BY <1>3, <1>4, <1>5, <1>6, <1>7, <1>8
          DEF Next, Login, VencePre2FA, Vencer, VenceCopia, Reactivar, Purgar, ReiniciaRedis

\* And so does everything else.
LEMMA TiposPaso ==
  ASSUME Tipos, Next
  PROVE  Tipos'
<1> DEFINE Resto == /\ cuenta \in Cuentas /\ bajaEnCurso \in SUBSET Sesiones
                    /\ copia \in [Sesiones -> 0..MaxJti] /\ pre2fa \in SUBSET Tokens
                    /\ cookie \in SUBSET Sesiones /\ fallos \in 0..MaxFallos
                    /\ usados \subseteq Tokens /\ causa \subseteq Sesiones
<1>0. /\ Resto /\ ConToken /\ MaxFallos \in Nat /\ 0 \in 0..MaxJti
      /\ \A p \in Procs : proc[p].ids \subseteq Sesiones /\ proc[p].jti \in 0..MaxJti
  BY SesionesAssumption DEF Tipos, TypeOK, Cuentas
<1>1. Falla => fallos' \in 0..MaxFallos
  BY <1>0 DEF Falla
<1>2. ASSUME NEW p \in Procs, Verificacion(p) PROVE Resto'
  <2>1. ASSUME NEW t \in Tokens, VerificarTotp(p, t) PROVE Resto'
    BY <1>0, <2>1 DEF VerificarTotp
  <2>2. CASE ConsumePre2FA(p)
    BY <1>0, <2>2 DEF ConsumePre2FA
  <2>3. ASSUME NEW s \in Sesiones, CrearSesion(p, s) PROVE Resto'
    BY <1>0, <2>3 DEF CrearSesion, ConToken, En
  <2>4. ASSUME NEW s \in Sesiones, VerificarSesionAccess(p, s) PROVE Resto'
    BY <1>0, <1>1, <2>4 DEF VerificarSesionAccess
  <2>5. CASE ReplicarSesion(p)
    <3>1. PICK s \in proc[p].ids :
            /\ copia' = copia \/ copia' = [copia EXCEPT ![s] = proc[p].jti]
            /\ causa' = causa \/ causa' = causa \cup {s}
      BY <2>5 DEF ReplicarSesion
    <3>2. QED BY <1>0, <2>5, <3>1 DEF ReplicarSesion
  <2>6. CASE ReplicaFalla(p)
    BY <1>0, <1>1, <2>6 DEF ReplicaFalla
  <2>7. QED BY <1>2, <2>1, <2>2, <2>3, <2>4, <2>5, <2>6 DEF Verificacion
<1>3. ASSUME NEW p \in Procs, Renovacion(p) PROVE Resto'
  BY <1>0, <1>3 DEF Renovacion, RefrescarToken, RotarJtiAccess
<1>4. ASSUME NEW p \in Procs, Cierre(p) PROVE Resto'
  <2>1. ASSUME NEW s \in Sesiones, Logout(p, s) \/ RevocarOtrasSesiones(p, s) PROVE Resto'
    BY <1>0, <2>1 DEF Logout, CerrarSesion, RevocarOtrasSesiones
  <2>2. ASSUME NEW tras, RevocarSesionesDeUsuario(p, tras) PROVE Resto'
    BY <1>0, <2>2 DEF RevocarSesionesDeUsuario
  <2>3. CASE EliminarSesiones(p)
    BY <1>0, <2>3 DEF EliminarSesiones
  <2>4. CASE EliminarSesionesFalla(p)
    BY <1>0, <1>1, <2>4 DEF EliminarSesionesFalla
  <2>5. CASE Suspender(p)
    BY <1>0, <2>5 DEF Suspender, Cuentas
  <2>6. QED BY <1>4, <2>1, <2>2, <2>3, <2>4, <2>5 DEF Cierre
<1>5. ASSUME NEW p \in Procs, Baja(p) PROVE Resto'
  <2>1. CASE IniciarBaja(p)
    BY <1>0, <2>1 DEF IniciarBaja, Activas
  <2>2. CASE BajaBorraCopias(p)
    BY <1>0, <2>2 DEF BajaBorraCopias
  <2>3. CASE BajaFalla(p)
    BY <1>0, <1>1, <2>3 DEF BajaFalla
  <2>4. CASE ConfirmarBaja(p)
    BY <1>0, <2>4 DEF ConfirmarBaja, Cuentas
  <2>5. QED BY <1>5, <2>1, <2>2, <2>3, <2>4 DEF Baja
<1>6. ASSUME NEW t \in Tokens, Login(t) \/ VencePre2FA(t) PROVE Resto'
  BY <1>0, <1>6 DEF Login, VencePre2FA
<1>7. ASSUME NEW s \in Sesiones, Vencer(s) \/ VenceCopia(s) PROVE Resto'
  BY <1>0, <1>7 DEF Vencer, VenceCopia
<1>8. ASSUME Reactivar PROVE Resto'
  BY <1>0, <1>8 DEF Reactivar, Cuentas
<1>9. ASSUME Purgar PROVE Resto'
  BY <1>0, <1>9 DEF Purgar
<1>10. ASSUME ReiniciaRedis PROVE Resto'
  BY <1>0, <1>1, <1>10 DEF ReiniciaRedis
<1>11. ASSUME Caida PROVE Resto'
  BY <1>0, <1>1, <1>11 DEF Caida
<1>12. Resto'
  <2> HIDE DEF Resto
  <2>1. QED BY <1>2, <1>3, <1>4, <1>5, <1>6, <1>7, <1>8, <1>9, <1>10, <1>11 DEF Next
<1>13. TypeOK'
  BY <1>12, TipoFila, TipoProc DEF Tipos, TypeOK, Cuentas, Filas, Registros
<1>14. QED BY <1>13, TipoProc DEF Tipos

-----------------------------------------------------------------------------
(* PostgreSQL *)

\* A closed row stays closed, with its access: no step opens or renews it.
LEMMA CerradaEstable ==
  ASSUME Tipos, Next, NEW s \in Sesiones, fila[s].est \in {"cerrada", "purgada"}
  PROVE  fila'[s].est \in {"cerrada", "purgada"} /\ fila'[s].jti = fila[s].jti
<1>0. fila \in [Sesiones -> Filas]
  BY DEF Tipos, TypeOK, Filas
<1>1. ASSUME NEW ids, Cerrar(ids) PROVE fila'[s].est \in {"cerrada", "purgada"} /\ fila'[s].jti = fila[s].jti
  BY <1>0, <1>1 DEF Cerrar, Filas
<1>2. ASSUME NEW p \in Procs, NEW u \in Sesiones, CrearSesion(p, u) PROVE fila'[s] = fila[s]
  BY <1>0, <1>2 DEF CrearSesion
<1>3. ASSUME NEW p \in Procs, RotarJtiAccess(p) PROVE fila'[s] = fila[s]
  <2>1. PICK u \in proc[p].ids : fila' = fila \/ (Vigente(u) /\ fila' = [fila EXCEPT ![u].jti = @ + 1])
    BY <1>3 DEF RotarJtiAccess
  <2>2. Vigente(u) => u # s
    BY DEF Vigente
  <2>3. QED BY <1>0, <2>1, <2>2
<1>4. ASSUME NEW u \in Sesiones, Vencer(u) PROVE fila'[s].est = fila[s].est /\ fila'[s].jti = fila[s].jti
  BY <1>0, <1>4 DEF Vencer, Filas
<1>5. ASSUME Purgar PROVE fila'[s].est \in {"cerrada", "purgada"} /\ fila'[s].jti = fila[s].jti
  BY <1>0, <1>5 DEF Purgar, Filas
<1>6. QED BY <1>1, <1>2, <1>3, <1>4, <1>5, CambioDeFila

\* A session that is alive after a step was alive before it, or CrearSesion
\* opened it; and one that is not alive did not cease to be expired.
LEMMA DondeVienen ==
  ASSUME Tipos, Next, NEW s \in Sesiones
  PROVE  /\ fila'[s].est = "viva" => fila[s].est = "viva" \/ \E p \in Procs : CrearSesion(p, s)
         /\ fila[s].vencida => fila'[s].vencida \/ fila'[s].est = "viva"
<1> DEFINE G == /\ fila'[s].est = "viva" => fila[s].est = "viva" \/ \E p \in Procs : CrearSesion(p, s)
                /\ fila[s].vencida => fila'[s].vencida \/ fila'[s].est = "viva"
<1>0. fila \in [Sesiones -> Filas]
  BY DEF Tipos, TypeOK, Filas
<1>1. ASSUME NEW ids, Cerrar(ids) PROVE G
  BY <1>0, <1>1 DEF Cerrar, Filas
<1>2. ASSUME NEW p \in Procs, NEW u \in Sesiones, CrearSesion(p, u) PROVE G
  <2>1. fila' = [fila EXCEPT ![u] = [est |-> "viva", jti |-> 1, vencida |-> FALSE]]
    BY <1>2 DEF CrearSesion
  <2>2. QED BY <1>0, <1>2, <2>1
<1>3. ASSUME NEW p \in Procs, RotarJtiAccess(p) PROVE G
  <2>1. PICK u \in proc[p].ids : fila' = fila \/ fila' = [fila EXCEPT ![u].jti = @ + 1]
    BY <1>3 DEF RotarJtiAccess
  <2>2. QED BY <1>0, <2>1 DEF Filas
<1>4. ASSUME NEW u \in Sesiones, Vencer(u) PROVE G
  <2>1. fila' = [fila EXCEPT ![u].vencida = TRUE]
    BY <1>4 DEF Vencer
  <2>2. QED BY <1>0, <1>4, <2>1 DEF Filas
<1>5. ASSUME Purgar PROVE G
  BY <1>0, <1>5 DEF Purgar, Filas
<1>6. QED BY <1>1, <1>2, <1>3, <1>4, <1>5, CambioDeFila

-----------------------------------------------------------------------------
(* The deletion *)

\* A handler that takes no part in a deletion moves, and starts none.
Ajeno(p) ==
    /\ ~EnBaja(p) /\ ~EnBaja(p)' /\ bajaEnCurso' = bajaEnCurso
    /\ \A q \in Procs \ {p} : proc'[q] = proc[q]

\* What a handler's move needs to show.
LEMMA Mueve ==
  ASSUME Tipos, NEW p \in Procs, ~EnBaja(p), bajaEnCurso' = bajaEnCurso,
         NEW r, Sigue(p, r), r.paso \notin {"baja", "confirma"}
  PROVE  Ajeno(p)
<1>1. proc \in [Procs -> Registros]
  BY DEF Tipos, TypeOK, Registros
<1>2. QED BY <1>1 DEF Sigue, Ajeno, EnBaja

\* Such handlers aside, only a deletion or a crash changes who is in one.
LEMMA CambioDeProc ==
  ASSUME Tipos, Next
  PROVE  \/ proc' = proc /\ bajaEnCurso' = bajaEnCurso
         \/ \E p \in Procs : Ajeno(p) \/ Baja(p)
         \/ Caida
<1>0. /\ \A p \in Procs : proc[p] \in Registros
      /\ Reposo \in Registros /\ Reposo.paso = "reposo"
      /\ \A p \in Procs, paso \in {"consume", "crea", "replica", "rota", "borra", "desactiva", "reposo"} :
            En(p, paso) => ~EnBaja(p)
      /\ \A p \in Procs : EnReposo(p) => ~EnBaja(p)
  BY Inicios DEF Tipos, TypeOK, Registros, Reposo, En, EnReposo, EnBaja
<1>1. ASSUME NEW p \in Procs, Verificacion(p) PROVE Ajeno(p)
  <2>1. ASSUME NEW t \in Tokens, VerificarTotp(p, t) PROVE Ajeno(p)
    BY <1>0, <2>1, Mueve DEF VerificarTotp, Reposo
  <2>2. CASE ConsumePre2FA(p)
    <3>1. [proc[p] EXCEPT !.paso = "crea"].paso = "crea"
      BY <1>0 DEF Registros
    <3>2. QED BY <1>0, <2>2, <3>1, Mueve DEF ConsumePre2FA, Termina
  <2>3. ASSUME NEW s \in Sesiones, CrearSesion(p, s) PROVE Ajeno(p)
    BY <1>0, <2>3, Mueve DEF CrearSesion, Reposo
  <2>4. ASSUME NEW s \in Sesiones, VerificarSesionAccess(p, s) PROVE Ajeno(p)
    <3>1. PICK j \in 1..MaxJti : Sigue(p, [Reposo EXCEPT !.paso = "replica", !.ids = {s}, !.jti = j])
      BY <2>4 DEF VerificarSesionAccess
    <3>2. QED BY <1>0, <2>4, <3>1, Mueve DEF VerificarSesionAccess, Reposo
  <2>5. CASE ReplicarSesion(p) \/ ReplicaFalla(p)
    BY <1>0, <2>5, Mueve DEF ReplicarSesion, ReplicaFalla, Termina
  <2>6. QED BY <1>1, <2>1, <2>2, <2>3, <2>4, <2>5 DEF Verificacion
<1>2. ASSUME NEW p \in Procs, Renovacion(p) PROVE Ajeno(p)
  <2>1. ASSUME NEW s \in Sesiones, RefrescarToken(p, s) PROVE Ajeno(p)
    BY <1>0, <2>1, Mueve DEF RefrescarToken, Reposo
  <2>2. CASE RotarJtiAccess(p)
    <3>1. \A j : [proc[p] EXCEPT !.paso = "replica", !.jti = j].paso = "replica"
      BY <1>0 DEF Registros
    <3>2. PICK s \in proc[p].ids :
            Sigue(p, [proc[p] EXCEPT !.paso = "replica", !.jti = fila[s].jti + 1]) \/ Termina(p)
      BY <2>2 DEF RotarJtiAccess
    <3>3. QED BY <1>0, <2>2, <3>1, <3>2, Mueve DEF RotarJtiAccess, Termina
  <2>3. QED BY <1>2, <2>1, <2>2 DEF Renovacion
<1>3. ASSUME NEW p \in Procs, Cierre(p) PROVE Ajeno(p) \/ (proc' = proc /\ bajaEnCurso' = bajaEnCurso)
  <2>1. ASSUME NEW s \in Sesiones, Logout(p, s) PROVE Ajeno(p) \/ (proc' = proc /\ bajaEnCurso' = bajaEnCurso)
    BY <1>0, <2>1, Mueve DEF Logout, CerrarSesion, Reposo
  <2>2. ASSUME NEW s \in Sesiones, RevocarOtrasSesiones(p, s) PROVE Ajeno(p)
    BY <1>0, <2>2, Mueve DEF RevocarOtrasSesiones, Reposo
  <2>3. ASSUME NEW tras, RevocarSesionesDeUsuario(p, tras) PROVE Ajeno(p)
    BY <1>0, <2>3, Mueve DEF RevocarSesionesDeUsuario, Reposo
  <2>4. CASE EliminarSesiones(p) \/ EliminarSesionesFalla(p)
    <3>1. [Reposo EXCEPT !.paso = proc[p].tras].paso = proc[p].tras
          /\ proc[p].tras \notin {"baja", "confirma"}
      BY <1>0 DEF Registros
    <3>2. QED BY <1>0, <2>4, <3>1, Mueve DEF EliminarSesiones, EliminarSesionesFalla
  <2>5. CASE Suspender(p)
    BY <1>0, <2>5, Mueve DEF Suspender, Termina
  <2>6. QED BY <1>3, <2>1, <2>2, <2>3, <2>4, <2>5 DEF Cierre
<1>4. QED BY <1>1, <1>2, <1>3
          DEF Next, Login, VencePre2FA, Vencer, VenceCopia, Reactivar, Purgar, ReiniciaRedis

\* The four steps of a deletion, as far as its own handler is concerned.
LEMMA PasoDeBaja ==
  ASSUME Tipos, NEW p \in Procs, Baja(p)
  PROVE  /\ \A q \in Procs \ {p} : proc'[q] = proc[q]
         /\ \/ /\ IniciarBaja(p) /\ bajaEnCurso' = Activas
               /\ \A q \in Procs : ~EnBaja(q)
               /\ proc'[p].paso = "baja" /\ proc'[p].ids = Activas
            \/ /\ BajaBorraCopias(p) /\ bajaEnCurso' = bajaEnCurso
               /\ EnBaja(p) /\ proc'[p].paso = "confirma" /\ proc'[p].ids = proc[p].ids
            \/ /\ BajaFalla(p) \/ ConfirmarBaja(p)
               /\ EnBaja(p) /\ bajaEnCurso' = {} /\ proc'[p].paso = "reposo"
<1>0. proc \in [Procs -> Registros] /\ proc[p] \in Registros
  BY DEF Tipos, TypeOK, Registros
<1>1. CASE IniciarBaja(p)
  <2>1. /\ [Reposo EXCEPT !.paso = "baja", !.ids = Activas].paso = "baja"
        /\ [Reposo EXCEPT !.paso = "baja", !.ids = Activas].ids = Activas
    BY DEF Reposo
  <2>2. QED BY <1>0, <1>1, <2>1 DEF IniciarBaja, Sigue, SinBaja, En, EnBaja
<1>2. CASE BajaBorraCopias(p)
  <2>1. /\ [proc[p] EXCEPT !.paso = "confirma"].paso = "confirma"
        /\ [proc[p] EXCEPT !.paso = "confirma"].ids = proc[p].ids
    BY <1>0 DEF Registros
  <2>2. QED BY <1>0, <1>2, <2>1 DEF BajaBorraCopias, Sigue, En, EnBaja
<1>3. CASE BajaFalla(p) \/ ConfirmarBaja(p)
  <2>1. Reposo.paso = "reposo"
    BY DEF Reposo
  <2>2. QED BY <1>0, <1>3, <2>1 DEF BajaFalla, ConfirmarBaja, Termina, Sigue, En, EnBaja
<1>4. QED BY <1>1, <1>2, <1>3 DEF Baja

\* At most one deletion, and it holds what its handler carries.
LEMMA ExclusivaPaso ==
  ASSUME Tipos, Exclusiva, Next
  PROVE  Exclusiva'
<1>1. CASE proc' = proc /\ bajaEnCurso' = bajaEnCurso
  BY <1>1 DEF Exclusiva, EnBaja
<1>2. ASSUME NEW p \in Procs, Ajeno(p) PROVE Exclusiva'
  BY <1>2 DEF Exclusiva, EnBaja, Ajeno
<1>3. ASSUME NEW p \in Procs, Baja(p) PROVE Exclusiva'
  BY <1>3, PasoDeBaja DEF Exclusiva, EnBaja
<1>4. CASE Caida
  BY <1>4 DEF Caida, Exclusiva, EnBaja, Reposo
<1>5. QED BY <1>1, <1>2, <1>3, <1>4, CambioDeProc

\* No session is opened while a deletion lasts.
LEMMA RetenidasPaso ==
  ASSUME Tipos, Exclusiva, Retenidas, Next
  PROVE  Retenidas'
<1> SUFFICES ASSUME NEW p \in Procs, EnBaja(p)', NEW s \in Sesiones, fila'[s].est = "viva"
             PROVE  s \in bajaEnCurso'
  BY DEF Retenidas
<1>1. ASSUME EnBaja(p), bajaEnCurso' = bajaEnCurso PROVE s \in bajaEnCurso'
  <2>1. fila[s].est = "viva"
    BY <1>1, DondeVienen DEF CrearSesion, SinBaja, En, EnBaja
  <2>2. QED BY <1>1, <2>1 DEF Retenidas
<1>2. ASSUME NEW q \in Procs, Baja(q) PROVE s \in bajaEnCurso'
  <2>1. CASE IniciarBaja(q)
    BY <2>1 DEF IniciarBaja, Activas
  <2>2. CASE bajaEnCurso' = bajaEnCurso /\ EnBaja(q) /\ \A o \in Procs \ {q} : proc'[o] = proc[o]
    BY <1>1, <2>2 DEF EnBaja
  <2>3. CASE EnBaja(q) /\ proc'[q].paso = "reposo" /\ \A o \in Procs \ {q} : proc'[o] = proc[o]
    BY <2>3 DEF Exclusiva, EnBaja
  <2>4. QED BY <1>2, <2>1, <2>2, <2>3, PasoDeBaja
<1>3. ASSUME NEW q \in Procs, Ajeno(q) PROVE s \in bajaEnCurso'
  BY <1>1, <1>3 DEF Ajeno, EnBaja
<1>4. CASE proc' = proc /\ bajaEnCurso' = bajaEnCurso
  BY <1>1, <1>4 DEF EnBaja
<1>5. CASE Caida
  BY <1>5 DEF Caida, Reposo, EnBaja
<1>6. QED BY <1>2, <1>3, <1>4, <1>5, CambioDeProc

-----------------------------------------------------------------------------
(* Who deletes copies, and of which sessions *)

\* A handler about to delete the copies of some sessions was already about to,
\* or has just closed their rows.
LEMMA EmpiezaBorrado ==
  ASSUME Tipos, Next, NEW p \in Procs, En(p, "borra")'
  PROVE  \/ proc'[p] = proc[p]
         \/ \A s \in proc'[p].ids : fila'[s].est = "cerrada"
<1> DEFINE G == \/ proc'[p] = proc[p]
                \/ \A s \in proc'[p].ids : fila'[s].est = "cerrada"
<1>0. /\ proc \in [Procs -> Registros] /\ fila \in [Sesiones -> Filas]
      /\ \A q \in Procs : proc[q] \in Registros
      /\ Reposo \in Registros /\ Reposo.paso = "reposo"
  BY Inicios DEF Tipos, TypeOK, Registros, Filas, Reposo
<1>a. ASSUME NEW q \in Procs, NEW r, Sigue(q, r), r.paso # "borra" PROVE G
  BY <1>0, <1>a DEF Sigue, En
<1>b. ASSUME NEW q \in Procs, NEW r, Sigue(q, r), NEW ids, r.ids = ids, Cerrar(ids),
             \A s \in ids : s \in Sesiones /\ Existe(s)
      PROVE  G
  <2>1. \A s \in ids : fila'[s].est = "cerrada"
    BY <1>0, <1>b DEF Cerrar, Filas
  <2>2. QED BY <1>0, <1>b, <2>1 DEF Sigue, En
<1>1. ASSUME NEW q \in Procs, Verificacion(q) PROVE G
  <2>1. ASSUME NEW t \in Tokens, VerificarTotp(q, t) PROVE G
    BY <1>a, <2>1 DEF VerificarTotp, Reposo
  <2>2. CASE ConsumePre2FA(q)
    <3>1. [proc[q] EXCEPT !.paso = "crea"].paso = "crea"
      BY <1>0 DEF Registros
    <3>2. QED BY <1>0, <1>a, <2>2, <3>1 DEF ConsumePre2FA, Termina
  <2>3. ASSUME NEW s \in Sesiones, CrearSesion(q, s) PROVE G
    BY <1>a, <2>3 DEF CrearSesion, Reposo
  <2>4. ASSUME NEW s \in Sesiones, VerificarSesionAccess(q, s) PROVE G
    <3>1. PICK j \in 1..MaxJti : Sigue(q, [Reposo EXCEPT !.paso = "replica", !.ids = {s}, !.jti = j])
      BY <2>4 DEF VerificarSesionAccess
    <3>2. QED BY <1>a, <3>1 DEF Reposo
  <2>5. CASE ReplicarSesion(q) \/ ReplicaFalla(q)
    BY <1>0, <1>a, <2>5 DEF ReplicarSesion, ReplicaFalla, Termina
  <2>6. QED BY <1>1, <2>1, <2>2, <2>3, <2>4, <2>5 DEF Verificacion
<1>2. ASSUME NEW q \in Procs, Renovacion(q) PROVE G
  <2>1. ASSUME NEW s \in Sesiones, RefrescarToken(q, s) PROVE G
    BY <1>a, <2>1 DEF RefrescarToken, Reposo
  <2>2. CASE RotarJtiAccess(q)
    <3>1. \A j : [proc[q] EXCEPT !.paso = "replica", !.jti = j].paso = "replica"
      BY <1>0 DEF Registros
    <3>2. PICK s \in proc[q].ids :
            Sigue(q, [proc[q] EXCEPT !.paso = "replica", !.jti = fila[s].jti + 1]) \/ Termina(q)
      BY <2>2 DEF RotarJtiAccess
    <3>3. QED BY <1>0, <1>a, <3>1, <3>2 DEF Termina
  <2>3. QED BY <1>2, <2>1, <2>2 DEF Renovacion
<1>3. ASSUME NEW q \in Procs, Cierre(q) PROVE G
  <2>1. ASSUME NEW s \in Sesiones, Logout(q, s) PROVE G
    <3>1. [Reposo EXCEPT !.paso = "borra", !.ids = {s}].ids = {s}
      BY DEF Reposo
    <3>2. QED BY <1>b, <2>1, <3>1 DEF Logout, CerrarSesion
  <2>2. ASSUME NEW s \in Sesiones, RevocarOtrasSesiones(q, s) PROVE G
    <3>1. [Reposo EXCEPT !.paso = "borra", !.ids = Activas \ {s}].ids = Activas \ {s}
      BY DEF Reposo
    <3>2. \A u \in Activas \ {s} : u \in Sesiones /\ Existe(u)
      BY DEF Activas, Existe
    <3>3. QED BY <1>b, <2>2, <3>1, <3>2 DEF RevocarOtrasSesiones
  <2>3. ASSUME NEW tras, RevocarSesionesDeUsuario(q, tras) PROVE G
    <3>1. [Reposo EXCEPT !.paso = "borra", !.ids = Activas, !.tras = tras].ids = Activas
      BY DEF Reposo
    <3>2. \A u \in Activas : u \in Sesiones /\ Existe(u)
      BY DEF Activas, Existe
    <3>3. QED BY <1>b, <2>3, <3>1, <3>2 DEF RevocarSesionesDeUsuario
  <2>4. CASE EliminarSesiones(q) \/ EliminarSesionesFalla(q)
    <3>1. [Reposo EXCEPT !.paso = proc[q].tras].paso = proc[q].tras /\ proc[q].tras # "borra"
      BY <1>0 DEF Registros
    <3>2. QED BY <1>a, <2>4, <3>1 DEF EliminarSesiones, EliminarSesionesFalla
  <2>5. CASE Suspender(q)
    BY <1>0, <1>a, <2>5 DEF Suspender, Termina
  <2>6. QED BY <1>3, <2>1, <2>2, <2>3, <2>4, <2>5 DEF Cierre
<1>4. ASSUME NEW q \in Procs, Baja(q) PROVE G
  BY <1>4, PasoDeBaja DEF En
<1>5. CASE Caida
  BY <1>0, <1>5 DEF Caida, En
<1>6. QED BY <1>1, <1>2, <1>3, <1>4, <1>5
          DEF Next, Login, VencePre2FA, Vencer, VenceCopia, Reactivar, Purgar, ReiniciaRedis

\* The rows of a pending DEL stay closed.
LEMMA BorraCerradasPaso ==
  ASSUME Tipos, BorraCerradas, Next
  PROVE  BorraCerradas'
<1> SUFFICES ASSUME NEW p \in Procs, En(p, "borra")', NEW s \in proc'[p].ids
             PROVE  fila'[s].est \in {"cerrada", "purgada"}
  BY DEF BorraCerradas
<1>1. CASE proc'[p] = proc[p]
  <2>1. s \in Sesiones /\ fila[s].est \in {"cerrada", "purgada"}
    BY <1>1 DEF BorraCerradas, En, Tipos, TypeOK
  <2>2. QED BY <2>1, CerradaEstable
<1>2. QED BY <1>1, EmpiezaBorrado

\* A handler moves only by a step of its own, or is lost in a crash.
LEMMA PasoPropio ==
  ASSUME Tipos, Next, NEW p \in Procs
  PROVE  proc'[p] = proc[p] \/ Verificacion(p) \/ Renovacion(p) \/ Cierre(p) \/ Baja(p) \/ Caida
<1> DEFINE G == proc'[p] = proc[p]
<1>0. proc \in [Procs -> Registros]
  BY DEF Tipos, TypeOK, Registros
<1>a. ASSUME NEW q \in Procs, q # p, NEW r, Sigue(q, r) PROVE G
  BY <1>0, <1>a DEF Sigue
<1>1. ASSUME NEW q \in Procs, q # p, Verificacion(q) PROVE G
  BY <1>a, <1>1 DEF Verificacion, VerificarTotp, ConsumePre2FA, CrearSesion, VerificarSesionAccess, ReplicarSesion,
     ReplicaFalla, Termina
<1>2. ASSUME NEW q \in Procs, q # p, Renovacion(q) PROVE G
  BY <1>a, <1>2 DEF Renovacion, RefrescarToken, RotarJtiAccess, Termina
<1>3. ASSUME NEW q \in Procs, q # p, Cierre(q) PROVE G
  BY <1>a, <1>3 DEF Cierre, Logout, CerrarSesion, RevocarOtrasSesiones, RevocarSesionesDeUsuario, EliminarSesiones,
     EliminarSesionesFalla, Suspender, Termina
<1>4. ASSUME NEW q \in Procs, q # p, Baja(q) PROVE G
  BY <1>4, PasoDeBaja
<1>5. QED BY <1>1, <1>2, <1>3, <1>4
          DEF Next, Login, VencePre2FA, Vencer, VenceCopia, Reactivar, Purgar, ReiniciaRedis

\* A pending deletion of copies ends in one of three ways.
LEMMA FinDeBorrado ==
  ASSUME Tipos, Next, NEW p \in Procs, En(p, "borra")
  PROVE  proc'[p] = proc[p] \/ EliminarSesiones(p) \/ EliminarSesionesFalla(p) \/ Caida
<1>1. ~Verificacion(p)
  BY DEF Verificacion, VerificarTotp, ConsumePre2FA, CrearSesion, VerificarSesionAccess, ReplicarSesion,
     ReplicaFalla, En, EnReposo
<1>2. ~Renovacion(p)
  BY DEF Renovacion, RefrescarToken, RotarJtiAccess, En, EnReposo
<1>3. ~Baja(p)
  BY DEF Baja, IniciarBaja, BajaBorraCopias, BajaFalla, ConfirmarBaja, En, EnReposo
<1>4. Cierre(p) => EliminarSesiones(p) \/ EliminarSesionesFalla(p)
  BY DEF Cierre, Logout, RevocarOtrasSesiones, RevocarSesionesDeUsuario, Suspender, En, EnReposo
<1>5. QED BY <1>1, <1>2, <1>3, <1>4, PasoPropio

\* A cause is forgotten only with the copy it explains.
LEMMA CausaDura ==
  ASSUME Tipos, Next, NEW s \in causa, s \notin causa'
  PROVE  \E p \in Procs : EliminarSesiones(p) /\ s \in proc[p].ids /\ copia'[s] = 0
<1>0. s \in Sesiones
  BY DEF Tipos, TypeOK
<1>1. ASSUME NEW p \in Procs, Verificacion(p) PROVE FALSE
  BY <1>1 DEF Verificacion, VerificarTotp, ConsumePre2FA, CrearSesion, VerificarSesionAccess, ReplicarSesion,
     ReplicaFalla
<1>2. ASSUME NEW p \in Procs, Renovacion(p) PROVE FALSE
  BY <1>2 DEF Renovacion, RefrescarToken, RotarJtiAccess
<1>3. ASSUME NEW p \in Procs, Cierre(p)
      PROVE  EliminarSesiones(p) /\ s \in proc[p].ids /\ copia'[s] = 0
  BY <1>0, <1>3 DEF Cierre, Logout, CerrarSesion, RevocarOtrasSesiones, RevocarSesionesDeUsuario, EliminarSesiones,
     EliminarSesionesFalla, Suspender
<1>4. ASSUME NEW p \in Procs, Baja(p) PROVE FALSE
  BY <1>4 DEF Baja, IniciarBaja, BajaBorraCopias, BajaFalla, ConfirmarBaja
<1>5. QED BY <1>1, <1>2, <1>3, <1>4
          DEF Next, Login, VencePre2FA, Vencer, VenceCopia, Reactivar, Purgar, ReiniciaRedis, Caida

\* A copy that was not there was written by a replication: of a session
\* alive and outside any deletion, or with a cause.
LEMMA CopiaNueva ==
  ASSUME Tipos, Next, NEW s \in Sesiones, copia[s] = 0, copia'[s] # 0
  PROVE  /\ fila' = fila
         /\ s \in causa' \/ (fila[s].est = "viva" /\ s \notin bajaEnCurso)
<1> DEFINE G == /\ fila' = fila
                /\ s \in causa' \/ (fila[s].est = "viva" /\ s \notin bajaEnCurso)
<1>0. copia \in [Sesiones -> 0..MaxJti]
  BY DEF Tipos, TypeOK
<1>1. ASSUME NEW p \in Procs, Verificacion(p) PROVE G
  <2>1. CASE ReplicarSesion(p)
    <3>1. PICK u \in proc[p].ids :
             \/ UNCHANGED <<copia, causa>>
             \/ /\ copia' = [copia EXCEPT ![u] = proc[p].jti]
                /\ causa' = IF fila[u].est # "viva" \/ u \in bajaEnCurso THEN causa \cup {u} ELSE causa
      BY <2>1 DEF ReplicarSesion
    <3>2. u = s /\ copia' # copia
      BY <1>0, <3>1
    <3>3. s \in causa' \/ (fila[s].est = "viva" /\ s \notin bajaEnCurso)
      BY <3>1, <3>2
    <3>4. QED BY <2>1, <3>2, <3>3 DEF ReplicarSesion
  <2>2. QED BY <1>1, <2>1 DEF Verificacion, VerificarTotp, ConsumePre2FA, CrearSesion, VerificarSesionAccess, ReplicaFalla
<1>2. ASSUME NEW p \in Procs, Renovacion(p) PROVE FALSE
  BY <1>2 DEF Renovacion, RefrescarToken, RotarJtiAccess
<1>3. ASSUME NEW p \in Procs, Cierre(p) PROVE FALSE
  BY <1>0, <1>3 DEF Cierre, Logout, CerrarSesion, RevocarOtrasSesiones, RevocarSesionesDeUsuario, EliminarSesiones,
     EliminarSesionesFalla, Suspender
<1>4. ASSUME NEW p \in Procs, Baja(p) PROVE FALSE
  BY <1>0, <1>4 DEF Baja, IniciarBaja, BajaBorraCopias, BajaFalla, ConfirmarBaja
<1>5. ASSUME NEW u \in Sesiones, Vencer(u) \/ VenceCopia(u) PROVE FALSE
  BY <1>0, <1>5 DEF Vencer, VenceCopia
<1>6. QED BY <1>0, <1>1, <1>2, <1>3, <1>4, <1>5
          DEF Next, Login, VencePre2FA, Reactivar, Purgar, ReiniciaRedis, Caida

\* A session ceases to be alive in one of three ways.
LEMMA CierraFila ==
  ASSUME Tipos, Next, NEW s \in Sesiones, fila[s].est = "viva", fila'[s].est # "viva"
  PROVE  \/ BorradoPendiente(s)'
         \/ \E p \in Procs : ConfirmarBaja(p) /\ s \in proc[p].ids
         \/ fila[s].vencida /\ Purgar
<1> DEFINE G == \/ BorradoPendiente(s)'
                \/ \E p \in Procs : ConfirmarBaja(p) /\ s \in proc[p].ids
                \/ fila[s].vencida /\ Purgar
<1>0. fila \in [Sesiones -> Filas] /\ proc \in [Procs -> Registros]
  BY DEF Tipos, TypeOK, Filas, Registros
<1>a. ASSUME NEW ids, Cerrar(ids) PROVE s \in ids
  BY <1>0, <1>a DEF Cerrar
<1>b. ASSUME NEW p \in Procs, NEW r, Sigue(p, r), r.paso = "borra", s \in r.ids PROVE G
  BY <1>0, <1>b DEF Sigue, BorradoPendiente, En
<1>1. ASSUME NEW p \in Procs, Verificacion(p) PROVE FALSE
  <2>1. ASSUME NEW u \in Sesiones, CrearSesion(p, u) PROVE FALSE
    BY <1>0, <2>1 DEF CrearSesion
  <2>2. QED BY <1>1, <2>1 DEF Verificacion, VerificarTotp, ConsumePre2FA, VerificarSesionAccess, ReplicarSesion, ReplicaFalla
<1>2. ASSUME NEW p \in Procs, Renovacion(p) PROVE FALSE
  <2>1. ASSUME RotarJtiAccess(p) PROVE FALSE
    <3>1. PICK u \in proc[p].ids : fila' = fila \/ fila' = [fila EXCEPT ![u].jti = @ + 1]
      BY <2>1 DEF RotarJtiAccess
    <3>2. QED BY <1>0, <3>1 DEF Filas
  <2>2. QED BY <1>2, <2>1 DEF Renovacion, RefrescarToken
<1>3. ASSUME NEW p \in Procs, Cierre(p) PROVE G
  <2>1. ASSUME NEW u \in Sesiones, Logout(p, u) PROVE G
    <3>1. [Reposo EXCEPT !.paso = "borra", !.ids = {u}].paso = "borra"
          /\ [Reposo EXCEPT !.paso = "borra", !.ids = {u}].ids = {u}
      BY DEF Reposo
    <3>2. QED BY <1>a, <1>b, <2>1, <3>1 DEF Logout, CerrarSesion
  <2>2. ASSUME NEW u \in Sesiones, RevocarOtrasSesiones(p, u) PROVE G
    <3>1. [Reposo EXCEPT !.paso = "borra", !.ids = Activas \ {u}].paso = "borra"
          /\ [Reposo EXCEPT !.paso = "borra", !.ids = Activas \ {u}].ids = Activas \ {u}
      BY DEF Reposo
    <3>2. QED BY <1>a, <1>b, <2>2, <3>1 DEF RevocarOtrasSesiones
  <2>3. ASSUME NEW tras, RevocarSesionesDeUsuario(p, tras) PROVE G
    <3>1. [Reposo EXCEPT !.paso = "borra", !.ids = Activas, !.tras = tras].paso = "borra"
          /\ [Reposo EXCEPT !.paso = "borra", !.ids = Activas, !.tras = tras].ids = Activas
      BY DEF Reposo
    <3>2. QED BY <1>a, <1>b, <2>3, <3>1 DEF RevocarSesionesDeUsuario
  <2>4. QED BY <1>3, <2>1, <2>2, <2>3 DEF Cierre, EliminarSesiones, EliminarSesionesFalla, Suspender
<1>4. ASSUME NEW p \in Procs, Baja(p) PROVE G
  <2>1. CASE ConfirmarBaja(p)
    BY <1>a, <2>1 DEF ConfirmarBaja
  <2>2. QED BY <1>4, <2>1 DEF Baja, IniciarBaja, BajaBorraCopias, BajaFalla
<1>5. ASSUME NEW u \in Sesiones, Vencer(u) PROVE FALSE
  <2>1. fila' = [fila EXCEPT ![u].vencida = TRUE]
    BY <1>5 DEF Vencer
  <2>2. QED BY <1>0, <2>1 DEF Filas
<1>6. CASE Purgar
  BY <1>0, <1>6 DEF Purgar, Purgable
<1>7. QED BY <1>1, <1>2, <1>3, <1>4, <1>5, <1>6
          DEF Next, Login, VencePre2FA, VenceCopia, Reactivar, ReiniciaRedis, Caida

\* A deletion reaches its COMMIT only through the DEL of its copies.
LEMMA LlegaAConfirmar ==
  ASSUME Tipos, Next, NEW p \in Procs, En(p, "confirma")'
  PROVE  proc'[p] = proc[p] \/ BajaBorraCopias(p)
<1>1. ASSUME NEW q \in Procs, Ajeno(q) PROVE proc'[p] = proc[p]
  BY <1>1 DEF Ajeno, En, EnBaja
<1>2. ASSUME NEW q \in Procs, Baja(q) PROVE proc'[p] = proc[p] \/ BajaBorraCopias(p)
  BY <1>2, PasoDeBaja DEF En
<1>3. CASE Caida
  BY <1>3 DEF Caida, Reposo, En
<1>4. QED BY <1>1, <1>2, <1>3, CambioDeProc

\* The replication that brings a copy back meanwhile is recorded.
LEMMA SinCopiasPaso ==
  ASSUME Tipos, Exclusiva, SinCopias, Next
  PROVE  SinCopias'
<1> SUFFICES ASSUME NEW p \in Procs, En(p, "confirma")', NEW s \in proc'[p].ids, copia'[s] # 0
             PROVE  s \in causa'
  BY DEF SinCopias
<1>0. proc[p].ids \subseteq Sesiones /\ proc \in [Procs -> Registros] /\ proc[p] \in Registros
  BY DEF Tipos, TypeOK, Registros
<1>1. CASE proc'[p] = proc[p]
  <2>1. En(p, "confirma") /\ s \in proc[p].ids /\ s \in Sesiones
    BY <1>0, <1>1 DEF En
  <2>2. CASE copia[s] # 0
    BY <2>1, <2>2, CausaDura DEF SinCopias
  <2>3. CASE copia[s] = 0
    <3>1. s \in bajaEnCurso
      BY <2>1 DEF Exclusiva, EnBaja, En
    <3>2. QED BY <2>1, <2>3, <3>1, CopiaNueva
  <2>4. QED BY <2>2, <2>3
<1>2. CASE BajaBorraCopias(p)
  <2>1. [proc[p] EXCEPT !.paso = "confirma"].ids = proc[p].ids
    BY <1>0 DEF Registros
  <2>2. proc'[p].ids = proc[p].ids
    BY <1>0, <1>2, <2>1 DEF BajaBorraCopias, Sigue
  <2>3. QED BY <1>0, <1>2, <2>2 DEF BajaBorraCopias
<1>3. QED BY <1>1, <1>2, LlegaAConfirmar

\* Closing a row leaves a pending DEL; losing the DEL leaves a cause.
LEMMA CausaPaso ==
  ASSUME Tipos, SinCopias, CopiaCerradaConCausa, Next
  PROVE  CopiaCerradaConCausa'
<1> SUFFICES ASSUME NEW s \in Sesiones, copia'[s] # 0, ~fila'[s].vencida, fila'[s].est # "viva"
             PROVE  BorradoPendiente(s)' \/ s \in causa'
  BY DEF CopiaCerradaConCausa
<1>0. ~fila[s].vencida
  BY DondeVienen
<1>1. CASE copia[s] = 0
  BY <1>1, CopiaNueva
<1>2. CASE s \in causa
  BY <1>2, CausaDura
<1>3. CASE BorradoPendiente(s)
  <2>1. PICK p \in Procs : En(p, "borra") /\ s \in proc[p].ids
    BY <1>3 DEF BorradoPendiente
  <2>2. CASE proc'[p] = proc[p]
    BY <2>1, <2>2 DEF BorradoPendiente, En
  <2>3. CASE EliminarSesiones(p)
    BY <2>1, <2>3 DEF EliminarSesiones
  <2>4. CASE EliminarSesionesFalla(p)
    BY <2>1, <2>4 DEF EliminarSesionesFalla
  <2>5. CASE Caida
    BY <1>3, <2>5 DEF Caida
  <2>6. QED BY <2>1, <2>2, <2>3, <2>4, <2>5, FinDeBorrado
<1>4. CASE copia[s] # 0 /\ fila[s].est # "viva"
  BY <1>0, <1>2, <1>3, <1>4 DEF CopiaCerradaConCausa
<1>5. CASE copia[s] # 0 /\ fila[s].est = "viva"
  <2>1. ASSUME NEW p \in Procs, ConfirmarBaja(p), s \in proc[p].ids PROVE s \in causa
    BY <1>5, <2>1 DEF ConfirmarBaja, SinCopias
  <2>2. QED BY <1>0, <1>2, <1>5, <2>1, CierraFila
<1>6. QED BY <1>1, <1>4, <1>5

\* Only the COMMIT of a deletion marks the account.
LEMMA QuienElimina ==
  ASSUME Tipos, Next, cuenta'.eliminado
  PROVE  cuenta.eliminado \/ \E p \in Procs : ConfirmarBaja(p)
<1>0. cuenta \in Cuentas
  BY DEF Tipos, TypeOK, Cuentas
<1>1. ASSUME NEW p \in Procs, Verificacion(p) PROVE cuenta.eliminado
  BY <1>1 DEF Verificacion, VerificarTotp, ConsumePre2FA, CrearSesion, VerificarSesionAccess, ReplicarSesion,
     ReplicaFalla
<1>2. ASSUME NEW p \in Procs, Renovacion(p) PROVE cuenta.eliminado
  BY <1>2 DEF Renovacion, RefrescarToken, RotarJtiAccess
<1>3. ASSUME NEW p \in Procs, Cierre(p) PROVE cuenta.eliminado
  BY <1>0, <1>3 DEF Cierre, Logout, CerrarSesion, RevocarOtrasSesiones, RevocarSesionesDeUsuario, EliminarSesiones,
     EliminarSesionesFalla, Suspender, Cuentas
<1>4. ASSUME NEW p \in Procs, Baja(p) PROVE cuenta.eliminado \/ ConfirmarBaja(p)
  BY <1>4 DEF Baja, IniciarBaja, BajaBorraCopias, BajaFalla
<1>5. Reactivar => cuenta.eliminado
  BY <1>0 DEF Reactivar, Cuentas
<1>6. QED BY <1>1, <1>2, <1>3, <1>4, <1>5
          DEF Next, Login, VencePre2FA, Vencer, VenceCopia, Purgar, ReiniciaRedis, Caida

\* The COMMIT closes every live session; one opened later is late.
LEMMA TardiasPaso ==
  ASSUME Tipos, Exclusiva, Retenidas, BorraCerradas, Tardias, Next
  PROVE  Tardias'
<1> SUFFICES ASSUME cuenta'.eliminado, NEW s \in Sesiones, fila'[s].est = "viva"
             PROVE  s \in causa'
  BY DEF Tardias
<1>1. ASSUME NEW p \in Procs, ConfirmarBaja(p) PROVE FALSE
  <2>1. fila[s].est = "viva"
    <3>1. ~SinBaja
      BY <1>1 DEF ConfirmarBaja, SinBaja
    <3>2. QED BY <3>1, DondeVienen DEF CrearSesion
  <2>2. s \in proc[p].ids
    BY <1>1, <2>1 DEF ConfirmarBaja, Exclusiva, Retenidas, EnBaja, En
  <2>3. fila'[s] = [fila[s] EXCEPT !.est = "cerrada"]
    BY <1>1, <2>1, <2>2 DEF ConfirmarBaja, Cerrar, Existe
  <2>4. fila[s] \in Filas
    BY DEF Tipos, TypeOK, Filas
  <2>5. QED BY <2>3, <2>4 DEF Filas
<1>2. CASE cuenta.eliminado
  <2>1. ASSUME NEW p \in Procs, CrearSesion(p, s) PROVE s \in causa'
    BY <1>2, <2>1 DEF CrearSesion, CuentaHabilitada
  <2>2. CASE fila[s].est = "viva"
    <3>1. s \in causa
      BY <1>2, <2>2 DEF Tardias
    <3>2. ASSUME NEW p \in Procs, EliminarSesiones(p), s \in proc[p].ids PROVE FALSE
      BY <2>2, <3>2 DEF EliminarSesiones, BorraCerradas
    <3>3. QED BY <3>1, <3>2, CausaDura
  <2>3. QED BY <2>1, <2>2, DondeVienen
<1>3. QED BY <1>1, <1>2, QuienElimina

-----------------------------------------------------------------------------
(* The theorems *)

\* A stutter changes nothing.
LEMMA Estable ==
  ASSUME Tipos, UNCHANGED vars
  PROVE  Tipos'
BY DEF Tipos, TypeOK, ConToken, vars

\* Typing is inductive by itself.
LEMMA SiempreTipos == Spec => []Tipos
<1>1. Tipos /\ [Next]_vars => Tipos'
  BY TiposPaso, Estable
<1>2. QED BY TiposInicial, <1>1, PTL DEF Spec

\* Every variable keeps its type: no handler steps out of its states, and no
\* session gets more access tokens than it may.
THEOREM TipoCorrecto == Spec => []TypeOK
BY SiempreTipos, PTL DEF Tipos

\* A closed session stays closed and is never renewed again, whatever a refresh
\* read before the revocation (auth_repository.go:93).
THEOREM CierreSinVuelta == Spec => CierreDefinitivo
<1> DEFINE Accion == \A s \in Sesiones : fila[s].est \in {"cerrada", "purgada"} =>
                        fila'[s].est \in {"cerrada", "purgada"} /\ fila'[s].jti = fila[s].jti
<1>1. Tipos /\ [Next]_vars => [Accion]_vars
  BY CerradaEstable
<1>2. QED BY <1>1, SiempreTipos, PTL DEF Spec, CierreDefinitivo

\* The invariant holds at the start,
LEMMA IInvInicial == Init => IInv
BY TiposInicial DEF Init, IInv, Exclusiva, Retenidas, BorraCerradas, SinCopias, Tardias, EnBaja, En, Reposo,
   CopiaCerradaConCausa

\* every step preserves it,
LEMMA IInvPaso ==
  ASSUME IInv, [Next]_vars
  PROVE  IInv'
<1>1. CASE Next
  BY <1>1, TiposPaso, ExclusivaPaso, RetenidasPaso, BorraCerradasPaso, SinCopiasPaso, TardiasPaso,
     CausaPaso DEF IInv
<1>2. CASE UNCHANGED vars
  BY <1>2, Estable DEF IInv, vars, Exclusiva, Retenidas, BorraCerradas, SinCopias, Tardias, EnBaja, En,
     CopiaCerradaConCausa, BorradoPendiente
<1>3. QED BY <1>1, <1>2

\* and it always holds.
LEMMA SiempreIInv == Spec => []IInv
<1>1. IInv /\ [Next]_vars => IInv'
  BY IInvPaso
<1>2. QED BY IInvInicial, <1>1, PTL DEF Spec

\* A copy that still opens a closed session has one of the three causes
\* (sesiones.go:17-25, auth_service.go:553).
THEOREM CopiasConCausa == Spec => []CopiaCerradaConCausa
BY SiempreIInv, PTL DEF IInv

\* A deletion that was reported leaves no access behind but what was in flight
\* or an earlier revocation had left (user_service.go:220-242).
THEOREM EliminadaRevocada == Spec => []BajaRevoca
<1>1. IInv => BajaRevoca
  <2> SUFFICES ASSUME IInv, cuenta.eliminado, NEW s \in Sesiones, NEW j \in 1..MaxJti, AccesoAceptado(s, j)
               PROVE  s \in causa \/ BorradoPendiente(s)
    BY DEF BajaRevoca
  <2>1. CASE fila[s].est = "viva"
    BY <2>1 DEF IInv, Tardias
  <2>2. CASE fila[s].est # "viva"
    BY <2>2 DEF IInv, CopiaCerradaConCausa, AccesoAceptado, AceptaCopia, AceptaFila, Vigente
  <2>3. QED BY <2>1, <2>2
<1>2. QED BY <1>1, SiempreIInv, PTL
=============================================================================
