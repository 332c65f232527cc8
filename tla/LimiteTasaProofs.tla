--------------------------- MODULE LimiteTasaProofs ---------------------------
(***************************************************************************)
(* Proofs about LimiteTasa, for any number of requests, addresses and      *)
(* failed calls, and any windows and limits: no temporary token sees more  *)
(* codes compared than the limit, the failed logins of a window are within *)
(* theirs, and a place by IP that is kept has a request that went through. *)
(***************************************************************************)
EXTENDS LimiteTasa, FiniteSetTheorems, TLAPS

\* What each variable can hold.
Rutas == {"login", "forgot", "reset", "verify"}
Fases == {"nada", "rafaga", "limite", "porCorreo", "handler", "comparar", "cierre", "revierte", "fin"}
Recibidas == [fase : Fases, ip : IPs \cup {"-"}, correo : Correos \cup {"-"},
              jti : Sesiones \cup {"-"}, t : Nat, cantidad : Nat, estado : Nat]
Entradas == [m : Peticiones, t : Nat]
Tipos ==
    /\ ahora \in Nat \ {0} /\ ruta \in Rutas /\ distribuido \in BOOLEAN
    /\ ventana \in [Claves -> SUBSET Entradas] /\ pre2fa \in [Sesiones -> Nat]
    /\ peticion \in [Peticiones -> Recibidas] /\ intentos \in [Sesiones -> Nat] /\ fallos \in Nat

\* A request that came says from where, or with which temporary token.
Identificadas ==
    \A p \in Peticiones :
        /\ peticion[p].fase = "nada" => peticion[p].t = 0
        /\ peticion[p].fase # "nada" =>
               IF ruta = "verify"
               THEN peticion[p].jti \in Sesiones /\ peticion[p].fase \notin {"rafaga", "porCorreo", "revierte"}
               ELSE peticion[p].ip \in IPs /\ peticion[p].correo \in Correos

\* No window holds more than its limit.
VentanasAcotadas ==
    \A k \in Claves : IsFiniteSet(ventana[k]) /\ Cardinality(ventana[k]) <= Limite(k)

\* Who has a place by IP, or by token, passed that limit; by token, only once.
LugaresPorIP ==
    \A i \in IPs : \A e \in ventana[<<"forgotIP", i>>] :
        /\ ruta = "forgot" /\ peticion[e.m].ip = i
        /\ peticion[e.m].fase \in {"porCorreo", "handler", "revierte", "fin"}
LugaresPorToken ==
    \A s \in Sesiones : \A e \in ventana[<<"2fa", s>>] :
        /\ ruta = "verify" /\ e.t > 0
        /\ peticion[e.m].fase \in {"handler", "comparar", "cierre", "fin"}
        /\ \A f \in ventana[<<"2fa", s>>] : f.m = e.m => f = e

\* A login that failed or is being tried keeps its place for the window.
LoginsConLugar ==
    ruta = "login" => \A p \in Peticiones :
        /\ peticion[p].fase = "handler" \/ peticion[p].estado = 401
        /\ peticion[p].t > 0 /\ peticion[p].t > ahora - VentanaLogin
        => [m |-> p, t |-> peticion[p].t] \in ventana[Clave(p)]

\* A session ends with its time, or with the code that was accepted.
SesionesEnSuVida ==
    \A s \in Sesiones : /\ pre2fa[s] # 0 => pre2fa[s] = 1 + TTLPre2FA /\ ahora < pre2fa[s]
                        /\ ruta = "verify" =>
                               \A p \in Peticiones : peticion[p].jti = s /\ peticion[p].estado = 200
                                   => pre2fa[s] = 0

\* The requests of s about to compare a code, and those that may still do so
\* or give their place back.
Comparando(s) == {p \in Peticiones : En(p, "verify", "comparar") /\ peticion[p].jti = s}
Pendientes(s) ==
    {p \in Peticiones :
        /\ ruta = "verify" /\ peticion[p].jti = s
        /\ \/ peticion[p].fase \in {"handler", "comparar"}
           \/ peticion[p].fase = "cierre" /\ peticion[p].estado \notin {200, 401}}

\* While the session lives every comparison, done or possible, has a place in
\* the window; when it ends only those about to be made are left.
ComparacionesConLugar ==
    \A s \in Sesiones :
        /\ pre2fa[s] # 0 => intentos[s] + Cardinality(Pendientes(s)) <= Cardinality(ventana[<<"2fa", s>>])
        /\ intentos[s] + Cardinality(Comparando(s)) <= Limite2FA

\* The inductive invariant.
IInv ==
    /\ Tipos /\ Identificadas /\ VentanasAcotadas /\ LugaresPorIP /\ LugaresPorToken
    /\ LoginsConLugar /\ SesionesEnSuVida /\ ComparacionesConLugar /\ CupoConCausa

-----------------------------------------------------------------------------
(* The keys of the windows *)

\* No two limits share a key, and a key has the window and the limit of its kind.
LEMMA Llaves ==
    /\ \A r \in {"login", "forgot", "reset"}, i \in IPs :
           /\ Minuto(r, i) \in Claves /\ Minuto(r, i)[1] = "minuto"
    /\ \A i \in IPs, c \in Correos :
           /\ <<"login", i, c>> \in Claves /\ Largo(<<"login", i, c>>) = VentanaLogin
           /\ Limite(<<"login", i, c>>) = LimiteLogin
    /\ \A c \in Correos : <<"forgotEmail", c>> \in Claves
    /\ \A i \in IPs : <<"forgotIP", i>> \in Claves
    /\ \A s \in Sesiones : /\ <<"2fa", s>> \in Claves /\ Largo(<<"2fa", s>>) = Ventana2FA
                           /\ Limite(<<"2fa", s>>) = Limite2FA
    /\ \A k \in Claves : Limite(k) \in Nat \ {0} /\ Largo(k) \in Nat \ {0}
<1> DEFINE A == {Minuto(r, i) : r \in {"login", "forgot", "reset"}, i \in IPs}
           B == {<<"login", i, c>> : i \in IPs, c \in Correos}
           C == {<<"2fa", s>> : s \in Sesiones}
           D == {<<"forgotIP", i>> : i \in IPs}
           E == {<<"forgotEmail", c>> : c \in Correos}
<1>a. /\ \A r \in {"login", "forgot", "reset"}, i \in IPs : Minuto(r, i) \in A
      /\ \A i \in IPs, c \in Correos : <<"login", i, c>> \in B
      /\ \A s \in Sesiones : <<"2fa", s>> \in C
      /\ \A i \in IPs : <<"forgotIP", i>> \in D
      /\ \A c \in Correos : <<"forgotEmail", c>> \in E
  OBVIOUS
<1>b. Claves = A \cup B \cup C \cup D \cup E BY DEF Claves
<1> HIDE DEF A, B, C, D, E
<1>1. \A r \in {"login", "forgot", "reset"}, i \in IPs :
          Minuto(r, i) \in Claves /\ Minuto(r, i)[1] = "minuto"
  BY <1>a, <1>b DEF Minuto
<1>2. \A i \in IPs, c \in Correos : <<"login", i, c>> \in Claves BY <1>a, <1>b
<1>3. \A c \in Correos : <<"forgotEmail", c>> \in Claves BY <1>a, <1>b
<1>4. \A i \in IPs : <<"forgotIP", i>> \in Claves BY <1>a, <1>b
<1>5. \A s \in Sesiones : <<"2fa", s>> \in Claves BY <1>a, <1>b
<1>6. \A i \in IPs, c \in Correos :
          Largo(<<"login", i, c>>) = VentanaLogin /\ Limite(<<"login", i, c>>) = LimiteLogin
  BY DEF Largo, Limite
<1>7. \A s \in Sesiones : Largo(<<"2fa", s>>) = Ventana2FA /\ Limite(<<"2fa", s>>) = Limite2FA
  BY DEF Largo, Limite
<1>8. \A k \in Claves : Limite(k) \in Nat \ {0} /\ Largo(k) \in Nat \ {0}
  BY LimiteAssumption DEF Largo, Limite
<1> QED BY <1>1, <1>2, <1>3, <1>4, <1>5, <1>6, <1>7, <1>8

\* The key a request is limited by.
LEMMA ClaveDe ==
    ASSUME NEW p \in Peticiones
    PROVE  /\ ruta = "login" => Clave(p) = <<"login", peticion[p].ip, peticion[p].correo>>
           /\ ruta = "verify" => Clave(p) = <<"2fa", peticion[p].jti>>
           /\ ruta \in {"forgot", "reset"} => Clave(p) = <<"forgotIP", peticion[p].ip>>
BY DEF Clave

-----------------------------------------------------------------------------
(* The steps of a request *)

\* The step of p leaves the request as n.
Cambia(p, n) ==
    /\ n \in Recibidas /\ peticion' = [peticion EXCEPT ![p] = n]
    /\ UNCHANGED <<ahora, ruta, distribuido>>
De(p, n, a, b) ==
    /\ peticion[p].fase = a /\ n.fase = b
    /\ n.ip = peticion[p].ip /\ n.correo = peticion[p].correo /\ n.jti = peticion[p].jti
Anota(k, p) == Cabe(k) /\ Agrega(k, p)
Vacia(k) == ventana' = [ventana EXCEPT ![k] = {}]
Acaba(s) == pre2fa' = [pre2fa EXCEPT ![s] = 0]

\* It arrives; it is turned away; it passes the first limit; the handler of a
\* recovery route answers.
Entra(p, n) ==
    /\ peticion[p].fase = "nada" /\ n.t = 0 /\ n.estado \in {0, 401}
    /\ UNCHANGED <<ventana, pre2fa, intentos>>
    /\ \/ ruta = "verify" /\ n.jti \in Sesiones /\ n.fase \in {"limite", "fin"}
       \/ ruta # "verify" /\ n.ip \in IPs /\ n.correo \in Correos /\ n.fase = "rafaga"
Corta(p, n) ==
    /\ De(p, n, "rafaga", "fin") \/ De(p, n, "limite", "fin")
    /\ n.estado \in {400, 429, 503} /\ UNCHANGED <<ventana, pre2fa, intentos>>
Empieza(p, n) ==
    /\ ruta # "verify" /\ De(p, n, "rafaga", IF ruta = "reset" THEN "handler" ELSE "limite")
    /\ n.t = peticion[p].t /\ n.estado = peticion[p].estado
    /\ Anota(Minuto(ruta, peticion[p].ip), p) /\ UNCHANGED <<pre2fa, intentos>>
Recupera(p, n) ==
    /\ ruta \in {"forgot", "reset"} /\ De(p, n, "handler", "fin") /\ n.estado \in {200, 400, 500}
    /\ UNCHANGED <<ventana, pre2fa, intentos>>

\* The steps of a login, of a recovery request, and of a code.
DeLogin(p, n) ==
    /\ ruta = "login" /\ UNCHANGED <<pre2fa, intentos>>
    /\ \/ De(p, n, "limite", "handler") /\ n.t = ahora /\ Anota(Clave(p), p)
       \/ De(p, n, "handler", "cierre") /\ n.t = peticion[p].t /\ UNCHANGED ventana
       \/ /\ De(p, n, "cierre", "fin") /\ n.t = peticion[p].t /\ n.estado = peticion[p].estado
          /\ UNCHANGED ventana \/ (n.estado # 401 /\ ventana' = Saca(Clave(p), p))
DeForgot(p, n) ==
    /\ ruta = "forgot" /\ UNCHANGED <<pre2fa, intentos>>
    /\ \/ De(p, n, "limite", "porCorreo") /\ Anota(Clave(p), p)
       \/ De(p, n, "porCorreo", "handler") /\ Anota(<<"forgotEmail", peticion[p].correo>>, p)
       \/ De(p, n, "porCorreo", "revierte") /\ UNCHANGED ventana
       \/ /\ De(p, n, "revierte", "fin")
          /\ ventana' = Saca(Clave(p), p) \/ (UNCHANGED ventana /\ fallos' > fallos)
DeVerify(p, n) ==
    /\ ruta = "verify"
    /\ \/ /\ De(p, n, "limite", "handler") /\ n.estado = peticion[p].estado
          /\ Anota(Clave(p), p) /\ UNCHANGED <<pre2fa, intentos>>
       \/ /\ De(p, n, "limite", "fin") /\ n.estado = 401 /\ UNCHANGED intentos
          /\ (Acaba(peticion[p].jti) /\ Vacia(Clave(p))) \/ UNCHANGED <<pre2fa, ventana>>
       \/ /\ De(p, n, "handler", "cierre") /\ n.estado \in {400, 401, 403}
          /\ UNCHANGED <<ventana, pre2fa, intentos>>
       \/ /\ De(p, n, "handler", "comparar") /\ n.estado = peticion[p].estado
          /\ pre2fa[peticion[p].jti] # 0 /\ UNCHANGED <<ventana, pre2fa, intentos>>
       \/ /\ De(p, n, "comparar", "cierre") /\ UNCHANGED ventana
          /\ intentos' = [intentos EXCEPT ![peticion[p].jti] = @ + 1]
          /\ \/ n.estado = 401 /\ (UNCHANGED pre2fa \/ Acaba(peticion[p].jti))
             \/ n.estado = 200 /\ Acaba(peticion[p].jti)
       \/ /\ De(p, n, "cierre", "fin") /\ n.estado = peticion[p].estado /\ UNCHANGED intentos
          /\ \/ UNCHANGED <<ventana, pre2fa>>
             \/ Acaba(peticion[p].jti) /\ Vacia(Clave(p))
             \/ n.estado = 200 /\ Vacia(Clave(p)) /\ UNCHANGED pre2fa
             \/ n.estado \notin {200, 401} /\ ventana' = Saca(Clave(p), p) /\ UNCHANGED pre2fa

\* A step of p.
PasoDe(p) ==
    \/ \E ip \in IPs, c \in Correos : Llega(p, ip, c)
    \/ \E s \in Sesiones : LlegaCodigo(p, s)
    \/ LimitarRafagas(p) \/ SinRedis(p) \/ SinCorreo(p)
    \/ LimitarLogin(p) \/ Login(p) \/ CerrarLogin(p)
    \/ LimitarPorIP(p) \/ LimitarPorCorreo(p) \/ Revertir(p) \/ Recuperar(p)
    \/ LimitarVerificacion2FA(p) \/ LeerPre2FA(p) \/ CompararCodigo(p) \/ CerrarVerificacion(p)
Avanza(p, n) ==
    /\ Cambia(p, n) /\ fallos' \in Nat /\ fallos <= fallos'
    /\ \/ Entra(p, n) \/ Corta(p, n) \/ Empieza(p, n) \/ Recupera(p, n)
       \/ DeLogin(p, n) \/ DeForgot(p, n) \/ DeVerify(p, n)

\* A request that is dated a is the same one.
LEMMA AlFechar ==
    ASSUME Tipos, NEW p \in Peticiones, NEW f \in Fases, NEW a \in Nat
    PROVE  LET n == [peticion[p] EXCEPT !.t = a, !.fase = f]
           IN  n \in Recibidas /\ De(p, n, peticion[p].fase, f) /\ n.t = a /\ n.estado = peticion[p].estado
<1>1. peticion[p] \in Recibidas BY DEF Tipos
<1> QED BY <1>1 DEF De, Recibidas

\* A request that is the a-th of its window is the same one.
LEMMA AlContar ==
    ASSUME Tipos, NEW p \in Peticiones, NEW f \in Fases, NEW a \in Nat
    PROVE  LET n == [peticion[p] EXCEPT !.fase = f, !.cantidad = a]
           IN  n \in Recibidas /\ De(p, n, peticion[p].fase, f) /\ n.t = peticion[p].t /\ n.estado = peticion[p].estado
<1>1. peticion[p] \in Recibidas BY DEF Tipos
<1> QED BY <1>1 DEF De, Recibidas

\* A step that only takes p to f, or answers e, leaves it as such an n.
LEMMA PasaComo ==
    ASSUME Tipos, NEW p \in Peticiones, UNCHANGED <<ahora, ruta, distribuido>>,
           NEW f \in Fases, Pasa(p, f)
    PROVE  \E n : /\ Cambia(p, n) /\ De(p, n, peticion[p].fase, f)
                  /\ n.t = peticion[p].t /\ n.estado = peticion[p].estado
<1> DEFINE n == [peticion[p] EXCEPT !.fase = f]
<1>0. peticion[p] \in Recibidas BY DEF Tipos
<1>1. n \in Recibidas /\ De(p, n, peticion[p].fase, f)
      /\ n.t = peticion[p].t /\ n.estado = peticion[p].estado
  BY <1>0 DEF De, Recibidas
<1>2. peticion' = [peticion EXCEPT ![p] = n] BY DEF Pasa
<1> HIDE DEF n
<1> QED BY <1>1, <1>2 DEF Cambia

\* A step that answers e and goes on to f.
LEMMA RespondeComo ==
    ASSUME Tipos, NEW p \in Peticiones, UNCHANGED <<ahora, ruta, distribuido>>,
           NEW f \in Fases, NEW e \in Nat, Responde(p, e, f)
    PROVE  \E n : /\ Cambia(p, n) /\ De(p, n, peticion[p].fase, f)
                  /\ n.t = peticion[p].t /\ n.estado = e
<1> DEFINE n == [peticion[p] EXCEPT !.estado = e, !.fase = f]
<1>0. peticion[p] \in Recibidas BY DEF Tipos
<1>1. n \in Recibidas /\ De(p, n, peticion[p].fase, f) /\ n.t = peticion[p].t /\ n.estado = e
  BY <1>0 DEF De, Recibidas
<1>2. peticion' = [peticion EXCEPT ![p] = n] BY DEF Responde
<1> HIDE DEF n
<1> QED BY <1>1, <1>2 DEF Cambia

\* The phases and the answers of the code.
LEMMA Nombres ==
    /\ {"rafaga", "limite", "porCorreo", "handler", "comparar", "cierre", "revierte", "fin"} \subseteq Fases
    /\ {0, 200, 400, 401, 403, 429, 500, 503} \subseteq Nat
BY DEF Fases

\* A call to the store fails, or it does not.
LEMMA Fallos ==
    ASSUME Tipos
    PROVE  /\ Falla => fallos' \in Nat /\ fallos < fallos'
           /\ UNCHANGED fallos => fallos' \in Nat /\ fallos <= fallos'
           /\ NoResponde => fallos' \in Nat /\ fallos < fallos' /\ UNCHANGED ventana
BY DEF Tipos, Falla, NoResponde

\* A request arrives.
LEMMA AlEntrar ==
    ASSUME Tipos, NEW p \in Peticiones,
           (\E ip \in IPs, c \in Correos : Llega(p, ip, c)) \/ (\E s \in Sesiones : LlegaCodigo(p, s))
    PROVE  \E n : Avanza(p, n)
<1>0. Libre \in Recibidas /\ Libre.t = 0 /\ Libre.estado = 0 BY DEF Libre, Recibidas, Fases
<1>1. CASE \E ip \in IPs, c \in Correos : Llega(p, ip, c)
  <2>1. PICK ip \in IPs, c \in Correos : Llega(p, ip, c) BY <1>1
  <2> DEFINE n == [Libre EXCEPT !.ip = ip, !.correo = c, !.fase = "rafaga"]
  <2>2. n \in Recibidas /\ n.t = 0 /\ n.estado = 0 /\ n.ip \in IPs /\ n.correo \in Correos
        /\ n.fase = "rafaga"
    BY <1>0 DEF Recibidas, Fases
  <2>3. peticion' = [peticion EXCEPT ![p] = n] BY <2>1 DEF Llega
  <2> HIDE DEF n
  <2>5. Cambia(p, n) BY <2>1, <2>2, <2>3 DEF Llega, Cambia
  <2>6. Entra(p, n) BY <2>1, <2>2 DEF Llega, Nueva, Entra
  <2>7. fallos' \in Nat /\ fallos <= fallos' BY <2>1, Fallos DEF Llega
  <2> QED BY <2>5, <2>6, <2>7 DEF Avanza
<1>2. CASE \E s \in Sesiones : LlegaCodigo(p, s)
  <2>1. PICK s \in Sesiones : LlegaCodigo(p, s) BY <1>2
  <2> DEFINE m == [Libre EXCEPT !.jti = s, !.fase = "limite"]
             r == [Libre EXCEPT !.jti = s, !.fase = "fin", !.estado = 401]
  <2>2. m \in Recibidas /\ m.t = 0 /\ m.estado = 0 /\ m.jti = s /\ m.fase = "limite"
    BY <1>0 DEF Recibidas, Fases
  <2>r. r \in Recibidas /\ r.t = 0 /\ r.jti = s
    <3> DEFINE a == [Libre EXCEPT !.jti = s, !.fase = "fin"]
    <3>1. a \in Recibidas /\ a.t = 0 /\ a.jti = s BY <1>0 DEF Recibidas, Fases
    <3>2. r = [a EXCEPT !.estado = 401] BY <1>0 DEF Recibidas
    <3> HIDE DEF a, r
    <3> QED BY <3>1, <3>2 DEF Recibidas
  <2>f. r.fase = "fin" /\ r.estado = 401 BY <1>0 DEF Recibidas, Fases
  <2>3. peticion' = [peticion EXCEPT ![p] = m] \/ peticion' = [peticion EXCEPT ![p] = r]
    BY <2>1 DEF LlegaCodigo
  <2> HIDE DEF m, r
  <2>4. PICK n \in {m, r} : peticion' = [peticion EXCEPT ![p] = n] BY <2>3
  <2>n. n \in Recibidas /\ n.t = 0 /\ n.jti = s /\ n.fase \in {"limite", "fin"} /\ n.estado \in {0, 401}
    BY <2>2, <2>r, <2>f
  <2>5. Cambia(p, n) BY <2>1, <2>4, <2>n DEF LlegaCodigo, Cambia
  <2>6. Entra(p, n)
    <3>1. ruta = "verify" /\ peticion[p].fase = "nada" /\ UNCHANGED <<ventana, pre2fa, intentos>>
      BY <2>1 DEF LlegaCodigo, Nueva
    <3> QED BY <2>1, <2>n, <3>1 DEF Entra
  <2>7. fallos' \in Nat /\ fallos <= fallos'
    <3>1. UNCHANGED fallos \/ Falla BY Zenon, <2>1 DEF LlegaCodigo
    <3>2. fallos \in Nat BY DEF Tipos
    <3> QED BY <3>1, <3>2, Fallos
  <2> QED BY <2>5, <2>6, <2>7 DEF Avanza
<1> QED BY <1>1, <1>2

\* The limits every route has, and the handler of the recovery routes.
LEMMA AlFiltrar ==
    ASSUME Tipos, Identificadas, NEW p \in Peticiones,
           LimitarRafagas(p) \/ SinRedis(p) \/ SinCorreo(p) \/ Recuperar(p)
    PROVE  \E n : Avanza(p, n)
<1>0. UNCHANGED <<ahora, ruta, distribuido>>
  BY DEF LimitarRafagas, SinRedis, SinCorreo, Recuperar
<1>1. ASSUME NEW e \in {400, 429, 503}, Rechaza(p, e), peticion[p].fase \in {"rafaga", "limite"},
             UNCHANGED <<ventana, pre2fa, intentos>>, fallos' \in Nat, fallos <= fallos'
      PROVE  \E n : Avanza(p, n)
  <2>1. PICK n : Cambia(p, n) /\ De(p, n, peticion[p].fase, "fin") /\ n.estado = e
    <3>1. e \in Nat /\ "fin" \in Fases /\ Responde(p, e, "fin") BY <1>1 DEF Fases, Rechaza
    <3> QED BY <1>0, <3>1, RespondeComo
  <2>2. Corta(p, n) BY <1>1, <2>1 DEF Corta
  <2> QED BY <1>1, <2>1, <2>2 DEF Avanza
<1>2. CASE LimitarRafagas(p)
  <2> DEFINE k == Minuto(ruta, peticion[p].ip)
             f == IF ruta = "reset" THEN "handler" ELSE "limite"
  <2>1. peticion[p].fase = "rafaga" /\ UNCHANGED <<pre2fa, intentos>> BY <1>2 DEF LimitarRafagas
  <2>2. ruta # "verify" BY <2>1 DEF Identificadas
  <2>3. \/ Registra(k, p) /\ Pasa(p, f)
        \/ NoCabe(k) /\ Rechaza(p, 429)
        \/ NoResponde /\ Rechaza(p, 503)
    BY <1>2 DEF LimitarRafagas
  <2>4. CASE Registra(k, p) /\ Pasa(p, f)
    <3>1. PICK n : /\ Cambia(p, n) /\ De(p, n, peticion[p].fase, f)
                   /\ n.t = peticion[p].t /\ n.estado = peticion[p].estado
      BY <1>0, <2>4, PasaComo, Nombres
    <3>2. Empieza(p, n) BY <2>1, <2>2, <2>4, <3>1 DEF Empieza, Registra, Anota
    <3>3. fallos' \in Nat /\ fallos <= fallos' BY <2>4, Fallos DEF Registra
    <3> QED BY <3>1, <3>2, <3>3 DEF Avanza
  <2>5. CASE NoCabe(k) /\ Rechaza(p, 429) BY <1>1, <2>1, <2>5, Fallos DEF NoCabe
  <2>6. CASE NoResponde /\ Rechaza(p, 503)
    <3>1. fallos' \in Nat /\ fallos <= fallos' /\ UNCHANGED ventana BY <2>6, Fallos DEF Tipos
    <3> QED BY <1>1, <2>1, <2>6, <3>1
  <2> QED BY <2>3, <2>4, <2>5, <2>6
<1>3. CASE SinRedis(p) BY <1>1, <1>3, Fallos DEF SinRedis
<1>4. CASE SinCorreo(p) BY <1>1, <1>4, Fallos DEF SinCorreo
<1>5. CASE Recuperar(p)
  <2>1. PICK e \in {200, 400, 500} : Rechaza(p, e) BY <1>5 DEF Recuperar
  <2>2. PICK n : Cambia(p, n) /\ De(p, n, peticion[p].fase, "fin") /\ n.estado = e
    <3>1. e \in Nat /\ "fin" \in Fases /\ Responde(p, e, "fin") BY <2>1 DEF Fases, Rechaza
    <3> QED BY <1>0, <3>1, RespondeComo
  <2>3. Recupera(p, n) BY <1>5, <2>2 DEF Recupera, Recuperar
  <2>4. fallos' \in Nat /\ fallos <= fallos' BY <1>5, Fallos DEF Recuperar
  <2> QED BY <2>2, <2>3, <2>4 DEF Avanza
<1> QED BY <1>2, <1>3, <1>4, <1>5

\* A login.
LEMMA AlEntrarConClave ==
    ASSUME Tipos, NEW p \in Peticiones, LimitarLogin(p) \/ Login(p) \/ CerrarLogin(p)
    PROVE  \E n : Avanza(p, n)
<1>0. UNCHANGED <<ahora, ruta, distribuido>> BY DEF LimitarLogin, Login, CerrarLogin
<1>a. fallos \in Nat BY DEF Tipos
<1>1. CASE LimitarLogin(p)
  <2>0. ruta = "login" /\ peticion[p].fase = "limite" /\ UNCHANGED <<pre2fa, intentos>>
    BY <1>1 DEF LimitarLogin, En
  <2>1. CASE Registra(Clave(p), p)
             /\ peticion' = [peticion EXCEPT ![p].t = ahora, ![p].fase = "handler"]
    <3> DEFINE n == [peticion[p] EXCEPT !.t = ahora, !.fase = "handler"]
    <3>1. peticion[p] \in Recibidas /\ ahora \in Nat /\ "handler" \in Fases BY DEF Tipos, Fases
    <3>2. n \in Recibidas /\ De(p, n, peticion[p].fase, "handler") /\ n.t = ahora
      BY <3>1 DEF De, Recibidas
    <3>3. peticion' = [peticion EXCEPT ![p] = n] BY <2>1
    <3> HIDE DEF n
    <3>4. Cambia(p, n) BY <1>0, <3>2, <3>3 DEF Cambia
    <3>5. Anota(Clave(p), p) /\ fallos' = fallos BY <2>1 DEF Registra, Anota
    <3>6. DeLogin(p, n) BY <2>0, <3>2, <3>5 DEF DeLogin
    <3> QED BY <1>a, <3>4, <3>5, <3>6 DEF Avanza
  <2>2. ASSUME NEW e \in {429, 503}, Rechaza(p, e), UNCHANGED ventana, fallos' \in Nat, fallos <= fallos'
        PROVE  \E n : Avanza(p, n)
    <3>1. e \in Nat /\ "fin" \in Fases /\ Responde(p, e, "fin") BY <2>2 DEF Fases, Rechaza
    <3>2. PICK n : Cambia(p, n) /\ De(p, n, peticion[p].fase, "fin") /\ n.estado = e
      BY <1>0, <3>1, RespondeComo
    <3>3. Corta(p, n) BY <2>0, <2>2, <3>2 DEF Corta
    <3> QED BY <2>2, <3>2, <3>3 DEF Avanza
  <2>3. CASE NoCabe(Clave(p)) /\ Rechaza(p, 429) BY <1>a, <2>2, <2>3 DEF NoCabe
  <2>4. CASE NoResponde /\ Rechaza(p, 503)
    <3>1. fallos' \in Nat /\ fallos <= fallos' /\ UNCHANGED ventana BY <1>a, <2>4, Fallos
    <3> QED BY <2>2, <2>4, <3>1
  <2> QED BY <1>1, <2>1, <2>3, <2>4 DEF LimitarLogin
<1>2. CASE Login(p)
  <2>1. PICK e \in {200, 401, 403} : Responde(p, e, "cierre") BY <1>2 DEF Login
  <2>2. e \in Nat /\ "cierre" \in Fases BY DEF Fases
  <2>3. PICK n : Cambia(p, n) /\ De(p, n, peticion[p].fase, "cierre") /\ n.t = peticion[p].t
    BY <1>0, <2>1, <2>2, RespondeComo
  <2>4. DeLogin(p, n) BY <1>2, <2>3 DEF Login, En, DeLogin
  <2> QED BY <1>2, <1>a, <2>3, <2>4 DEF Avanza, Login
<1>3. CASE CerrarLogin(p)
  <2>1. "cierre" \in Fases /\ "fin" \in Fases BY DEF Fases
  <2>2. Pasa(p, "fin") /\ ruta = "login" /\ peticion[p].fase = "cierre" /\ UNCHANGED <<pre2fa, intentos>>
    BY <1>3 DEF CerrarLogin, En
  <2>3. PICK n : /\ Cambia(p, n) /\ De(p, n, peticion[p].fase, "fin")
                 /\ n.t = peticion[p].t /\ n.estado = peticion[p].estado
    BY <1>0, <2>1, <2>2, PasaComo
  <2>4. \/ UNCHANGED <<ventana, fallos>>
        \/ peticion[p].estado # 401 /\ Devuelve(Clave(p), p)
    BY <1>3 DEF CerrarLogin
  <2>5. /\ fallos' \in Nat /\ fallos <= fallos'
        /\ UNCHANGED ventana \/ (peticion[p].estado # 401 /\ ventana' = Saca(Clave(p), p))
    BY <1>a, <2>4, Fallos DEF Devuelve
  <2>6. DeLogin(p, n) BY <2>2, <2>3, <2>5 DEF DeLogin
  <2> QED BY <2>3, <2>5, <2>6 DEF Avanza
<1> QED BY <1>1, <1>2, <1>3

\* A recovery request.
LEMMA AlPedirRecuperacion ==
    ASSUME Tipos, NEW p \in Peticiones, LimitarPorIP(p) \/ LimitarPorCorreo(p) \/ Revertir(p)
    PROVE  \E n : Avanza(p, n)
<1>0. UNCHANGED <<ahora, ruta, distribuido, pre2fa, intentos>> /\ ruta = "forgot"
  BY DEF LimitarPorIP, LimitarPorCorreo, Revertir, En
<1>a. fallos \in Nat BY DEF Tipos
<1>f. "fin" \in Fases /\ "porCorreo" \in Fases /\ "handler" \in Fases /\ "revierte" \in Fases
  BY DEF Fases
<1>1. CASE LimitarPorIP(p)
  <2>0. peticion[p].fase = "limite" BY <1>1 DEF LimitarPorIP, En
  <2>1. CASE Registra(Clave(p), p) /\ Pasa(p, "porCorreo")
    <3>1. PICK n : Cambia(p, n) /\ De(p, n, peticion[p].fase, "porCorreo")
      BY <1>0, <1>f, <2>1, PasaComo
    <3>2. Anota(Clave(p), p) /\ fallos' = fallos BY <2>1 DEF Registra, Anota
    <3>3. DeForgot(p, n) BY <1>0, <2>0, <3>1, <3>2 DEF DeForgot
    <3>4. fallos' \in Nat /\ fallos <= fallos' BY <1>a, <3>2
    <3> QED BY <3>1, <3>3, <3>4 DEF Avanza
  <2>2. ASSUME NEW e \in {429, 503}, Rechaza(p, e), UNCHANGED ventana, fallos' \in Nat, fallos <= fallos'
        PROVE  \E n : Avanza(p, n)
    <3>1. e \in Nat /\ "fin" \in Fases /\ Responde(p, e, "fin") BY <2>2 DEF Fases, Rechaza
    <3>2. PICK n : Cambia(p, n) /\ De(p, n, peticion[p].fase, "fin") /\ n.estado = e
      BY <1>0, <3>1, RespondeComo
    <3>3. Corta(p, n) BY <1>0, <2>0, <2>2, <3>2 DEF Corta
    <3> QED BY <2>2, <3>2, <3>3 DEF Avanza
  <2>3. CASE NoCabe(Clave(p)) /\ Rechaza(p, 429) BY <1>a, <2>2, <2>3 DEF NoCabe
  <2>4. CASE NoResponde /\ Rechaza(p, 503)
    <3>1. fallos' \in Nat /\ fallos <= fallos' /\ UNCHANGED ventana BY <1>a, <2>4, Fallos
    <3> QED BY <2>2, <2>4, <3>1
  <2> QED BY <1>1, <2>1, <2>3, <2>4 DEF LimitarPorIP
<1>2. CASE LimitarPorCorreo(p)
  <2> DEFINE k == <<"forgotEmail", peticion[p].correo>>
  <2>0. peticion[p].fase = "porCorreo" BY <1>2 DEF LimitarPorCorreo, En
  <2>1. CASE Registra(k, p) /\ Pasa(p, "handler")
    <3>1. PICK n : Cambia(p, n) /\ De(p, n, peticion[p].fase, "handler")
      BY <1>0, <1>f, <2>1, PasaComo
    <3>2. Anota(k, p) /\ fallos' = fallos BY <2>1 DEF Registra, Anota
    <3>3. DeForgot(p, n) BY <1>0, <2>0, <3>1, <3>2 DEF DeForgot
    <3>4. fallos' \in Nat /\ fallos <= fallos' BY <1>a, <3>2
    <3> QED BY <3>1, <3>3, <3>4 DEF Avanza
  <2>2. ASSUME NEW e \in Nat, Responde(p, e, "revierte"), UNCHANGED ventana,
               fallos' \in Nat, fallos <= fallos'
        PROVE  \E n : Avanza(p, n)
    <3>1. PICK n : Cambia(p, n) /\ De(p, n, peticion[p].fase, "revierte")
      BY <1>0, <1>f, <2>2, RespondeComo
    <3>2. DeForgot(p, n) BY <1>0, <2>0, <2>2, <3>1 DEF DeForgot
    <3> QED BY <2>2, <3>1, <3>2 DEF Avanza
  <2>3. CASE NoCabe(k) /\ Responde(p, 429, "revierte")
    <3>1. fallos' \in Nat /\ fallos <= fallos' /\ UNCHANGED ventana BY <1>a, <2>3 DEF NoCabe
    <3>2. 429 \in Nat OBVIOUS
    <3> QED BY <2>2, <2>3, <3>1, <3>2
  <2>4. CASE NoResponde /\ Responde(p, 503, "revierte")
    <3>1. fallos' \in Nat /\ fallos <= fallos' /\ UNCHANGED ventana BY <1>a, <2>4, Fallos
    <3> QED BY <2>2, <2>4, <3>1
  <2> QED BY <1>2, <2>1, <2>3, <2>4 DEF LimitarPorCorreo
<1>3. CASE Revertir(p)
  <2>1. Pasa(p, "fin") /\ peticion[p].fase = "revierte" /\ Devuelve(Clave(p), p) BY <1>3 DEF Revertir, En
  <2>2. PICK n : Cambia(p, n) /\ De(p, n, peticion[p].fase, "fin") BY <1>0, <1>f, <2>1, PasaComo
  <2>3. /\ fallos' \in Nat /\ fallos <= fallos'
        /\ ventana' = Saca(Clave(p), p) \/ (UNCHANGED ventana /\ fallos' > fallos)
    BY <1>a, <2>1, Fallos DEF Devuelve
  <2>4. DeForgot(p, n) BY <1>0, <2>1, <2>2, <2>3 DEF DeForgot
  <2> QED BY <2>2, <2>3, <2>4 DEF Avanza
<1> QED BY <1>1, <1>2, <1>3

\* A code that reaches the limit, and the handler.
LEMMA AlLimitarCodigo ==
    ASSUME Tipos, Identificadas, VentanasAcotadas, NEW p \in Peticiones, LimitarVerificacion2FA(p)
    PROVE  \E n : Avanza(p, n)
<1>0. /\ UNCHANGED <<ahora, ruta, distribuido, intentos>>
      /\ ruta = "verify" /\ peticion[p].fase = "limite"
  BY DEF LimitarVerificacion2FA, En
<1>a. fallos \in Nat BY DEF Tipos
<1>1. CASE /\ Cabe(Clave(p)) /\ Agrega(Clave(p), p)
           /\ peticion' = [peticion EXCEPT ![p].fase = "handler",
                                           ![p].cantidad = Cardinality(ventana[Clave(p)]) + 1]
           /\ UNCHANGED <<fallos, pre2fa>>
  <2> DEFINE c == Cardinality(ventana[Clave(p)]) + 1
             n == [peticion[p] EXCEPT !.fase = "handler", !.cantidad = c]
  <2>1. c \in Nat
    <3>1. peticion[p].jti \in Sesiones BY <1>0 DEF Identificadas
    <3>2. Clave(p) \in Claves BY <1>0, <3>1, ClaveDe, Llaves
    <3> QED BY <3>2, FS_CardinalityType DEF VentanasAcotadas
  <2>2. peticion[p] \in Recibidas /\ "handler" \in Fases BY DEF Tipos, Fases
  <2>3. peticion' = [peticion EXCEPT ![p] = n] BY <1>1
  <2> HIDE DEF c
  <2>4. n \in Recibidas /\ De(p, n, peticion[p].fase, "handler") /\ n.estado = peticion[p].estado
    BY <2>1, <2>2 DEF De, Recibidas
  <2> HIDE DEF n
  <2>5. Cambia(p, n) BY <1>0, <2>3, <2>4 DEF Cambia
  <2>6. DeVerify(p, n) BY <1>0, <1>1, <2>4 DEF DeVerify, Anota
  <2> QED BY <1>a, <1>1, <2>5, <2>6 DEF Avanza
<1>2. CASE ~Cabe(Clave(p)) /\ Revoca(p) /\ Rechaza(p, 401)
  <2>1. 401 \in Nat /\ "fin" \in Fases /\ Responde(p, 401, "fin") BY <1>2 DEF Fases, Rechaza
  <2>2. PICK n : Cambia(p, n) /\ De(p, n, peticion[p].fase, "fin") /\ n.estado = 401
    BY <1>0, <2>1, RespondeComo
  <2>3. /\ fallos' \in Nat /\ fallos <= fallos'
        /\ (Acaba(peticion[p].jti) /\ Vacia(Clave(p))) \/ UNCHANGED <<pre2fa, ventana>>
    BY <1>a, <1>2, Fallos DEF Revoca, Acaba, Vacia
  <2>4. DeVerify(p, n) BY <1>0, <2>2, <2>3 DEF DeVerify
  <2> QED BY <2>2, <2>3, <2>4 DEF Avanza
<1>3. CASE NoResponde /\ Rechaza(p, 503) /\ UNCHANGED pre2fa
  <2>1. 503 \in Nat /\ "fin" \in Fases /\ Responde(p, 503, "fin") BY <1>3 DEF Fases, Rechaza
  <2>2. PICK n : Cambia(p, n) /\ De(p, n, peticion[p].fase, "fin") /\ n.estado = 503
    BY <1>0, <2>1, RespondeComo
  <2>3. fallos' \in Nat /\ fallos <= fallos' /\ UNCHANGED ventana BY <1>a, <1>3, Fallos
  <2>4. Corta(p, n) BY <1>0, <1>3, <2>2, <2>3 DEF Corta
  <2> QED BY <2>2, <2>3, <2>4 DEF Avanza
<1> QED BY <1>1, <1>2, <1>3 DEF LimitarVerificacion2FA

\* The handler of a code, and what the middleware does with its answer.
LEMMA AlVerificar ==
    ASSUME Tipos, Identificadas, NEW p \in Peticiones,
           LeerPre2FA(p) \/ CompararCodigo(p) \/ CerrarVerificacion(p)
    PROVE  \E n : Avanza(p, n)
<1>0. UNCHANGED <<ahora, ruta, distribuido>> /\ ruta = "verify"
  BY DEF LeerPre2FA, CompararCodigo, CerrarVerificacion, En
<1>a. fallos \in Nat /\ {"fin", "cierre", "comparar"} \subseteq Fases BY DEF Tipos, Fases
<1>b. \A e \in {401, 403} : EstadoDeError(p, e) \in {e, 401} BY DEF EstadoDeError
<1>1. CASE LeerPre2FA(p)
  <2>0. peticion[p].fase = "handler" /\ UNCHANGED <<ventana, pre2fa, intentos>>
    BY <1>1 DEF LeerPre2FA, En
  <2>1. ASSUME NEW e \in {400, 401, 403}, Responde(p, e, "cierre"), fallos' \in Nat, fallos <= fallos'
        PROVE  \E n : Avanza(p, n)
    <3>1. PICK n : Cambia(p, n) /\ De(p, n, peticion[p].fase, "cierre") /\ n.estado = e
      <4>1. e \in Nat OBVIOUS
      <4> QED BY <1>0, <1>a, <2>1, <4>1, RespondeComo
    <3>2. DeVerify(p, n) BY <1>0, <2>0, <3>1 DEF DeVerify
    <3> QED BY <2>1, <3>1, <3>2 DEF Avanza
  <2>2. CASE pre2fa[peticion[p].jti] # 0 /\ Pasa(p, "comparar") /\ UNCHANGED fallos
    <3>1. PICK n : Cambia(p, n) /\ De(p, n, peticion[p].fase, "comparar") /\ n.estado = peticion[p].estado
      BY <1>0, <1>a, <2>2, PasaComo
    <3>2. DeVerify(p, n) BY <1>0, <2>0, <2>2, <3>1 DEF DeVerify
    <3> QED BY <1>a, <2>2, <3>1, <3>2 DEF Avanza
  <2>3. CASE \E e \in {400, 401, 403} : Responde(p, e, "cierre") /\ (UNCHANGED fallos \/ Falla)
    BY <1>a, <2>1, <2>3, Fallos
  <2>4. \/ pre2fa[peticion[p].jti] # 0 /\ Pasa(p, "comparar") /\ UNCHANGED fallos
        \/ \E e \in {400, 401, 403} : Responde(p, e, "cierre") /\ (UNCHANGED fallos \/ Falla)
    BY <1>1, <1>b DEF LeerPre2FA
  <2> QED BY <2>2, <2>3, <2>4
<1>2. CASE CompararCodigo(p)
  <2> DEFINE s == peticion[p].jti
  <2>0. /\ peticion[p].fase = "comparar" /\ UNCHANGED ventana
        /\ intentos' = [intentos EXCEPT ![s] = @ + 1]
    BY <1>2 DEF CompararCodigo, En
  <2>1. \E e \in {200, 401} :
            /\ Responde(p, e, "cierre") /\ (UNCHANGED fallos \/ Falla)
            /\ IF e = 200 THEN Acaba(s) ELSE UNCHANGED pre2fa \/ Acaba(s)
    <3>1. EstadoDeError(p, 401) = 401 BY <1>b
    <3>2. CASE Responde(p, 401, "cierre") /\ UNCHANGED <<pre2fa, fallos>> BY <3>2
    <3>3. CASE /\ Responde(p, IF pre2fa[s] = 0 THEN EstadoDeError(p, 401) ELSE 200, "cierre")
               /\ pre2fa' = [pre2fa EXCEPT ![s] = 0] /\ UNCHANGED fallos
      <4>1. CASE pre2fa[s] = 0 BY <3>1, <3>3, <4>1 DEF Acaba
      <4>2. CASE pre2fa[s] # 0 BY <3>3, <4>2 DEF Acaba
      <4> QED BY <4>1, <4>2
    <3>4. CASE /\ Falla /\ Responde(p, EstadoDeError(p, 401), "cierre")
               /\ pre2fa' \in {pre2fa, [pre2fa EXCEPT ![s] = 0]}
      BY <3>1, <3>4 DEF Acaba
    <3> QED BY <1>2, <3>2, <3>3, <3>4 DEF CompararCodigo
  <2>2. PICK e \in {200, 401} :
            /\ Responde(p, e, "cierre") /\ (UNCHANGED fallos \/ Falla)
            /\ IF e = 200 THEN Acaba(s) ELSE UNCHANGED pre2fa \/ Acaba(s)
    BY <2>1
  <2>3. PICK n : Cambia(p, n) /\ De(p, n, peticion[p].fase, "cierre") /\ n.estado = e
    <3>1. e \in Nat OBVIOUS
    <3> QED BY <1>0, <1>a, <2>2, <3>1, RespondeComo
  <2>4. fallos' \in Nat /\ fallos <= fallos' BY <1>a, <2>2, Fallos
  <2>5. DeVerify(p, n) BY <1>0, <2>0, <2>2, <2>3 DEF DeVerify
  <2> QED BY <2>3, <2>4, <2>5 DEF Avanza
<1>3. CASE CerrarVerificacion(p)
  <2>0. Pasa(p, "fin") /\ peticion[p].fase = "cierre" /\ UNCHANGED intentos
    BY <1>3 DEF CerrarVerificacion, En
  <2>1. PICK n : /\ Cambia(p, n) /\ De(p, n, peticion[p].fase, "fin")
                 /\ n.t = peticion[p].t /\ n.estado = peticion[p].estado
    BY <1>0, <1>a, <2>0, PasaComo
  <2> DEFINE e == peticion[p].estado
  <2>2. \/ Revoca(p)
        \/ UNCHANGED <<ventana, pre2fa, fallos>>
        \/ /\ e = 200 /\ UNCHANGED pre2fa
           /\ (ventana' = [ventana EXCEPT ![Clave(p)] = {}] /\ UNCHANGED fallos) \/ NoResponde
        \/ e \notin {200, 401} /\ Devuelve(Clave(p), p) /\ UNCHANGED pre2fa
    <3>1. peticion[p].cantidad \in Nat /\ Limite2FA \in Nat
      BY LimiteAssumption DEF Tipos, Recibidas
    <3>2. CASE e = 401 /\ peticion[p].cantidad >= Limite2FA BY <1>3, <3>2 DEF CerrarVerificacion
    <3>3. CASE e = 401 /\ peticion[p].cantidad < Limite2FA BY <1>3, <3>1, <3>3 DEF CerrarVerificacion
    <3>4. CASE e = 200 BY <1>3, <3>4 DEF CerrarVerificacion
    <3>5. CASE e \notin {200, 401} BY <1>3, <3>5 DEF CerrarVerificacion
    <3> QED BY <3>1, <3>2, <3>3, <3>4, <3>5
  <2>3. /\ fallos' \in Nat /\ fallos <= fallos'
        /\ \/ UNCHANGED <<ventana, pre2fa>>
           \/ Acaba(peticion[p].jti) /\ Vacia(Clave(p))
           \/ e = 200 /\ Vacia(Clave(p)) /\ UNCHANGED pre2fa
           \/ e \notin {200, 401} /\ ventana' = Saca(Clave(p), p) /\ UNCHANGED pre2fa
    BY <1>a, <2>2, Fallos DEF Revoca, Devuelve, Acaba, Vacia
  <2>4. DeVerify(p, n) BY <1>0, <2>0, <2>1, <2>3 DEF DeVerify
  <2> QED BY <2>1, <2>3, <2>4 DEF Avanza
<1> QED BY <1>1, <1>2, <1>3

\* Every step of a request is one of those.
LEMMA CadaPaso ==
    ASSUME Tipos, Identificadas, VentanasAcotadas, NEW p \in Peticiones, PasoDe(p)
    PROVE  \E n : Avanza(p, n)
BY AlEntrar, AlFiltrar, AlEntrarConClave, AlPedirRecuperacion, AlLimitarCodigo, AlVerificar DEF PasoDe

-----------------------------------------------------------------------------
(* Types, and the bound of every window *)

\* The others stay as they were.
LEMMA Otras ==
    ASSUME Tipos, NEW p \in Peticiones, NEW n, Cambia(p, n)
    PROVE  peticion'[p] = n /\ \A q \in Peticiones : q # p => peticion'[q] = peticion[q]
BY DEF Tipos, Cambia

\* The key of a request that came is the key of a window.
LEMMA ClaveConVentana ==
    ASSUME Identificadas, Tipos, NEW p \in Peticiones, peticion[p].fase # "nada"
    PROVE  Clave(p) \in Claves
<1>1. CASE ruta = "verify"
  <2>1. peticion[p].jti \in Sesiones BY <1>1 DEF Identificadas
  <2> QED BY <1>1, <2>1, ClaveDe, Llaves
<1>2. CASE ruta # "verify"
  <2>1. peticion[p].ip \in IPs /\ peticion[p].correo \in Correos BY <1>2 DEF Identificadas
  <2>2. ruta \in {"login", "forgot", "reset"} BY <1>2 DEF Tipos, Rutas
  <2> QED BY <2>1, <2>2, ClaveDe, Llaves
<1> QED BY <1>1, <1>2

\* A step adds an entry to one window with room for it, takes some from one,
\* or leaves the windows alone.
LEMMA EnVentanas ==
    ASSUME Tipos, Identificadas, NEW p \in Peticiones, NEW n, Avanza(p, n)
    PROVE  \/ ventana' = ventana
           \/ \E k \in Claves : Anota(k, p)
           \/ \E k \in Claves : \E W \in SUBSET ventana[k] : ventana' = [ventana EXCEPT ![k] = W]
<1>1. CASE Entra(p, n) BY <1>1 DEF Entra
<1>2. CASE Corta(p, n) BY <1>2 DEF Corta
<1>3. CASE Empieza(p, n)
  <2>1. peticion[p].fase = "rafaga" /\ ruta # "verify" /\ Anota(Minuto(ruta, peticion[p].ip), p)
    BY <1>3 DEF Empieza, De
  <2>2. peticion[p].ip \in IPs /\ ruta \in {"login", "forgot", "reset"}
    BY <2>1 DEF Identificadas, Tipos, Rutas
  <2> QED BY <2>1, <2>2, Llaves
<1>4. CASE Recupera(p, n) BY <1>4 DEF Recupera
<1> DEFINE k == Clave(p)
<1>5. ventana' = Saca(k, p) => \E W \in SUBSET ventana[k] : ventana' = [ventana EXCEPT ![k] = W]
  BY DEF Saca
<1>6. Vacia(k) => \E W \in SUBSET ventana[k] : ventana' = [ventana EXCEPT ![k] = W]
  BY DEF Vacia
<1> HIDE DEF k
<1>7. CASE DeLogin(p, n)
  <2>1. peticion[p].fase # "nada" BY <1>7 DEF DeLogin, De
  <2>2. k \in Claves BY <2>1, ClaveConVentana DEF k
  <2>3. ventana' = ventana \/ Anota(k, p) \/ ventana' = Saca(k, p) BY <1>7 DEF DeLogin, k
  <2> QED BY <1>5, <2>2, <2>3
<1>8. CASE DeForgot(p, n)
  <2>1. peticion[p].fase # "nada" /\ ruta = "forgot" BY <1>8 DEF DeForgot, De
  <2>2. k \in Claves BY <2>1, ClaveConVentana DEF k
  <2>3. peticion[p].correo \in Correos BY <2>1 DEF Identificadas
  <2>4. \/ ventana' = ventana \/ Anota(k, p) \/ ventana' = Saca(k, p)
        \/ Anota(<<"forgotEmail", peticion[p].correo>>, p)
    BY <1>8 DEF DeForgot, k
  <2>5. <<"forgotEmail", peticion[p].correo>> \in Claves BY <2>3, Llaves
  <2> QED BY <1>5, <2>2, <2>4, <2>5
<1>9. CASE DeVerify(p, n)
  <2>1. peticion[p].fase # "nada" BY <1>9 DEF DeVerify, De
  <2>2. k \in Claves BY <2>1, ClaveConVentana DEF k
  <2>3. ventana' = ventana \/ Anota(k, p) \/ ventana' = Saca(k, p) \/ Vacia(k)
    BY <1>9 DEF DeVerify, k
  <2> QED BY <1>5, <1>6, <2>2, <2>3
<1> QED BY <1>1, <1>2, <1>3, <1>4, <1>7, <1>8, <1>9 DEF Avanza

\* Sessions change on the route of the codes.
LEMMA EnSesiones ==
    ASSUME Tipos, Identificadas, NEW p \in Peticiones, NEW n, Avanza(p, n)
    PROVE  /\ UNCHANGED pre2fa
              \/ (ruta = "verify" /\ peticion[p].jti \in Sesiones /\ Acaba(peticion[p].jti))
           /\ UNCHANGED intentos
              \/ (/\ ruta = "verify" /\ peticion[p].jti \in Sesiones
                  /\ intentos' = [intentos EXCEPT ![peticion[p].jti] = @ + 1])
<1>1. CASE DeVerify(p, n)
  <2>1. peticion[p].fase # "nada" /\ ruta = "verify" BY <1>1 DEF DeVerify, De
  <2>2. peticion[p].jti \in Sesiones BY <2>1 DEF Identificadas
  <2> QED BY <1>1, <2>1, <2>2 DEF DeVerify
<1>2. CASE ~DeVerify(p, n)
  BY <1>2 DEF Avanza, Entra, Corta, Empieza, Recupera, DeLogin, DeForgot
<1> QED BY <1>1, <1>2

\* Every step of a request keeps the types.
LEMMA TiposAlAvanzar ==
    ASSUME Tipos, Identificadas, NEW p \in Peticiones, NEW n, Avanza(p, n)
    PROVE  Tipos'
<1>1. peticion' \in [Peticiones -> Recibidas] BY DEF Avanza, Cambia, Tipos
<1>2. ventana' \in [Claves -> SUBSET Entradas]
  <2>1. [m |-> p, t |-> ahora] \in Entradas BY DEF Tipos, Entradas
  <2>2. ASSUME NEW k \in Claves, Anota(k, p) PROVE ventana' \in [Claves -> SUBSET Entradas]
    BY <2>1, <2>2 DEF Anota, Agrega, Tipos
  <2>3. ASSUME NEW k \in Claves, NEW W \in SUBSET ventana[k], ventana' = [ventana EXCEPT ![k] = W]
        PROVE  ventana' \in [Claves -> SUBSET Entradas]
    BY <2>3 DEF Tipos
  <2>4. CASE ventana' = ventana BY <2>4 DEF Tipos
  <2> QED BY <2>2, <2>3, <2>4, EnVentanas
<1>3. pre2fa' \in [Sesiones -> Nat] BY EnSesiones DEF Tipos, Acaba
<1>4. intentos' \in [Sesiones -> Nat] BY EnSesiones DEF Tipos
<1>5. /\ ahora' \in Nat \ {0} /\ ruta' \in Rutas /\ distribuido' \in BOOLEAN /\ fallos' \in Nat
  BY DEF Avanza, Cambia, Tipos
<1> QED BY <1>1, <1>2, <1>3, <1>4, <1>5 DEF Tipos

\* The clock keeps them, and takes entries from the windows.
LEMMA AlPasarElTiempo ==
    ASSUME Tipos, Tic
    PROVE  /\ ahora' = ahora + 1 /\ UNCHANGED <<ruta, distribuido, peticion, intentos, fallos>>
           /\ \A k \in Claves : ventana'[k] = {e \in ventana[k] : e.t > ahora' - Largo(k)}
           /\ \A s \in Sesiones : pre2fa'[s] = IF pre2fa[s] <= ahora' THEN 0 ELSE pre2fa[s]
           /\ Tipos'
<1>1. /\ ahora' = ahora + 1 /\ UNCHANGED <<ruta, distribuido, peticion, intentos, fallos>>
      /\ ventana' = [k \in Claves |-> {e \in ventana[k] : e.t > ahora' - Largo(k)}]
      /\ pre2fa' = [s \in Sesiones |-> IF pre2fa[s] <= ahora' THEN 0 ELSE pre2fa[s]]
  BY DEF Tic
<1>2. ventana' \in [Claves -> SUBSET Entradas] BY <1>1 DEF Tipos
<1>3. pre2fa' \in [Sesiones -> Nat] BY <1>1 DEF Tipos
<1>4. Tipos' BY <1>1, <1>2, <1>3 DEF Tipos
<1> QED BY <1>1, <1>4

\* What is left of a window is within its limit.
LEMMA Menguante ==
    ASSUME VentanasAcotadas, NEW k \in Claves, NEW W \in SUBSET ventana[k]
    PROVE  IsFiniteSet(W) /\ Cardinality(W) <= Limite(k)
<1>1. IsFiniteSet(ventana[k]) /\ Cardinality(ventana[k]) <= Limite(k) BY DEF VentanasAcotadas
<1>2. IsFiniteSet(W) /\ Cardinality(W) <= Cardinality(ventana[k]) BY <1>1, FS_Subset
<1>3. Cardinality(W) \in Nat /\ Cardinality(ventana[k]) \in Nat /\ Limite(k) \in Nat
  BY <1>1, <1>2, FS_CardinalityType, Llaves
<1> QED BY <1>1, <1>2, <1>3

\* No window grows over its limit.
LEMMA VentanasAlAvanzar ==
    ASSUME Tipos, Identificadas, VentanasAcotadas, NEW p \in Peticiones, NEW n, Avanza(p, n)
    PROVE  VentanasAcotadas'
<1>1. ASSUME NEW k \in Claves, Anota(k, p), NEW j \in Claves
      PROVE  IsFiniteSet(ventana'[j]) /\ Cardinality(ventana'[j]) <= Limite(j)
  <2>1. CASE j = k
    <3>1. ventana'[j] = ventana[j] \cup {[m |-> p, t |-> ahora]}
      BY <1>1, <2>1 DEF Anota, Agrega, Tipos
    <3>2. IsFiniteSet(ventana[j]) /\ Cardinality(ventana[j]) < Limite(j)
      BY <1>1, <2>1 DEF VentanasAcotadas, Anota, Cabe
    <3>3. Cardinality(ventana[j]) \in Nat /\ Limite(j) \in Nat BY <3>2, FS_CardinalityType, Llaves
    <3> DEFINE S == ventana[j]  x == [m |-> p, t |-> ahora]
    <3> HIDE DEF S, x
    <3>4. /\ IsFiniteSet(S \cup {x})
          /\ Cardinality(S \cup {x}) = Cardinality(S) \/ Cardinality(S \cup {x}) = Cardinality(S) + 1
      <4>1. IsFiniteSet(S) BY <3>2 DEF S
      <4> QED BY <4>1, FS_AddElement
    <3> QED BY <3>1, <3>2, <3>3, <3>4 DEF S, x
  <2>2. CASE j # k
    <3>1. ventana'[j] = ventana[j] BY <1>1, <2>2 DEF Anota, Agrega, Tipos
    <3> QED BY <3>1 DEF VentanasAcotadas
  <2> QED BY <2>1, <2>2
<1>2. ASSUME NEW k \in Claves, NEW W \in SUBSET ventana[k], ventana' = [ventana EXCEPT ![k] = W],
             NEW j \in Claves
      PROVE  IsFiniteSet(ventana'[j]) /\ Cardinality(ventana'[j]) <= Limite(j)
  <2>1. ventana'[j] \in SUBSET ventana[j] BY <1>2 DEF Tipos
  <2> QED BY <2>1, Menguante
<1>3. CASE ventana' = ventana BY <1>3 DEF VentanasAcotadas
<1> QED BY <1>1, <1>2, <1>3, EnVentanas DEF VentanasAcotadas

\* Who came goes on saying from where.
LEMMA IdentificadasAlAvanzar ==
    ASSUME Tipos, Identificadas, NEW p \in Peticiones, NEW n, Avanza(p, n)
    PROVE  Identificadas'
<1>1. ruta' = ruta /\ Cambia(p, n) BY DEF Avanza, Cambia
<1>2. /\ n.fase # "nada"
      /\ IF ruta = "verify"
         THEN n.jti \in Sesiones /\ n.fase \notin {"rafaga", "porCorreo", "revierte"}
         ELSE n.ip \in IPs /\ n.correo \in Correos
  <2>1. CASE Entra(p, n) BY <2>1 DEF Entra
  <2>2. CASE ~Entra(p, n)
    <3>1. /\ peticion[p].fase # "nada" /\ n.fase # "nada"
          /\ n.ip = peticion[p].ip /\ n.correo = peticion[p].correo /\ n.jti = peticion[p].jti
          /\ ruta = "verify" => n.fase \notin {"rafaga", "porCorreo", "revierte"}
      BY <2>2 DEF Avanza, De, Corta, Empieza, Recupera, DeLogin, DeForgot, DeVerify
    <3> QED BY <3>1 DEF Identificadas
  <2> QED BY <2>1, <2>2
<1>3. ASSUME NEW q \in Peticiones
      PROVE  /\ peticion'[q].fase = "nada" => peticion'[q].t = 0
             /\ peticion'[q].fase # "nada" =>
                    IF ruta = "verify"
                    THEN peticion'[q].jti \in Sesiones /\ peticion'[q].fase \notin {"rafaga", "porCorreo", "revierte"}
                    ELSE peticion'[q].ip \in IPs /\ peticion'[q].correo \in Correos
  <2>1. CASE q = p BY <1>1, <1>2, <2>1, Otras
  <2>2. CASE q # p
    <3>1. peticion'[q] = peticion[q] BY <1>1, <2>2, Otras
    <3> QED BY <3>1 DEF Identificadas
  <2> QED BY <2>1, <2>2
<1> QED BY <1>1, <1>3 DEF Identificadas

-----------------------------------------------------------------------------
(* The places by IP *)

\* The keys of different limits are different.
LEMMA Distintas ==
    ASSUME NEW a, NEW b, NEW c
    PROVE  /\ <<"login", a, b>> # <<"forgotIP", c>> /\ <<"login", a, b>> # <<"2fa", c>>
           /\ Minuto(a, b) # <<"forgotIP", c>> /\ Minuto(a, b) # <<"2fa", c>>
           /\ <<"2fa", a>> # <<"forgotIP", c>> /\ <<"forgotEmail", a>> # <<"forgotIP", c>>
           /\ <<"forgotEmail", a>> # <<"2fa", c>>
           /\ <<"forgotIP", a>> = <<"forgotIP", c>> => a = c
           /\ <<"2fa", a>> = <<"2fa", c>> => a = c
BY DEF Minuto

\* Only a request that passes the limit by IP of the recovery takes a place there.
LEMMA LugaresNuevosPorIP ==
    ASSUME Tipos, Identificadas, NEW p \in Peticiones, NEW n, Avanza(p, n),
           NEW i \in IPs, NEW e \in ventana'[<<"forgotIP", i>>]
    PROVE  \/ e \in ventana[<<"forgotIP", i>>]
           \/ e.m = p /\ ruta = "forgot" /\ De(p, n, "limite", "porCorreo") /\ peticion[p].ip = i
<1> DEFINE K == <<"forgotIP", i>>
<1>k. K \in Claves BY Llaves
<1>m. \A k \in Claves : k # K /\ Anota(k, p) => ventana'[K] = ventana[K]
  BY <1>k DEF Anota, Agrega, Tipos
<1>n. \A k \in Claves : \A W : k # K /\ ventana' = [ventana EXCEPT ![k] = W] => ventana'[K] = ventana[K]
  BY <1>k DEF Tipos
<1>c. peticion[p].fase # "nada" => Clave(p) \in Claves BY ClaveConVentana
<1>1. CASE Entra(p, n) BY <1>1 DEF Entra
<1>2. CASE Corta(p, n) BY <1>2 DEF Corta
<1>3. CASE Empieza(p, n)
  <2>1. peticion[p].fase = "rafaga" /\ ruta # "verify" /\ Anota(Minuto(ruta, peticion[p].ip), p)
    BY <1>3 DEF Empieza, De
  <2>2. peticion[p].ip \in IPs /\ ruta \in {"login", "forgot", "reset"}
    BY <2>1 DEF Identificadas, Tipos, Rutas
  <2>3. Minuto(ruta, peticion[p].ip) # K BY Distintas
  <2> QED BY <1>m, <2>1, <2>2, <2>3, Llaves
<1>4. CASE Recupera(p, n) BY <1>4 DEF Recupera
<1>5. CASE DeLogin(p, n)
  <2>1. Clave(p) # K BY <1>5, ClaveDe, Distintas DEF DeLogin
  <2>2. Clave(p) \in Claves BY <1>5, <1>c DEF DeLogin, De
  <2>3. ventana' = ventana \/ Anota(Clave(p), p) \/ ventana' = Saca(Clave(p), p) BY <1>5 DEF DeLogin
  <2>4. ventana'[K] = ventana[K] BY <1>m, <1>n, <2>1, <2>2, <2>3 DEF Saca
  <2> QED BY <2>4
<1>6. CASE DeForgot(p, n)
  <2>1. Clave(p) = <<"forgotIP", peticion[p].ip>> /\ ruta = "forgot" BY <1>6, ClaveDe DEF DeForgot
  <2>2. Clave(p) \in Claves /\ peticion[p].correo \in Correos
    BY <1>6, <1>c, <2>1 DEF DeForgot, De, Identificadas
  <2>3. CASE De(p, n, "limite", "porCorreo") /\ Anota(Clave(p), p)
    <3>1. CASE Clave(p) = K
      <4>1. ventana'[K] = ventana[K] \cup {[m |-> p, t |-> ahora]}
        BY <1>k, <2>3, <3>1 DEF Anota, Agrega, Tipos
      <4>2. e \in ventana[K] \/ e.m = p BY <4>1
      <4>3. peticion[p].ip = i BY <2>1, <3>1, Distintas
      <4> QED BY <2>1, <2>3, <4>2, <4>3
    <3>2. CASE Clave(p) # K BY <1>m, <2>2, <2>3, <3>2
    <3> QED BY <3>1, <3>2
  <2>4. CASE Anota(<<"forgotEmail", peticion[p].correo>>, p)
    <3>1. <<"forgotEmail", peticion[p].correo>> # K BY Distintas
    <3> QED BY <1>m, <2>2, <2>4, <3>1, Llaves
  <2>5. CASE ventana' = Saca(Clave(p), p) BY <1>k, <2>5 DEF Saca, Tipos
  <2>6. CASE UNCHANGED ventana BY <2>6
  <2> QED BY <1>6, <2>3, <2>4, <2>5, <2>6 DEF DeForgot
<1>7. CASE DeVerify(p, n)
  <2>1. Clave(p) # K BY <1>7, ClaveDe, Distintas DEF DeVerify
  <2>2. Clave(p) \in Claves BY <1>7, <1>c DEF DeVerify, De
  <2>3. ventana' = ventana \/ Anota(Clave(p), p) \/ ventana' = Saca(Clave(p), p) \/ Vacia(Clave(p))
    BY <1>7 DEF DeVerify
  <2>4. ventana'[K] = ventana[K] BY <1>m, <1>n, <2>1, <2>2, <2>3 DEF Saca, Vacia
  <2> QED BY <2>4
<1> QED BY <1>1, <1>2, <1>3, <1>4, <1>5, <1>6, <1>7 DEF Avanza

\* Who has a place by IP goes on from where it was let in, and ends by
\* answering 200, 400 or 500, by giving the place back, or by failing to.
LEMMA ConLugarPorIP ==
    ASSUME Tipos, Identificadas, LugaresPorIP, NEW p \in Peticiones, NEW n, Avanza(p, n),
           NEW i \in IPs, NEW e \in ventana[<<"forgotIP", i>>], e.m = p
    PROVE  /\ n.ip = i /\ n.fase \in {"porCorreo", "handler", "revierte", "fin"}
           /\ n.fase = "fin" =>
                  \/ n.estado \in {200, 400, 500}
                  \/ ventana' = Saca(<<"forgotIP", i>>, p)
                  \/ fallos < fallos'
<1>1. /\ ruta = "forgot" /\ peticion[p].ip = i
      /\ peticion[p].fase \in {"porCorreo", "handler", "revierte", "fin"}
  BY DEF LugaresPorIP
<1>2. Recupera(p, n) \/ DeForgot(p, n)
  BY <1>1 DEF Avanza, Entra, Corta, Empieza, DeLogin, DeVerify, De
<1>3. CASE Recupera(p, n) BY <1>1, <1>3 DEF Recupera, De
<1>4. CASE DeForgot(p, n)
  <2>1. Clave(p) = <<"forgotIP", i>> BY <1>1, ClaveDe
  <2> QED BY <1>1, <1>4, <2>1 DEF DeForgot, De
<1> QED BY <1>2, <1>3, <1>4

\* Every place by IP keeps its owner.
LEMMA LugaresPorIPAlAvanzar ==
    ASSUME Tipos, Identificadas, LugaresPorIP, NEW p \in Peticiones, NEW n, Avanza(p, n)
    PROVE  LugaresPorIP'
<1>1. ruta' = ruta /\ Cambia(p, n) BY DEF Avanza, Cambia
<1>2. ASSUME NEW i \in IPs, NEW e \in ventana'[<<"forgotIP", i>>]
      PROVE  /\ ruta = "forgot" /\ peticion'[e.m].ip = i
             /\ peticion'[e.m].fase \in {"porCorreo", "handler", "revierte", "fin"}
  <2>1. CASE e.m = p /\ ruta = "forgot" /\ De(p, n, "limite", "porCorreo") /\ peticion[p].ip = i
    BY <1>1, <2>1, Otras DEF De
  <2>2. CASE e \in ventana[<<"forgotIP", i>>]
    <3>1. e.m \in Peticiones BY <2>2, Llaves DEF Tipos, Entradas
    <3>2. ruta = "forgot" BY <2>2 DEF LugaresPorIP
    <3>3. CASE e.m = p
      <4>1. n.ip = i /\ n.fase \in {"porCorreo", "handler", "revierte", "fin"}
        BY <2>2, <3>3, ConLugarPorIP
      <4> QED BY <1>1, <3>2, <3>3, <4>1, Otras
    <3>4. CASE e.m # p
      <4>1. peticion'[e.m] = peticion[e.m] BY <1>1, <3>1, <3>4, Otras
      <4> QED BY <2>2, <4>1 DEF LugaresPorIP
    <3> QED BY <3>3, <3>4
  <2> QED BY <2>1, <2>2, LugaresNuevosPorIP
<1> QED BY <1>1, <1>2 DEF LugaresPorIP

\* No step ends a request that was turned away and leaves its place, unless
\* the store fails.
LEMMA CupoAlAvanzar ==
    ASSUME Tipos, Identificadas, LugaresPorIP, CupoConCausa,
           NEW p \in Peticiones, NEW n, Avanza(p, n)
    PROVE  CupoConCausa'
<1>1. Cambia(p, n) /\ fallos \in Nat /\ fallos' \in Nat /\ fallos <= fallos' BY DEF Avanza, Tipos
<1>2. ASSUME fallos' = 0, NEW i \in IPs, NEW e \in ventana'[<<"forgotIP", i>>],
             peticion'[e.m].fase = "fin"
      PROVE  peticion'[e.m].estado \in {200, 400, 500}
  <2>1. fallos = 0 BY <1>1, <1>2
  <2>2. CASE e.m = p /\ De(p, n, "limite", "porCorreo")
    BY <1>1, <1>2, <2>2, Otras DEF De
  <2>3. CASE e \in ventana[<<"forgotIP", i>>]
    <3>1. e.m \in Peticiones BY <2>3, Llaves DEF Tipos, Entradas
    <3>2. CASE e.m = p
      <4>1. peticion'[e.m] = n BY <1>1, <3>2, Otras
      <4>2. \/ n.estado \in {200, 400, 500}
            \/ ventana' = Saca(<<"forgotIP", i>>, p)
            \/ fallos < fallos'
        BY <1>2, <2>3, <3>2, <4>1, ConLugarPorIP
      <4>3. ventana' # Saca(<<"forgotIP", i>>, p) BY <1>2, <3>2, Llaves DEF Saca, Tipos
      <4> QED BY <1>2, <2>1, <4>1, <4>2, <4>3
    <3>3. CASE e.m # p
      <4>1. peticion'[e.m] = peticion[e.m] BY <1>1, <3>1, <3>3, Otras
      <4> QED BY <1>2, <2>1, <2>3, <4>1 DEF CupoConCausa
    <3> QED BY <3>2, <3>3
  <2> QED BY <2>2, <2>3, LugaresNuevosPorIP
<1> QED BY <1>2 DEF CupoConCausa

-----------------------------------------------------------------------------
(* The places of the logins *)

\* A place taken by a login is lost by that login only, when it did not fail.
LEMMA EntradasDeLogin ==
    ASSUME Tipos, Identificadas, ruta = "login", NEW p \in Peticiones, NEW n, Avanza(p, n),
           NEW k \in Claves, NEW e \in ventana[k]
    PROVE  e \in ventana'[k] \/ (e.m = p /\ De(p, n, "cierre", "fin") /\ n.estado # 401)
<1>1. Entra(p, n) \/ Corta(p, n) \/ Empieza(p, n) \/ DeLogin(p, n)
  BY DEF Avanza, Recupera, DeForgot, DeVerify
<1>2. ventana \in [Claves -> SUBSET Entradas] BY DEF Tipos
<1>3. \A j : Anota(j, p) => e \in ventana'[k] BY <1>2 DEF Anota, Agrega
<1>4. ventana' = Saca(Clave(p), p) => e \in ventana'[k] \/ e.m = p BY <1>2 DEF Saca
<1>5. \/ UNCHANGED ventana \/ \E j : Anota(j, p)
      \/ De(p, n, "cierre", "fin") /\ n.estado # 401 /\ ventana' = Saca(Clave(p), p)
  BY <1>1 DEF Entra, Corta, Empieza, DeLogin
<1> QED BY <1>3, <1>4, <1>5

\* The place of a login has the time it came.
LEMMA LoginsAlAvanzar ==
    ASSUME Tipos, Identificadas, LoginsConLugar, NEW p \in Peticiones, NEW n, Avanza(p, n)
    PROVE  LoginsConLugar'
<1>0. Cambia(p, n) /\ ruta' = ruta /\ ahora' = ahora BY DEF Avanza, Cambia
<1>1. ASSUME ruta = "login", NEW q \in Peticiones,
             peticion'[q].fase = "handler" \/ peticion'[q].estado = 401,
             peticion'[q].t > 0 /\ peticion'[q].t > ahora - VentanaLogin
      PROVE  [m |-> q, t |-> peticion'[q].t] \in ventana'[Clave(q)']
  <2>1. Clave(q)' = <<"login", peticion'[q].ip, peticion'[q].correo>> BY <1>0, <1>1 DEF Clave
  <2>2. Clave(q) = <<"login", peticion[q].ip, peticion[q].correo>> BY <1>1, ClaveDe
  <2>3. CASE q # p
    <3>1. peticion'[q] = peticion[q] BY <1>0, <2>3, Otras
    <3>2. Clave(q)' = Clave(q) BY <2>1, <2>2, <3>1
    <3>3. peticion[q].fase # "nada" BY <1>1, <3>1 DEF Identificadas
    <3>4. Clave(q) \in Claves BY <3>3, ClaveConVentana
    <3> DEFINE e == [m |-> q, t |-> peticion[q].t]
    <3>5. e \in ventana[Clave(q)] BY <1>1, <3>1 DEF LoginsConLugar
    <3>6. e.m # p BY <2>3
    <3> HIDE DEF e
    <3>7. e \in ventana'[Clave(q)] BY <1>1, <3>4, <3>5, <3>6, EntradasDeLogin
    <3> QED BY <3>1, <3>2, <3>7 DEF e
  <2>4. CASE q = p
    <3>1. peticion'[p] = n BY <1>0, Otras
    <3>2. CASE Entra(p, n) BY <1>1, <2>4, <3>1, <3>2 DEF Entra
    <3>3. CASE Corta(p, n) BY <1>1, <2>4, <3>1, <3>3 DEF Corta, De
    <3>4. CASE De(p, n, "limite", "handler") /\ n.t = ahora /\ Anota(Clave(p), p)
      <4>1. Clave(q)' = Clave(p) BY <2>1, <2>2, <2>4, <3>1, <3>4 DEF De
      <4>2. Clave(p) \in Claves BY <3>4, ClaveConVentana DEF De
      <4> QED BY <2>4, <3>1, <3>4, <4>1, <4>2 DEF Anota, Agrega, Tipos
    <3>5. CASE (/\ ~De(p, n, "limite", "handler") /\ ~Entra(p, n) /\ ~Corta(p, n))
      <4>1. Empieza(p, n) \/ DeLogin(p, n)
        BY <1>1, <3>5 DEF Avanza, Recupera, DeForgot, DeVerify
      <4>2. /\ peticion[p].fase # "nada" /\ n.ip = peticion[p].ip /\ n.correo = peticion[p].correo
            /\ n.t = peticion[p].t
            /\ n.estado = 401 => peticion[p].estado = 401 \/ peticion[p].fase = "handler"
            /\ n.fase # "handler"
        BY <1>1, <3>5, <4>1 DEF Empieza, DeLogin, De
      <4>3. Clave(q)' = Clave(p) BY <2>1, <2>2, <2>4, <3>1, <4>2
      <4>4. Clave(p) \in Claves BY <4>2, ClaveConVentana
      <4> DEFINE e == [m |-> p, t |-> peticion[p].t]
      <4>5. e \in ventana[Clave(p)] BY <1>1, <2>4, <3>1, <4>2 DEF LoginsConLugar
      <4> HIDE DEF e
      <4>6. e \in ventana'[Clave(p)] BY <1>1, <2>4, <3>1, <4>2, <4>4, <4>5, EntradasDeLogin
      <4> QED BY <2>4, <3>1, <4>2, <4>3, <4>6 DEF e
    <3>6. De(p, n, "limite", "handler") => (n.t = ahora /\ Anota(Clave(p), p))
      BY <1>1 DEF Avanza, Entra, Corta, Empieza, Recupera, DeLogin, DeForgot, DeVerify, De
    <3> QED BY <3>2, <3>3, <3>4, <3>5, <3>6
  <2> QED BY <2>3, <2>4
<1> QED BY <1>0, <1>1 DEF LoginsConLugar

\* Those that failed or are being tried are no more than the places.
LEMMA FallidosConLugar ==
    ASSUME Tipos, Identificadas, VentanasAcotadas, LoginsConLugar
    PROVE  FallidosAcotados
<1>1. ASSUME ruta = "login", NEW i \in IPs, NEW c \in Correos
      PROVE  Cardinality({p \in Peticiones :
                 /\ Clave(p) = <<"login", i, c>> /\ peticion[p].t > ahora - VentanaLogin /\ peticion[p].t > 0
                 /\ peticion[p].fase = "handler" \/ peticion[p].estado = 401}) <= LimiteLogin
  <2> DEFINE k == <<"login", i, c>>
             S == {p \in Peticiones :
                 /\ Clave(p) = k /\ peticion[p].t > ahora - VentanaLogin /\ peticion[p].t > 0
                 /\ peticion[p].fase = "handler" \/ peticion[p].estado = 401}
             T == ventana[k]
             f == [p \in S |-> [m |-> p, t |-> peticion[p].t]]
  <2>1. k \in Claves /\ Limite(k) = LimiteLogin BY Llaves
  <2>2. IsFiniteSet(T) /\ Cardinality(T) <= LimiteLogin BY <2>1 DEF VentanasAcotadas
  <2>3. \A p \in S : [m |-> p, t |-> peticion[p].t] \in T BY <1>1 DEF LoginsConLugar
  <2>4. f \in Injection(S, T) BY <2>3 DEF Injection, IsInjective
  <2> HIDE DEF k, S, T, f
  <2>5. IsFiniteSet(S) /\ Cardinality(S) <= Cardinality(T) BY <2>2, <2>4, FS_Injection
  <2>6. Cardinality(S) \in Nat /\ Cardinality(T) \in Nat BY <2>2, <2>5, FS_CardinalityType
  <2>7. LimiteLogin \in Nat BY LimiteAssumption
  <2>8. Cardinality(S) <= LimiteLogin BY <2>2, <2>5, <2>6, <2>7
  <2> QED BY <2>8 DEF S, k
<1> QED BY <1>1 DEF FallidosAcotados

-----------------------------------------------------------------------------
(* The places of the codes *)

\* What a step can do to the window of a temporary token.
LEMMA EnVentanaDeToken ==
    ASSUME Tipos, Identificadas, NEW p \in Peticiones, NEW n, Avanza(p, n), NEW s \in Sesiones
    PROVE  \/ ventana'[<<"2fa", s>>] = ventana[<<"2fa", s>>]
           \/ /\ ruta = "verify" /\ peticion[p].jti = s
              /\ \/ /\ De(p, n, "limite", "handler") /\ UNCHANGED <<pre2fa, intentos>>
                    /\ ventana'[<<"2fa", s>>] = ventana[<<"2fa", s>>] \cup {[m |-> p, t |-> ahora]}
                 \/ /\ De(p, n, "cierre", "fin") /\ UNCHANGED <<pre2fa, intentos>>
                    /\ n.estado = peticion[p].estado /\ n.estado \notin {200, 401}
                    /\ ventana'[<<"2fa", s>>] = {e \in ventana[<<"2fa", s>>] : e.m # p}
                 \/ /\ ventana'[<<"2fa", s>>] = {}
                    /\ Acaba(s) \/ (UNCHANGED pre2fa /\ De(p, n, "cierre", "fin") /\ peticion[p].estado = 200)
<1> DEFINE K == <<"2fa", s>>
<1>k. K \in Claves BY Llaves
<1>m. \A k \in Claves : k # K /\ Anota(k, p) => ventana'[K] = ventana[K]
  BY <1>k DEF Anota, Agrega, Tipos
<1>n. \A k \in Claves : \A W : k # K /\ ventana' = [ventana EXCEPT ![k] = W] => ventana'[K] = ventana[K]
  BY <1>k DEF Tipos
<1>c. peticion[p].fase # "nada" => Clave(p) \in Claves BY ClaveConVentana
<1>1. CASE Entra(p, n) BY <1>1 DEF Entra
<1>2. CASE Corta(p, n) BY <1>2 DEF Corta
<1>3. CASE Empieza(p, n)
  <2>1. peticion[p].fase = "rafaga" /\ ruta # "verify" /\ Anota(Minuto(ruta, peticion[p].ip), p)
    BY <1>3 DEF Empieza, De
  <2>2. peticion[p].ip \in IPs /\ ruta \in {"login", "forgot", "reset"}
    BY <2>1 DEF Identificadas, Tipos, Rutas
  <2>3. Minuto(ruta, peticion[p].ip) # K BY Distintas
  <2> QED BY <1>m, <2>1, <2>2, <2>3, Llaves
<1>4. CASE Recupera(p, n) BY <1>4 DEF Recupera
<1>5. CASE DeLogin(p, n)
  <2>1. Clave(p) # K BY <1>5, ClaveDe, Distintas DEF DeLogin
  <2>2. Clave(p) \in Claves BY <1>5, <1>c DEF DeLogin, De
  <2>3. ventana' = ventana \/ Anota(Clave(p), p) \/ ventana' = Saca(Clave(p), p) BY <1>5 DEF DeLogin
  <2>4. ventana'[K] = ventana[K] BY <1>m, <1>n, <2>1, <2>2, <2>3 DEF Saca
  <2> QED BY <2>4
<1>6. CASE DeForgot(p, n)
  <2>1. Clave(p) # K BY <1>6, ClaveDe, Distintas DEF DeForgot
  <2>2. Clave(p) \in Claves /\ peticion[p].correo \in Correos
    BY <1>6, <1>c DEF DeForgot, De, Identificadas
  <2>3. <<"forgotEmail", peticion[p].correo>> \in Claves /\ <<"forgotEmail", peticion[p].correo>> # K
    BY <2>2, Llaves, Distintas
  <2>4. \/ ventana' = ventana \/ Anota(Clave(p), p) \/ ventana' = Saca(Clave(p), p)
        \/ Anota(<<"forgotEmail", peticion[p].correo>>, p)
    BY <1>6 DEF DeForgot
  <2>5. ventana'[K] = ventana[K] BY <1>m, <1>n, <2>1, <2>2, <2>3, <2>4 DEF Saca
  <2> QED BY <2>5
<1>7. CASE DeVerify(p, n)
  <2>1. Clave(p) = <<"2fa", peticion[p].jti>> /\ ruta = "verify" BY <1>7, ClaveDe DEF DeVerify
  <2>2. Clave(p) \in Claves BY <1>7, <1>c DEF DeVerify, De
  <2>3. CASE peticion[p].jti # s
    <3>1. Clave(p) # K BY <2>1, <2>3, Distintas
    <3>2. ventana' = ventana \/ Anota(Clave(p), p) \/ ventana' = Saca(Clave(p), p) \/ Vacia(Clave(p))
      BY <1>7 DEF DeVerify
    <3>3. ventana'[K] = ventana[K] BY <1>m, <1>n, <2>2, <3>1, <3>2 DEF Saca, Vacia
    <3> QED BY <3>3
  <2>4. CASE peticion[p].jti = s
    <3>1. Clave(p) = K BY <2>1, <2>4
    <3>2. Anota(Clave(p), p) => ventana'[K] = ventana[K] \cup {[m |-> p, t |-> ahora]}
      BY <1>k, <3>1 DEF Anota, Agrega, Tipos
    <3>3. ventana' = Saca(Clave(p), p) => ventana'[K] = {e \in ventana[K] : e.m # p}
      BY <1>k, <3>1 DEF Saca, Tipos
    <3>4. Vacia(Clave(p)) => ventana'[K] = {} BY <1>k, <3>1 DEF Vacia, Tipos
    <3>5. UNCHANGED ventana => ventana'[K] = ventana[K] OBVIOUS
    <3> HIDE DEF K
    <3> QED BY <1>7, <2>1, <2>4, <3>2, <3>3, <3>4, <3>5 DEF DeVerify, De, K
  <2> QED BY <2>3, <2>4
<1> QED BY <1>1, <1>2, <1>3, <1>4, <1>5, <1>6, <1>7 DEF Avanza

\* Past the limit of the codes nobody goes back.
LEMMA PasadoElLimite ==
    ASSUME ruta = "verify", NEW p \in Peticiones, NEW n, Avanza(p, n),
           peticion[p].fase \in {"handler", "comparar", "cierre", "fin"}
    PROVE  DeVerify(p, n) /\ n.fase \in {"handler", "comparar", "cierre", "fin"}
<1>1. DeVerify(p, n) BY DEF Avanza, Entra, Corta, Empieza, Recupera, DeLogin, DeForgot, De
<1> QED BY <1>1 DEF DeVerify, De

\* Every place by token keeps its owner, and nobody takes two.
LEMMA LugaresPorTokenAlAvanzar ==
    ASSUME Tipos, Identificadas, LugaresPorToken, NEW p \in Peticiones, NEW n, Avanza(p, n)
    PROVE  LugaresPorToken'
<1>0. ruta' = ruta /\ Cambia(p, n) /\ ahora > 0 BY DEF Avanza, Cambia, Tipos
<1>1. ASSUME NEW s \in Sesiones, NEW e \in ventana'[<<"2fa", s>>]
      PROVE  /\ ruta = "verify" /\ e.t > 0
             /\ peticion'[e.m].fase \in {"handler", "comparar", "cierre", "fin"}
             /\ \A f \in ventana'[<<"2fa", s>>] : f.m = e.m => f = e
  <2> DEFINE V == ventana[<<"2fa", s>>]  V1 == ventana'[<<"2fa", s>>]  x == [m |-> p, t |-> ahora]
  <2>1. \/ V1 \subseteq V
        \/ ruta = "verify" /\ De(p, n, "limite", "handler") /\ V1 = V \cup {x}
    BY EnVentanaDeToken
  <2>2. ASSUME NEW d \in V
        PROVE  /\ ruta = "verify" /\ d.t > 0 /\ d.m \in Peticiones
               /\ peticion'[d.m].fase \in {"handler", "comparar", "cierre", "fin"}
               /\ d.m = p => peticion[p].fase # "limite"
               /\ \A f \in V : f.m = d.m => f = d
    <3>1. /\ ruta = "verify" /\ d.t > 0 /\ \A f \in V : f.m = d.m => f = d
          /\ peticion[d.m].fase \in {"handler", "comparar", "cierre", "fin"}
      BY DEF LugaresPorToken
    <3>2. d.m \in Peticiones BY Llaves DEF Tipos, Entradas
    <3>3. CASE d.m = p
      <4>1. n.fase \in {"handler", "comparar", "cierre", "fin"} BY <3>1, <3>3, PasadoElLimite
      <4> QED BY <1>0, <3>1, <3>3, <4>1, Otras
    <3>4. CASE d.m # p
      <4>1. peticion'[d.m] = peticion[d.m] BY <1>0, <3>2, <3>4, Otras
      <4> QED BY <3>1, <3>2, <3>4, <4>1
    <3> QED BY <3>3, <3>4
  <2>3. x.m = p /\ x.t = ahora OBVIOUS
  <2> HIDE DEF V, x
  <2>4. CASE V1 \subseteq V BY <1>1, <2>2, <2>4
  <2>5. CASE ruta = "verify" /\ De(p, n, "limite", "handler") /\ V1 = V \cup {x}
    <3>1. peticion[p].fase = "limite" /\ n.fase = "handler" /\ peticion'[p] = n
      BY <1>0, <2>5, Otras DEF De
    <3>2. \A d \in V : d.m # p BY <2>2, <3>1
    <3>3. CASE e \in V BY <2>2, <2>3, <2>5, <3>2, <3>3
    <3>4. CASE e = x
      <4>1. \A f \in V1 : f.m = e.m => f = e BY <2>3, <2>5, <3>2, <3>4
      <4> QED BY <1>0, <2>3, <2>5, <3>1, <3>4, <4>1
    <3> QED BY <1>1, <2>5, <3>3, <3>4
  <2> QED BY <2>1, <2>4, <2>5
<1> QED BY <1>0, <1>1 DEF LugaresPorToken

\* A request can only end a session, and the code that is accepted does.
LEMMA SesionesAlAvanzar ==
    ASSUME Tipos, Identificadas, SesionesEnSuVida, NEW p \in Peticiones, NEW n, Avanza(p, n)
    PROVE  /\ SesionesEnSuVida'
           /\ \A s \in Sesiones : pre2fa'[s] \in {0, pre2fa[s]}
<1>0. ruta' = ruta /\ ahora' = ahora /\ Cambia(p, n) BY DEF Avanza, Cambia
<1>1. ASSUME NEW s \in Sesiones PROVE pre2fa'[s] \in {0, pre2fa[s]}
  BY EnSesiones DEF Acaba, Tipos
<1>2. ASSUME NEW s \in Sesiones, ruta = "verify", NEW q \in Peticiones,
             peticion'[q].jti = s, peticion'[q].estado = 200
      PROVE  pre2fa'[s] = 0
  <2>1. CASE q # p
    <3>1. peticion'[q] = peticion[q] BY <1>0, <2>1, Otras
    <3>2. pre2fa[s] = 0 BY <1>2, <3>1 DEF SesionesEnSuVida
    <3> QED BY <1>1, <3>2
  <2>2. CASE q = p
    <3>1. n.jti = s /\ n.estado = 200 BY <1>0, <1>2, <2>2, Otras
    <3>2. DeVerify(p, n)
      BY <1>2, <3>1 DEF Avanza, Entra, Corta, Empieza, Recupera, DeLogin, DeForgot, De
    <3>3. peticion[p].jti = s BY <3>1, <3>2 DEF DeVerify, De
    <3>4. peticion[p].estado = 200 \/ Acaba(s)
      BY <3>1, <3>2, <3>3 DEF DeVerify
    <3>5. peticion[p].estado = 200 => pre2fa[s] = 0 BY <1>2, <3>3 DEF SesionesEnSuVida
    <3>6. Acaba(s) => pre2fa'[s] = 0 BY DEF Acaba, Tipos
    <3> QED BY <1>1, <3>4, <3>5, <3>6
  <2> QED BY <2>1, <2>2
<1>3. ASSUME NEW s \in Sesiones, pre2fa'[s] # 0
      PROVE  pre2fa'[s] = 1 + TTLPre2FA /\ ahora < pre2fa'[s]
  BY <1>1, <1>3 DEF SesionesEnSuVida
<1> QED BY <1>0, <1>1, <1>2, <1>3 DEF SesionesEnSuVida

\* Of the requests of s, the step of p changes p.
LEMMA EnConjuntos ==
    ASSUME Tipos, NEW p \in Peticiones, NEW n, Cambia(p, n), NEW s \in Sesiones
    PROVE  /\ \A q : q # p => /\ q \in Pendientes(s)' <=> q \in Pendientes(s)
                              /\ q \in Comparando(s)' <=> q \in Comparando(s)
           /\ p \in Pendientes(s)' <=>
                  /\ ruta = "verify" /\ n.jti = s
                  /\ \/ n.fase \in {"handler", "comparar"}
                     \/ n.fase = "cierre" /\ n.estado \notin {200, 401}
           /\ p \in Comparando(s)' <=> ruta = "verify" /\ n.jti = s /\ n.fase = "comparar"
<1>1. /\ ruta' = ruta /\ peticion'[p] = n
      /\ \A q \in Peticiones : q # p => peticion'[q] = peticion[q]
  BY Otras DEF Cambia
<1> QED BY <1>1 DEF Pendientes, Comparando, En

\* The requests of s are finitely many, and those about to compare may do so.
LEMMA ConjuntosFinitos ==
    ASSUME NEW s
    PROVE  /\ IsFiniteSet(Pendientes(s)) /\ Cardinality(Pendientes(s)) \in Nat
           /\ IsFiniteSet(Comparando(s)) /\ Cardinality(Comparando(s)) \in Nat
           /\ Comparando(s) \subseteq Pendientes(s)
<1>1. IsFiniteSet(Peticiones)
  <2>1. 1 \in Int /\ MaxPeticiones \in Int BY LimiteAssumption
  <2> QED BY <2>1, FS_Interval DEF Peticiones
<1>2. Pendientes(s) \in SUBSET Peticiones /\ Comparando(s) \in SUBSET Peticiones
  BY DEF Pendientes, Comparando
<1>3. IsFiniteSet(Pendientes(s)) /\ IsFiniteSet(Comparando(s)) BY <1>1, <1>2, FS_Subset
<1>4. Comparando(s) \subseteq Pendientes(s) BY DEF Pendientes, Comparando, En
<1> QED BY <1>3, <1>4, FS_CardinalityType

\* A part of a finite set has no more elements.
LEMMA Parte ==
    ASSUME NEW S, IsFiniteSet(S), NEW T \in SUBSET S
    PROVE  /\ IsFiniteSet(T) /\ Cardinality(T) \in Nat /\ Cardinality(S) \in Nat
           /\ Cardinality(T) <= Cardinality(S)
BY FS_Subset, FS_CardinalityType

\* When no more requests may compare, none compared, and the window is what it
\* was or the session ended, nothing is exceeded.
Quieta(s) ==
    /\ Pendientes(s)' \subseteq Pendientes(s) /\ Comparando(s)' \subseteq Comparando(s)
    /\ intentos'[s] = intentos[s] /\ pre2fa'[s] \in {0, pre2fa[s]}
    /\ ventana'[<<"2fa", s>>] = ventana[<<"2fa", s>>] \/ pre2fa'[s] = 0
ConLugar(s) ==
    /\ pre2fa[s] # 0 => intentos[s] + Cardinality(Pendientes(s)) <= Cardinality(ventana[<<"2fa", s>>])
    /\ intentos[s] + Cardinality(Comparando(s)) <= Limite2FA

\* So the count of the token is kept.
LEMMA SiQuieta ==
    ASSUME Tipos, VentanasAcotadas, NEW s \in Sesiones, ConLugar(s), Quieta(s)
    PROVE  ConLugar(s)'
<1> DEFINE P == Pendientes(s)  P1 == Pendientes(s)'  C == Comparando(s)  C1 == Comparando(s)'
           w == Cardinality(ventana[<<"2fa", s>>])
<1>1. IsFiniteSet(P) /\ IsFiniteSet(C) BY ConjuntosFinitos
<1>2. P1 \in SUBSET P /\ C1 \in SUBSET C BY DEF Quieta
<1>3. /\ pre2fa[s] # 0 => intentos[s] + Cardinality(P) <= w
      /\ intentos[s] + Cardinality(C) <= Limite2FA
  BY DEF ConLugar
<1>4. intentos[s] \in Nat /\ w \in Nat /\ Limite2FA \in Nat
  BY Llaves, LimiteAssumption, FS_CardinalityType DEF Tipos, VentanasAcotadas
<1>5. /\ intentos'[s] = intentos[s] /\ pre2fa'[s] \in {0, pre2fa[s]}
      /\ Cardinality(ventana'[<<"2fa", s>>]) = w \/ pre2fa'[s] = 0
  BY DEF Quieta
<1> HIDE DEF P, P1, C, C1, w
<1>6. /\ Cardinality(P1) \in Nat /\ Cardinality(P) \in Nat /\ Cardinality(P1) <= Cardinality(P)
      /\ Cardinality(C1) \in Nat /\ Cardinality(C) \in Nat /\ Cardinality(C1) <= Cardinality(C)
  BY <1>1, <1>2, Parte
<1>7. /\ pre2fa'[s] # 0 => intentos'[s] + Cardinality(P1) <= Cardinality(ventana'[<<"2fa", s>>])
      /\ intentos'[s] + Cardinality(C1) <= Limite2FA
  BY <1>3, <1>4, <1>5, <1>6
<1> QED BY <1>7 DEF ConLugar, P1, C1

\* Every step of a request keeps the count of each temporary token.
LEMMA ConLugarAlAvanzar ==
    ASSUME Tipos, Identificadas, VentanasAcotadas, LugaresPorToken, SesionesEnSuVida,
           NEW s \in Sesiones, ConLugar(s), NEW p \in Peticiones, NEW n, Avanza(p, n)
    PROVE  ConLugar(s)'
<1> DEFINE P == Pendientes(s)  P1 == Pendientes(s)'  C == Comparando(s)  C1 == Comparando(s)'
           V == ventana[<<"2fa", s>>]  V1 == ventana'[<<"2fa", s>>]
<1>a. Cambia(p, n) BY DEF Avanza
<1>b. /\ \A q : q # p => (q \in P1 <=> q \in P) /\ (q \in C1 <=> q \in C)
      /\ p \in P1 <=> /\ ruta = "verify" /\ n.jti = s
                      /\ \/ n.fase \in {"handler", "comparar"}
                         \/ n.fase = "cierre" /\ n.estado \notin {200, 401}
      /\ p \in C1 <=> ruta = "verify" /\ n.jti = s /\ n.fase = "comparar"
  BY <1>a, EnConjuntos
<1>c. /\ p \in P <=> /\ ruta = "verify" /\ peticion[p].jti = s
                     /\ \/ peticion[p].fase \in {"handler", "comparar"}
                        \/ peticion[p].fase = "cierre" /\ peticion[p].estado \notin {200, 401}
      /\ p \in C <=> ruta = "verify" /\ peticion[p].jti = s /\ peticion[p].fase = "comparar"
  BY DEF Pendientes, Comparando, En
<1>d. pre2fa'[s] \in {0, pre2fa[s]} BY SesionesAlAvanzar
<1>e. /\ IsFiniteSet(P) /\ Cardinality(P) \in Nat /\ IsFiniteSet(C) /\ Cardinality(C) \in Nat
      /\ C \subseteq P
  BY ConjuntosFinitos
<1>f. /\ IsFiniteSet(V) /\ Cardinality(V) \in Nat /\ Cardinality(V) <= Limite2FA
      /\ Limite2FA \in Nat /\ intentos[s] \in Nat
  BY Llaves, LimiteAssumption, FS_CardinalityType DEF Tipos, VentanasAcotadas
<1>g. /\ pre2fa[s] # 0 => intentos[s] + Cardinality(P) <= Cardinality(V)
      /\ intentos[s] + Cardinality(C) <= Limite2FA
  BY DEF ConLugar
<1>h. ASSUME /\ pre2fa'[s] # 0 => intentos'[s] + Cardinality(P1) <= Cardinality(V1)
             /\ intentos'[s] + Cardinality(C1) <= Limite2FA
      PROVE  ConLugar(s)'
  BY <1>h DEF ConLugar
<1>l. /\ \A d \in V : ruta = "verify" /\ peticion[d.m].fase \in {"handler", "comparar", "cierre", "fin"}
      /\ \A d, f \in V : f.m = d.m => f = d
  BY DEF LugaresPorToken
\* Another token, or another route.
<1>1. CASE ruta # "verify" \/ (peticion[p].fase # "nada" /\ peticion[p].jti # s) \/ Entra(p, n)
  <2>1. p \notin P1 /\ p \notin C1
    BY <1>1, <1>b DEF Avanza, Entra, Corta, Empieza, Recupera, DeLogin, DeForgot, DeVerify, De
  <2>2. intentos'[s] = intentos[s] BY <1>1, EnSesiones DEF Tipos, Entra
  <2>3. V1 = V
    <3>1. CASE Entra(p, n) BY <3>1 DEF Entra
    <3>2. CASE ~Entra(p, n) BY <1>1, <3>2, EnVentanaDeToken DEF Avanza, Corta, DeVerify, De
    <3> QED BY <3>1, <3>2
  <2>4. P1 \subseteq P /\ C1 \subseteq C BY <1>b, <2>1
  <2>5. Quieta(s) BY <1>d, <2>2, <2>3, <2>4 DEF Quieta
  <2> QED BY <2>5, SiQuieta
<1>2. CASE ruta = "verify" /\ peticion[p].jti = s /\ ~Entra(p, n)
  <2>1. Corta(p, n) \/ DeVerify(p, n) BY <1>2 DEF Avanza, Empieza, Recupera, DeLogin, DeForgot
  <2>2. n.jti = s /\ Clave(p) = <<"2fa", s>> BY <1>2, <2>1, ClaveDe DEF Corta, DeVerify, De
  <2>k. <<"2fa", s>> \in Claves BY Llaves
  \* It does not reach the handler, or the handler does not compare.
  <2>3. ASSUME p \notin P1 \/ p \in P, p \notin C1, UNCHANGED intentos, V1 = V \/ pre2fa'[s] = 0
        PROVE  ConLugar(s)'
    <3>1. P1 \subseteq P /\ C1 \subseteq C BY <1>b, <2>3
    <3>2. Quieta(s) BY <1>d, <2>3, <3>1 DEF Quieta
    <3> QED BY <3>2, SiQuieta
  <2>4. CASE Corta(p, n)
    <3>1. n.fase = "fin" /\ UNCHANGED <<ventana, intentos>> BY <2>4 DEF Corta, De
    <3> QED BY <1>b, <2>3, <3>1
  \* It is let in, with a place of its own.
  <2>5. CASE De(p, n, "limite", "handler") /\ Anota(Clave(p), p) /\ UNCHANGED <<pre2fa, intentos>>
    <3> DEFINE x == [m |-> p, t |-> ahora]
    <3>1. V1 = V \cup {x} BY <2>2, <2>k, <2>5 DEF Anota, Agrega, Tipos
    <3>2. x.m = p OBVIOUS
    <3>3. peticion[p].fase = "limite" /\ n.fase = "handler" BY <2>5 DEF De
    <3> HIDE DEF x
    <3>4. x \notin V BY <1>l, <3>2, <3>3
    <3>5. p \notin P /\ p \notin C /\ p \notin C1 BY <1>b, <1>c, <3>3
    <3>6. P1 \subseteq P \cup {p} /\ C1 \subseteq C BY <1>b, <3>5
    <3> HIDE DEF P, P1, C, C1, V, V1
    <3>7. Cardinality(V1) = Cardinality(V) + 1 BY <1>f, <3>1, <3>4, FS_AddElement
    <3>8. IsFiniteSet(P \cup {p}) /\ Cardinality(P \cup {p}) = Cardinality(P) + 1
      BY <1>e, <3>5, FS_AddElement
    <3>9. /\ Cardinality(P1) \in Nat /\ Cardinality(P1) <= Cardinality(P) + 1
          /\ Cardinality(C1) \in Nat /\ Cardinality(C1) <= Cardinality(C)
      BY <1>e, <3>6, <3>8, Parte
    <3> QED BY <1>e, <1>f, <1>g, <1>h, <2>5, <3>7, <3>9
  <2>6. CASE /\ De(p, n, "limite", "fin") /\ UNCHANGED intentos
             /\ (Acaba(s) /\ Vacia(Clave(p))) \/ UNCHANGED <<pre2fa, ventana>>
    <3>1. n.fase = "fin" BY <2>6 DEF De
    <3>2. V1 = V \/ pre2fa'[s] = 0 BY <2>6 DEF Acaba, Tipos
    <3> QED BY <1>b, <2>3, <2>6, <3>1, <3>2
  <2>7. CASE De(p, n, "handler", "cierre") /\ UNCHANGED <<ventana, pre2fa, intentos>>
    <3>1. p \in P /\ p \notin C1 BY <1>2, <1>b, <1>c, <2>7 DEF De
    <3> QED BY <2>3, <2>7, <3>1
  \* It is about to compare: the session lives, and the window answers for it.
  <2>8. CASE De(p, n, "handler", "comparar") /\ pre2fa[s] # 0 /\ UNCHANGED <<ventana, pre2fa, intentos>>
    <3>1. p \in P BY <1>2, <1>c, <2>8 DEF De
    <3>2. P1 \in SUBSET P /\ C1 \in SUBSET P BY <1>b, <1>e, <3>1
    <3>3. V1 = V BY <2>8
    <3> HIDE DEF P, P1, C, C1, V, V1
    <3>4. /\ Cardinality(P1) \in Nat /\ Cardinality(P1) <= Cardinality(P)
          /\ Cardinality(C1) \in Nat /\ Cardinality(C1) <= Cardinality(P)
      BY <1>e, <3>2, Parte
    <3> QED BY <1>e, <1>f, <1>g, <1>h, <2>8, <3>3, <3>4
  \* It compares: one more comparison, one fewer to be made.
  <2>9. CASE /\ De(p, n, "comparar", "cierre") /\ UNCHANGED ventana /\ n.estado \in {200, 401}
             /\ intentos' = [intentos EXCEPT ![s] = @ + 1]
    <3>1. p \in P /\ p \in C /\ p \notin P1 /\ p \notin C1 BY <1>2, <1>b, <1>c, <2>9 DEF De
    <3>2. P1 = P \ {p} /\ C1 = C \ {p} BY <1>b, <3>1
    <3>3. V1 = V /\ intentos'[s] = intentos[s] + 1 BY <2>9 DEF Tipos
    <3> HIDE DEF P, P1, C, C1, V, V1
    <3>4. Cardinality(P1) = Cardinality(P) - 1 /\ Cardinality(C1) = Cardinality(C) - 1
      BY <1>e, <3>1, <3>2, FS_RemoveElement
    <3> QED BY <1>d, <1>e, <1>f, <1>g, <1>h, <3>3, <3>4
  <2>a. CASE /\ De(p, n, "cierre", "fin") /\ UNCHANGED intentos
             /\ \/ UNCHANGED <<ventana, pre2fa>>
                \/ Acaba(s) /\ Vacia(Clave(p))
                \/ peticion[p].estado = 200
    <3>1. n.fase = "fin" BY <2>a DEF De
    <3>2. peticion[p].estado = 200 => pre2fa'[s] = 0 BY <1>2, <1>d DEF SesionesEnSuVida
    <3>3. V1 = V \/ pre2fa'[s] = 0 BY <2>a, <3>2 DEF Acaba, Tipos
    <3> QED BY <1>b, <2>3, <2>a, <3>1, <3>3
  \* It gives its place back: one place fewer, and one request fewer.
  <2>b. CASE /\ De(p, n, "cierre", "fin") /\ UNCHANGED <<pre2fa, intentos>>
             /\ peticion[p].estado \notin {200, 401} /\ ventana' = Saca(Clave(p), p)
    <3>1. p \in P /\ p \notin C /\ p \notin P1 /\ p \notin C1 BY <1>2, <1>b, <1>c, <2>b DEF De
    <3>2. P1 = P \ {p} /\ C1 = C BY <1>b, <3>1
    <3>3. V1 = {e \in V : e.m # p} BY <2>2, <2>k, <2>b DEF Saca, Tipos
    <3>4. V1 = V \/ \E e \in V : V1 = V \ {e}
      <4>1. CASE \A e \in V : e.m # p BY <3>3, <4>1
      <4>2. CASE \E e \in V : e.m = p
        <5>1. PICK e \in V : e.m = p BY <4>2
        <5>2. V1 = V \ {e} BY <1>l, <3>3, <5>1
        <5> QED BY <5>1, <5>2
      <4> QED BY <4>1, <4>2
    <3> HIDE DEF P, P1, C, C1, V, V1
    <3>5. Cardinality(P1) = Cardinality(P) - 1 BY <1>e, <3>1, <3>2, FS_RemoveElement
    <3>6. Cardinality(V1) = Cardinality(V) \/ Cardinality(V1) = Cardinality(V) - 1
      BY <1>f, <3>4, FS_RemoveElement
    <3> QED BY <1>e, <1>f, <1>g, <1>h, <2>b, <3>2, <3>5, <3>6
  <2>c. CASE DeVerify(p, n)
    <3> HIDE DEF P, P1, C, C1, V, V1
    <3> QED BY <1>2, <2>2, <2>5, <2>6, <2>7, <2>8, <2>9, <2>a, <2>b, <2>c DEF DeVerify
  <2> QED BY <2>1, <2>4, <2>c
<1>3. peticion[p].fase = "nada" => Entra(p, n)
  BY DEF Avanza, Entra, Corta, Empieza, Recupera, DeLogin, DeForgot, DeVerify, De
<1> QED BY <1>1, <1>2, <1>3

-----------------------------------------------------------------------------
(* The inductive invariant *)

\* Time takes entries away, and nobody's place while it is needed.
LEMMA IInvAlPasarElTiempo ==
    ASSUME IInv, Tic
    PROVE  IInv'
<1>0. /\ Tipos /\ Identificadas /\ VentanasAcotadas /\ LugaresPorIP /\ LugaresPorToken
      /\ LoginsConLugar /\ SesionesEnSuVida /\ ComparacionesConLugar /\ CupoConCausa
  BY DEF IInv
<1>1. /\ ahora' = ahora + 1 /\ ahora \in Nat /\ ruta' = ruta /\ peticion' = peticion
      /\ intentos' = intentos /\ fallos' = fallos
      /\ \A k \in Claves : ventana'[k] = {e \in ventana[k] : e.t > ahora' - Largo(k)}
      /\ \A s \in Sesiones : pre2fa'[s] = IF pre2fa[s] <= ahora' THEN 0 ELSE pre2fa[s]
  BY <1>0, AlPasarElTiempo DEF Tipos
<1>2. Tipos' BY <1>0, AlPasarElTiempo
<1>3. Identificadas' BY <1>0, <1>1 DEF Identificadas
<1>4. VentanasAcotadas'
  <2>1. ASSUME NEW k \in Claves PROVE IsFiniteSet(ventana'[k]) /\ Cardinality(ventana'[k]) <= Limite(k)
    <3>1. ventana'[k] \in SUBSET ventana[k] BY <1>1
    <3> QED BY <1>0, <3>1, Menguante
  <2> QED BY <2>1 DEF VentanasAcotadas
<1>5. LugaresPorIP' /\ CupoConCausa'
  <2>1. \A i \in IPs : ventana'[<<"forgotIP", i>>] \subseteq ventana[<<"forgotIP", i>>]
    BY <1>1, Llaves
  <2>2. LugaresPorIP' BY <1>0, <1>1, <2>1 DEF LugaresPorIP
  <2>3. CupoConCausa' BY <1>0, <1>1, <2>1 DEF CupoConCausa
  <2> QED BY <2>2, <2>3
<1>6. LugaresPorToken'
  <2>1. \A s \in Sesiones : ventana'[<<"2fa", s>>] \subseteq ventana[<<"2fa", s>>] BY <1>1, Llaves
  <2> QED BY <1>0, <1>1, <2>1 DEF LugaresPorToken
<1>7. LoginsConLugar'
  <2>1. ASSUME ruta = "login", NEW p \in Peticiones,
               peticion[p].fase = "handler" \/ peticion[p].estado = 401,
               peticion[p].t > 0 /\ peticion[p].t > ahora' - VentanaLogin
        PROVE  [m |-> p, t |-> peticion[p].t] \in ventana'[Clave(p)']
    <3>1. peticion[p].t \in Nat /\ VentanaLogin \in Nat BY <1>0, LimiteAssumption DEF Tipos, Recibidas
    <3>2. peticion[p].t > ahora - VentanaLogin BY <1>1, <2>1, <3>1
    <3>3. Clave(p)' = <<"login", peticion[p].ip, peticion[p].correo>> BY <1>1, <2>1 DEF Clave
    <3>4. Clave(p) = <<"login", peticion[p].ip, peticion[p].correo>> BY <2>1, ClaveDe
    <3>5. peticion[p].ip \in IPs /\ peticion[p].correo \in Correos
      BY <1>0, <2>1 DEF Identificadas
    <3> DEFINE e == [m |-> p, t |-> peticion[p].t]
    <3>6. e \in ventana[Clave(p)] BY <1>0, <2>1, <3>2 DEF LoginsConLugar
    <3>7. Clave(p) \in Claves /\ Largo(Clave(p)) = VentanaLogin BY <3>4, <3>5, Llaves
    <3>8. e.t > ahora' - Largo(Clave(p)) BY <2>1, <3>7
    <3> HIDE DEF e
    <3>9. e \in ventana'[Clave(p)] BY <1>1, <3>6, <3>7, <3>8
    <3> QED BY <3>3, <3>4, <3>9 DEF e
  <2> QED BY <1>1, <2>1 DEF LoginsConLugar
<1>8. SesionesEnSuVida'
  <2>1. ASSUME NEW s \in Sesiones, pre2fa'[s] # 0
        PROVE  pre2fa'[s] = 1 + TTLPre2FA /\ ahora' < pre2fa'[s]
    <3>1. pre2fa[s] \in Nat BY <1>0 DEF Tipos
    <3> QED BY <1>0, <1>1, <2>1, <3>1 DEF SesionesEnSuVida
  <2>2. ASSUME NEW s \in Sesiones, ruta = "verify", NEW p \in Peticiones,
               peticion[p].jti = s, peticion[p].estado = 200
        PROVE  pre2fa'[s] = 0
    <3>1. pre2fa[s] = 0 BY <1>0, <2>2 DEF SesionesEnSuVida
    <3> QED BY <1>1, <3>1
  <2> QED BY <1>1, <2>1, <2>2 DEF SesionesEnSuVida
<1>9. ComparacionesConLugar'
  <2>1. ASSUME NEW s \in Sesiones PROVE ConLugar(s)'
    <3>1. ConLugar(s) BY <1>0 DEF ComparacionesConLugar, ConLugar
    <3>2. Pendientes(s)' = Pendientes(s) /\ Comparando(s)' = Comparando(s)
      BY <1>1 DEF Pendientes, Comparando, En
    <3>3. pre2fa'[s] \in {0, pre2fa[s]} BY <1>1
    <3>4. pre2fa'[s] # 0 => ventana'[<<"2fa", s>>] = ventana[<<"2fa", s>>]
      <4>1. SUFFICES ASSUME pre2fa'[s] # 0 PROVE ventana'[<<"2fa", s>>] = ventana[<<"2fa", s>>]
        OBVIOUS
      <4>2. pre2fa[s] \in Nat /\ TTLPre2FA \in Nat /\ Ventana2FA \in Nat /\ TTLPre2FA <= Ventana2FA
        BY <1>0, LimiteAssumption DEF Tipos
      <4>3. pre2fa[s] = 1 + TTLPre2FA /\ ahora' < pre2fa[s] BY <1>0, <1>1, <4>1, <4>2 DEF SesionesEnSuVida
      <4>4. ahora' - Ventana2FA <= 0 BY <1>1, <4>2, <4>3
      <4>5. <<"2fa", s>> \in Claves /\ Largo(<<"2fa", s>>) = Ventana2FA BY Llaves
      <4>6. \A e \in ventana[<<"2fa", s>>] : e.t > 0 /\ e.t \in Nat
        BY <1>0, <4>5 DEF LugaresPorToken, Tipos, Entradas
      <4>7. ahora' \in Nat BY <1>1
      <4>8. ASSUME NEW e \in ventana[<<"2fa", s>>] PROVE e.t > ahora' - Ventana2FA
        <5>1. e.t > 0 /\ e.t \in Nat BY <4>6
        <5>2. ahora' - Ventana2FA \in Int BY <4>2, <4>7
        <5> QED BY <4>4, <5>1, <5>2
      <4> QED BY <1>1, <4>5, <4>8
    <3>5. Quieta(s) BY <1>1, <3>2, <3>3, <3>4 DEF Quieta
    <3> QED BY <1>0, <3>1, <3>5, SiQuieta
  <2> QED BY <2>1 DEF ComparacionesConLugar, ConLugar
<1> QED BY <1>2, <1>3, <1>4, <1>5, <1>6, <1>7, <1>8, <1>9 DEF IInv

\* It holds at the start.
LEMMA IInvInicio == Init => IInv
<1> SUFFICES ASSUME Init PROVE IInv OBVIOUS
<1>1. /\ ahora = 1 /\ distribuido \in BOOLEAN /\ ruta \in Rutas /\ fallos = 0
      /\ ventana = [k \in Claves |-> {}] /\ pre2fa = [s \in Sesiones |-> 1 + TTLPre2FA]
      /\ peticion = [p \in Peticiones |-> Libre] /\ intentos = [s \in Sesiones |-> 0]
  BY DEF Init, Rutas
<1>2. /\ Libre \in Recibidas /\ Libre.fase = "nada" /\ Libre.t = 0 /\ Libre.estado = 0
  BY DEF Libre, Recibidas, Fases
<1>3. TTLPre2FA \in Nat \ {0} /\ Limite2FA \in Nat BY LimiteAssumption
<1>4. Tipos BY <1>1, <1>2, <1>3 DEF Tipos
<1>5. \A p \in Peticiones : peticion[p] = Libre BY <1>1
<1>6. \A k \in Claves : ventana[k] = {} BY <1>1
<1>7. Identificadas BY <1>2, <1>5 DEF Identificadas
<1>8. VentanasAcotadas BY <1>6, FS_EmptySet, Llaves DEF VentanasAcotadas
<1>9. LugaresPorIP /\ LugaresPorToken /\ CupoConCausa
  BY <1>6, Llaves DEF LugaresPorIP, LugaresPorToken, CupoConCausa
<1>a. LoginsConLugar BY <1>2, <1>5 DEF LoginsConLugar
<1>b. SesionesEnSuVida
  <2>1. \A s \in Sesiones : pre2fa[s] = 1 + TTLPre2FA BY <1>1
  <2> QED BY <1>1, <1>2, <1>3, <1>5, <2>1 DEF SesionesEnSuVida
<1>c. ComparacionesConLugar
  <2>1. ASSUME NEW s \in Sesiones
        PROVE  /\ Pendientes(s) = {} /\ Comparando(s) = {} /\ intentos[s] = 0
               /\ ventana[<<"2fa", s>>] = {}
    BY <1>1, <1>2, <1>5, <1>6, Llaves DEF Pendientes, Comparando, En
  <2>2. ASSUME NEW s \in Sesiones PROVE ConLugar(s)
    <3>1. /\ Cardinality(Pendientes(s)) = 0 /\ Cardinality(Comparando(s)) = 0
          /\ Cardinality(ventana[<<"2fa", s>>]) = 0
      BY <2>1, FS_EmptySet
    <3> QED BY <1>3, <2>1, <3>1 DEF ConLugar
  <2> QED BY <2>2 DEF ComparacionesConLugar, ConLugar
<1> QED BY <1>4, <1>7, <1>8, <1>9, <1>a, <1>b, <1>c DEF IInv

\* Every step keeps it.
LEMMA IInvPaso == IInv /\ [Next]_vars => IInv'
<1> SUFFICES ASSUME IInv, [Next]_vars PROVE IInv' OBVIOUS
<1>0. /\ Tipos /\ Identificadas /\ VentanasAcotadas /\ LugaresPorIP /\ LugaresPorToken
      /\ LoginsConLugar /\ SesionesEnSuVida /\ ComparacionesConLugar /\ CupoConCausa
  BY DEF IInv
<1>1. CASE Tic BY <1>1, IInvAlPasarElTiempo
<1>2. ASSUME NEW p \in Peticiones, PasoDe(p) PROVE IInv'
  <2>1. PICK n : Avanza(p, n) BY <1>0, <1>2, CadaPaso
  <2>2. Tipos' /\ Identificadas' BY <1>0, <2>1, TiposAlAvanzar, IdentificadasAlAvanzar
  <2>3. VentanasAcotadas' BY <1>0, <2>1, VentanasAlAvanzar
  <2>4. LugaresPorIP' /\ CupoConCausa' BY <1>0, <2>1, LugaresPorIPAlAvanzar, CupoAlAvanzar
  <2>5. LugaresPorToken' /\ SesionesEnSuVida'
    BY <1>0, <2>1, LugaresPorTokenAlAvanzar, SesionesAlAvanzar
  <2>6. LoginsConLugar' BY <1>0, <2>1, LoginsAlAvanzar
  <2>7. ASSUME NEW s \in Sesiones PROVE ConLugar(s)'
    <3>1. ConLugar(s) BY <1>0 DEF ComparacionesConLugar, ConLugar
    <3> QED BY <1>0, <2>1, <3>1, ConLugarAlAvanzar
  <2>8. ComparacionesConLugar' BY <2>7 DEF ComparacionesConLugar, ConLugar
  <2> QED BY <2>2, <2>3, <2>4, <2>5, <2>6, <2>8 DEF IInv
<1>3. CASE UNCHANGED vars
  <2>1. UNCHANGED <<ahora, ruta, distribuido, ventana, pre2fa, peticion, intentos, fallos>>
    BY <1>3 DEF vars
  <2>2. Tipos' /\ Identificadas' /\ VentanasAcotadas' BY <1>0, <2>1 DEF Tipos, Identificadas, VentanasAcotadas
  <2>3. LugaresPorIP' /\ LugaresPorToken' /\ CupoConCausa'
    BY <1>0, <2>1 DEF LugaresPorIP, LugaresPorToken, CupoConCausa
  <2>4. LoginsConLugar' /\ SesionesEnSuVida'
    BY <1>0, <2>1 DEF LoginsConLugar, SesionesEnSuVida, Clave
  <2>5. ComparacionesConLugar'
    BY <1>0, <2>1 DEF ComparacionesConLugar, Pendientes, Comparando, En
  <2> QED BY <2>2, <2>3, <2>4, <2>5 DEF IInv
<1>4. Tic \/ (\E p \in Peticiones : PasoDe(p)) \/ UNCHANGED vars BY Zenon DEF Next, PasoDe
<1> QED BY <1>1, <1>2, <1>3, <1>4

\* The inductive invariant holds in every reachable state: types, windows
\* within their limits, and who holds each place.
THEOREM Invariante == Spec => []IInv
<1>1. Init => IInv BY IInvInicio
<1>2. IInv /\ [Next]_vars => IInv' BY IInvPaso
<1> QED BY <1>1, <1>2, PTL DEF Spec

-----------------------------------------------------------------------------
(* Theorems *)

\* No temporary token sees its code compared more than limite2FA times, for
\* any number of overlapping requests and failed calls (LimitarVerificacion2FA
\* and its closing).
THEOREM ComparacionesAcotadas == Spec => []ComparacionesPorToken
<1>1. IInv => ComparacionesPorToken
  <2> SUFFICES ASSUME IInv, NEW s \in Sesiones PROVE intentos[s] <= Limite2FA
    BY DEF ComparacionesPorToken
  <2>1. intentos[s] + Cardinality(Comparando(s)) <= Limite2FA BY DEF IInv, ComparacionesConLugar
  <2>2. intentos[s] \in Nat /\ Limite2FA \in Nat BY LimiteAssumption DEF IInv, Tipos
  <2> QED BY <2>1, <2>2, ConjuntosFinitos
<1> QED BY <1>1, Invariante, PTL

\* The logins of a window that failed or are being tried are within the limit
\* (LimitarLogin reserves before the password is compared).
THEOREM LoginsFallidosAcotados == Spec => []FallidosAcotados
<1>1. IInv => FallidosAcotados BY FallidosConLugar DEF IInv
<1> QED BY <1>1, Invariante, PTL

\* While the store answers, a place by IP belongs to a recovery request that
\* went through or is on its way (LimitarSolicitudRecuperacion).
THEOREM CuposConCausa == Spec => []CupoConCausa
<1>1. IInv => CupoConCausa BY DEF IInv
<1> QED BY <1>1, Invariante, PTL

=============================================================================
