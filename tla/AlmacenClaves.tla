--------------------------- MODULE AlmacenClaves ---------------------------
(***************************************************************************)
(* What ports.KeyValueStore promises, as Redis keeps it: keys that are not *)
(* there any more in the instant their TTL ends, sliding windows, and a    *)
(* lock that is a key with the token of its holder.  Every command is one  *)
(* step; resp is the answer of the last one.  A command can also fail: the *)
(* modules of its callers say with which outcomes.                         *)
(*                                                                         *)
(* A value is a natural number, or the token of a holder: -p.  The clock   *)
(* of the callers is the clock of the store.                               *)
(***************************************************************************)
EXTENDS Integers, FiniteSets

CONSTANTS Llaves, Ventanas, Procesos, Cerrojo, Valores, TTLs, Miembros, Largo, Limite, MaxTiempo

VARIABLES
    ahora,
    datos,      \* set of entries [k, valor, vence], vence = 0 when it does not expire
    eventos,    \* set of entries [w, m, t] of the windows
    tiene,      \* processes that hold a lock they did not release
    resp

vars == <<ahora, datos, eventos, tiene, resp>>

Entrada(k, v, ttl) == [k |-> k, valor |-> v, vence |-> IF ttl = 0 THEN 0 ELSE ahora + ttl]
De(k) == {e \in datos : e.k = k}
Hay(k) == De(k) # {}
Valor(k) == (CHOOSE e \in De(k) : TRUE).valor
Escribe(e) == datos' = {d \in datos : d.k # e.k} \cup {e}
EnVentana(w) == {e \in eventos : e.w = w}
MasViejo(w) == CHOOSE t \in {e.t : e \in EnVentana(w)} : \A e \in EnVentana(w) : t <= e.t

\* How long until the entry of t leaves the window, one second at least.
Espera(t) == IF t + Largo - ahora > 1 THEN t + Largo - ahora ELSE 1

Nada == <<"no encontrada">>
Ok == <<"ok">>
Dice(v) == <<"valor", v>>
Permitido(n) == <<"ventana", TRUE, n, 0>>
Rechazado(n, t) == <<"ventana", FALSE, n, Espera(t)>>
Init == ahora = 1 /\ datos = {} /\ eventos = {} /\ tiene = {} /\ resp = Ok

Tic ==
    /\ ahora < MaxTiempo /\ ahora' = ahora + 1
    /\ datos' = {e \in datos : e.vence = 0 \/ e.vence > ahora'}
    /\ eventos' = {e \in eventos : e.t > ahora' - Largo}
    /\ UNCHANGED <<tiene, resp>>

Set(k, v, ttl) ==
    /\ Escribe(Entrada(k, v, ttl)) /\ resp' = Ok
    /\ UNCHANGED <<ahora, eventos, tiene>>

Get(k) ==
    /\ resp' = IF Hay(k) THEN Dice(Valor(k)) ELSE Nada
    /\ UNCHANGED <<ahora, datos, eventos, tiene>>

GetDel(k) ==
    /\ resp' = IF Hay(k) THEN Dice(Valor(k)) ELSE Nada
    /\ datos' = datos \ De(k)
    /\ UNCHANGED <<ahora, eventos, tiene>>

\* One command removes keys and windows.
Del(ks, ws) ==
    /\ datos' = {e \in datos : e.k \notin ks} /\ eventos' = {e \in eventos : e.w \notin ws}
    /\ resp' = Ok
    /\ UNCHANGED <<ahora, tiene>>

\* INCR and PEXPIRE: a counter that expired starts again at one, and every
\* increment renews the TTL.  Text is not a counter.
Incrementar(k, ttl) ==
    LET v == IF Hay(k) THEN Valor(k) ELSE 0 IN
    /\ ttl > 0
    /\ IF v < 0 THEN resp' = <<"error">> /\ UNCHANGED datos
       ELSE v + 1 \in Valores /\ Escribe(Entrada(k, v + 1, ttl)) /\ resp' = Dice(v + 1)
    /\ UNCHANGED <<ahora, eventos, tiene>>

SetNX(k, v, ttl) ==
    /\ resp' = <<"guardado", ~Hay(k)>>
    /\ IF Hay(k) THEN UNCHANGED datos ELSE Escribe(Entrada(k, v, ttl))
    /\ UNCHANGED <<ahora, eventos, tiene>>

\* Callers name every member anew.  A full window takes nothing in and says how
\* long its oldest member stays.
RegistrarEnVentana(w, m) ==
    LET n == Cardinality(EnVentana(w)) IN
    /\ \A e \in EnVentana(w) : e.m # m
    /\ IF n >= Limite THEN resp' = Rechazado(n, MasViejo(w)) /\ UNCHANGED eventos
       ELSE eventos' = eventos \cup {[w |-> w, m |-> m, t |-> ahora]} /\ resp' = Permitido(n + 1)
    /\ UNCHANGED <<ahora, datos, tiene>>

EliminarDeVentana(w, m) ==
    /\ eventos' = {e \in eventos : e.w # w \/ e.m # m} /\ resp' = Ok
    /\ UNCHANGED <<ahora, datos, tiene>>

\* One try of AcquireLock; the next one comes 50 ms later.
Tomar(p, ttl) ==
    /\ p \notin tiene /\ ttl > 0
    /\ IF Hay(Cerrojo) THEN resp' = <<"ocupado">> /\ UNCHANGED <<datos, tiene>>
       ELSE Escribe(Entrada(Cerrojo, -p, ttl)) /\ tiene' = tiene \cup {p} /\ resp' = <<"tomado">>
    /\ UNCHANGED <<ahora, eventos>>

\* release: once, and only the token of its own holder.
Soltar(p) ==
    /\ p \in tiene /\ tiene' = tiene \ {p} /\ resp' = Ok
    /\ datos' = {e \in datos : e.k # Cerrojo \/ e.valor # -p}
    /\ UNCHANGED <<ahora, eventos>>

Next ==
    \/ Tic
    \/ \E k \in Llaves : Get(k) \/ GetDel(k)
    \/ \E k \in Llaves, v \in Valores, ttl \in TTLs : Set(k, v, ttl) \/ SetNX(k, v, ttl)
    \/ \E k \in Llaves, ttl \in TTLs : Incrementar(k, ttl)
    \/ \E ks \in SUBSET Llaves, ws \in SUBSET Ventanas : Del(ks, ws)
    \/ \E w \in Ventanas, m \in Miembros : RegistrarEnVentana(w, m) \/ EliminarDeVentana(w, m)
    \/ \E p \in Procesos : Soltar(p) \/ \E ttl \in TTLs : Tomar(p, ttl)

Spec == Init /\ [][Next]_vars
=============================================================================
