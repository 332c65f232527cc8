--------------------------- MODULE AlmacenMemoria ---------------------------
(***************************************************************************)
(* The store of the degraded mode (memoria.KVStore): a map under one mutex *)
(* where an entry that expired stays until somebody reads it, writes it or *)
(* sweeps, and windows that drop their old events only when something is   *)
(* registered in them.  It must answer what Redis would: CumpleAlmacen.    *)
(***************************************************************************)
EXTENDS Integers, FiniteSets

CONSTANTS
    Llaves, Ventanas, Procesos, Cerrojo, Valores, TTLs, Miembros, Largo, Limite, MaxTiempo,
    CadaCuanto       \* cadaCuantoLimpiar

\* What the constants are.
Supuestos ==
    /\ Cerrojo \in Llaves /\ Procesos \subseteq Nat \ {0} /\ Valores \subseteq Nat
    /\ {Largo, Limite} \subseteq Nat \ {0} /\ TTLs \subseteq Nat /\ {MaxTiempo, CadaCuanto} \subseteq Nat

VARIABLES
    ahora, datos, eventos, tiene, resp,
    ultimaLimpieza

vars == <<ahora, datos, eventos, tiene, resp, ultimaLimpieza>>

\* Mutant: After instead of !Before.
VencidaTarde(e) == e.vence # 0 /\ ahora > e.vence

Vencida(e) == e.vence # 0 /\ ~(ahora < e.vence)
EnVentana(w) == {e \in eventos : e.w = w}
Viva(e) == e.t > ahora - Largo
Vigentes == {e \in datos : ~Vencida(e)}
Vivos == {e \in eventos : Viva(e)}

\* The store that the port describes, seen through what has not expired.
Almacen == INSTANCE AlmacenClaves WITH datos <- Vigentes, eventos <- Vivos

Entrada(k, v, ttl) == [k |-> k, valor |-> v, vence |-> IF ttl > 0 THEN ahora + ttl ELSE 0]
Sin(k) == {d \in datos : d.k # k}
Vigente(k) == \E e \in datos : e.k = k /\ ~Vencida(e)
Valor(k) == (CHOOSE e \in datos : e.k = k).valor

\* leer removes an entry that expired, and the one it reads when it is told to.
Leer(k, borrar) == IF borrar \/ ~Vigente(k) THEN Sin(k) ELSE datos
Respuesta(k) == IF Vigente(k) THEN <<"valor", Valor(k)>> ELSE <<"no encontrada">>

Init ==
    /\ ahora = 1 /\ datos = {} /\ eventos = {} /\ tiene = {} /\ resp = <<"ok">>
    /\ ultimaLimpieza = -CadaCuanto

Tic == ahora < MaxTiempo /\ ahora' = ahora + 1 /\ UNCHANGED <<datos, eventos, tiene, resp, ultimaLimpieza>>

Set(k, v, ttl) ==
    LET escrito == Sin(k) \cup {Entrada(k, v, ttl)}
        limpia == ahora - ultimaLimpieza > CadaCuanto
    IN
    /\ datos' = IF limpia THEN {e \in escrito : ~Vencida(e)} ELSE escrito
    /\ ultimaLimpieza' = IF limpia THEN ahora ELSE ultimaLimpieza
    /\ resp' = <<"ok">>
    /\ UNCHANGED <<ahora, eventos, tiene>>

Get(k) ==
    /\ datos' = Leer(k, FALSE) /\ resp' = Respuesta(k)
    /\ UNCHANGED <<ahora, eventos, tiene, ultimaLimpieza>>

GetDel(k) ==
    /\ datos' = Leer(k, TRUE) /\ resp' = Respuesta(k)
    /\ UNCHANGED <<ahora, eventos, tiene, ultimaLimpieza>>

Del(ks, ws) ==
    /\ datos' = {e \in datos : e.k \notin ks} /\ eventos' = {e \in eventos : e.w \notin ws}
    /\ resp' = <<"ok">>
    /\ UNCHANGED <<ahora, tiene, ultimaLimpieza>>

Incrementar(k, ttl) ==
    LET v == IF Vigente(k) THEN Valor(k) ELSE 0 IN
    /\ ttl > 0
    /\ IF v < 0 THEN resp' = <<"error">> /\ UNCHANGED datos
       ELSE /\ v + 1 \in Valores /\ resp' = <<"valor", v + 1>>
            /\ datos' = Sin(k) \cup {Entrada(k, v + 1, ttl)}
    /\ UNCHANGED <<ahora, eventos, tiene, ultimaLimpieza>>

SetNX(k, v, ttl) ==
    /\ resp' = <<"guardado", ~Vigente(k)>>
    /\ datos' = IF Vigente(k) THEN datos ELSE Sin(k) \cup {Entrada(k, v, ttl)}
    /\ UNCHANGED <<ahora, eventos, tiene, ultimaLimpieza>>

\* The old events go before the window is counted, refused or not.
RegistrarEnVentana(w, m) ==
    LET quedan == {e \in EnVentana(w) : Viva(e)}
        n == Cardinality(quedan)
        otros == {e \in eventos : e.w # w}
        masViejo == CHOOSE t \in {e.t : e \in quedan} : \A e \in quedan : t <= e.t
        espera == masViejo + Largo - ahora
    IN
    /\ \A e \in EnVentana(w) : e.m # m
    /\ IF n >= Limite
       THEN /\ eventos' = otros \cup quedan
            /\ resp' = <<"ventana", FALSE, n, IF espera > 1 THEN espera ELSE 1>>
       ELSE /\ eventos' = otros \cup quedan \cup {[w |-> w, m |-> m, t |-> ahora]}
            /\ resp' = <<"ventana", TRUE, n + 1, 0>>
    /\ UNCHANGED <<ahora, datos, tiene, ultimaLimpieza>>

EliminarDeVentana(w, m) ==
    /\ eventos' = {e \in eventos : e.w # w \/ e.m # m} /\ resp' = <<"ok">>
    /\ UNCHANGED <<ahora, datos, tiene, ultimaLimpieza>>

Tomar(p, ttl) ==
    /\ p \notin tiene /\ ttl > 0
    /\ IF Vigente(Cerrojo) THEN resp' = <<"ocupado">> /\ UNCHANGED <<datos, tiene>>
       ELSE /\ datos' = Sin(Cerrojo) \cup {Entrada(Cerrojo, -p, ttl)}
            /\ tiene' = tiene \cup {p} /\ resp' = <<"tomado">>
    /\ UNCHANGED <<ahora, eventos, ultimaLimpieza>>

Soltar(p) ==
    /\ p \in tiene /\ tiene' = tiene \ {p} /\ resp' = <<"ok">>
    /\ datos' = {e \in datos : e.k # Cerrojo \/ e.valor # -p}
    /\ UNCHANGED <<ahora, eventos, ultimaLimpieza>>

Next ==
    \/ Tic
    \/ \E k \in Llaves : Get(k) \/ GetDel(k)
    \/ \E k \in Llaves, v \in Valores, ttl \in TTLs : Set(k, v, ttl) \/ SetNX(k, v, ttl)
    \/ \E k \in Llaves, ttl \in TTLs : Incrementar(k, ttl)
    \/ \E ks \in SUBSET Llaves, ws \in SUBSET Ventanas : Del(ks, ws)
    \/ \E w \in Ventanas, m \in Miembros : RegistrarEnVentana(w, m) \/ EliminarDeVentana(w, m)
    \/ \E p \in Procesos : Soltar(p) \/ \E ttl \in TTLs : Tomar(p, ttl)

Spec == Init /\ [][Next]_vars

-----------------------------------------------------------------------------
(* Properties *)

\* The memory store answers every sequence of calls as Redis would, although
\* it keeps entries and events that expired: a key in its last instant, a
\* counter or a lock written over one that expired, a window that only old
\* events fill.
CumpleAlmacen == Almacen!Spec
=============================================================================
