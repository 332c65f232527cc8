----------------------------- MODULE Auditoria -----------------------------
(***************************************************************************)
(* The audit log as it is read: the pages of GET /api/admin/audit, each    *)
(* one a COUNT and a SELECT with an OFFSET, and the streamed download of    *)
(* /export, while records go on being committed, not always in the order   *)
(* of their times.  The client that walks the pages is not in the          *)
(* repository: it stops at the last page the total gives, or at the first  *)
(* page that comes short.                                                  *)
(***************************************************************************)
EXTENDS Naturals, Sequences, SequencesExt, FiniteSets

CONSTANTS
    Organizaciones, Acciones,    \* a set of numbers: they are sorted
    Tamano,                      \* records in a page
    Lote,                        \* records between two flushes (500 in the code)
    LargoTrimestre, MaxTiempo, MaxRegistros

\* What the constants are.
Supuestos ==
    /\ {Tamano, Lote, LargoTrimestre} \subseteq Nat \ {0} /\ {MaxTiempo, MaxRegistros} \subseteq Nat
    /\ Acciones \subseteq Nat

VARIABLES
    ahora,
    registros,    \* committed
    pendientes,   \* with their time, not committed yet
    alerta,       \* the transaction of a system alert
    cliente

vars == <<ahora, registros, pendientes, alerta, cliente>>

Nadie == "nadie"
SinAlerta == [faltan |-> {}, filas |-> {}]

\* org: the explicit scope.
Registro(n, accion, autor, org) ==
    [n |-> n, t |-> ahora, accion |-> accion, autor |-> autor, org |-> org]
Todos == registros \cup pendientes \cup alerta.filas
Lugar(k) == Cardinality(Todos) + k <= MaxRegistros
Proximo == Cardinality(Todos) + 1

-----------------------------------------------------------------------------
\* Writing

Tic == ahora < MaxTiempo /\ ahora' = ahora + 1 /\ UNCHANGED <<registros, pendientes, alerta, cliente>>

\* The record of a user takes its time before the INSERT.  It has no scope.
Tomar(autor, accion) ==
    /\ Lugar(1) /\ alerta = SinAlerta
    /\ pendientes' = pendientes \cup {Registro(Proximo, accion, autor, Nadie)}
    /\ UNCHANGED <<ahora, registros, alerta, cliente>>
Confirmar(r) ==
    /\ registros' = registros \cup {r} /\ pendientes' = pendientes \ {r}
    /\ UNCHANGED <<ahora, alerta, cliente>>

\* A system alert has a record for each organisation with somebody to tell, or
\* one without scope, in one transaction.
AbrirAlerta(audiencia) ==
    /\ alerta = SinAlerta /\ Lugar(IF audiencia = {} THEN 1 ELSE Cardinality(audiencia))
    /\ alerta' = [faltan |-> IF audiencia = {} THEN {Nadie} ELSE audiencia, filas |-> {}]
    /\ UNCHANGED <<ahora, registros, pendientes, cliente>>
InsertarAlerta(o) ==
    /\ alerta' = [alerta EXCEPT !.faltan = @ \ {o},
                                !.filas = @ \cup {Registro(Proximo, 0, Nadie, o)}]
    /\ UNCHANGED <<ahora, registros, pendientes, cliente>>
CerrarAlerta ==
    /\ alerta # SinAlerta /\ alerta' = SinAlerta
    /\ \/ alerta.faltan = {} /\ registros' = registros \cup alerta.filas
       \/ UNCHANGED registros
    /\ UNCHANGED <<ahora, pendientes, cliente>>

-----------------------------------------------------------------------------
\* Reading

InicioTrimestre(t) == ((t - 1) \div LargoTrimestre) * LargoTrimestre + 1

Visible(r, o) == r.org \in {o, Nadie} \/ r.autor = o

\* Without a date the quarter in course is read; actions may be excluded, here
\* those of the system and in the default order, as the feed of the panel does.
Filtrados(desde) ==
    {r \in registros : Visible(r, cliente.org) /\ r.t >= desde /\ r.accion \notin cliente.excluye}

Clave(r, por) == IF por = "fecha" THEN r.t ELSE r.accion
\* Mutant of Antes: no order among equals.
AntesSinDesempate(a, b, orden) ==
    IF orden.baja THEN Clave(a, orden.por) >= Clave(b, orden.por) ELSE Clave(a, orden.por) <= Clave(b, orden.por)
Antes(a, b, orden) ==
    LET x == Clave(a, orden.por)
        y == Clave(b, orden.por)
    IN IF orden.baja THEN x > y \/ (x = y /\ a.n > b.n) ELSE x < y \/ (x = y /\ a.n < b.n)
\* The answers PostgreSQL may give to an ORDER BY.
Listados(S, orden) ==
    {s \in SetToSeqs(S) : \A i, j \in 1..Len(s) : i < j => Antes(s[i], s[j], orden)}

\* What the request leaves out: nothing, or the system's records (0).
Excluidas == {{}, {0}}
Opciones == [por : {"fecha", "accion"}, baja : BOOLEAN]
PorDefecto == [por |-> "fecha", baja |-> TRUE]

Cliente0 ==
    [tipo |-> "ninguno", org |-> Nadie, orden |-> PorDefecto, excluye |-> {}, fase |-> "nada",
     pagina |-> 1, total |-> 0, desde |-> 0, primero |-> 0, iniciales |-> {}, vistos |-> {}, crecio |-> FALSE,
     foto |-> <<>>, leidas |-> 0, recibidas |-> 0, falla |-> FALSE]
Init ==
    /\ ahora = 1 /\ registros = {} /\ pendientes = {} /\ alerta = SinAlerta /\ cliente = Cliente0
Sirve(c) == cliente' = c /\ UNCHANGED <<ahora, registros, pendientes, alerta>>

Pedir(tipo, o) ==
    /\ cliente.fase = "nada"
    /\ \E orden \in Opciones, excluye \in Excluidas :
           /\ excluye # {} => orden = PorDefecto
           /\ Sirve([Cliente0 EXCEPT !.tipo = tipo, !.org = o, !.orden = orden, !.excluye = excluye, !.fase = "contar"])

Contar ==
    LET desde == InicioTrimestre(ahora)
        S == Filtrados(desde)
    IN /\ cliente.fase = "contar"
       /\ Sirve([cliente EXCEPT !.fase = "leer", !.total = Cardinality(S), !.desde = desde,
                                !.primero = IF cliente.pagina = 1 THEN desde ELSE @,
                                !.iniciales = IF cliente.pagina = 1 THEN S ELSE @])

Paginas(total) == (total + Tamano - 1) \div Tamano
\* The SELECT of the page, and whether the client asks for another.
Leer ==
    LET S == Filtrados(cliente.desde)
        desde == (cliente.pagina - 1) * Tamano
    IN /\ cliente.fase = "leer"
       /\ \E s \in Listados(S, cliente.orden) :
              LET items == SubSeq(s, desde + 1, IF Len(s) < desde + Tamano THEN Len(s) ELSE desde + Tamano)
                  ultima == IF cliente.tipo = "total" THEN cliente.pagina >= Paginas(cliente.total)
                                                      ELSE Len(items) < Tamano
              IN Sirve([cliente EXCEPT !.vistos = @ \cup {items[i] : i \in 1..Len(items)},
                                       !.crecio = Cardinality(S) > cliente.total,
                                       !.pagina = @ + 1,
                                       !.fase = IF ultima THEN "fin" ELSE "contar"])

-----------------------------------------------------------------------------
\* The download

AbrirExportacion(o) ==
    /\ cliente.fase = "nada"
    /\ \E excluye \in Excluidas :
           LET pide == [Cliente0 EXCEPT !.org = o, !.excluye = excluye]
               S == {r \in registros : /\ Visible(r, o) /\ r.accion \notin excluye
                                       /\ r.t >= InicioTrimestre(ahora)}
           IN \E s \in Listados(S, PorDefecto) :
                  Sirve([pide EXCEPT !.tipo = "exporta", !.fase = "fila", !.foto = s])

\* A row goes to the buffer, which is flushed every Lote rows, or before when
\* it fills; a write that fails cuts the connection.
EscribirFila ==
    /\ cliente.fase = "fila" /\ cliente.leidas < Len(cliente.foto)
    /\ LET n == cliente.leidas + 1 IN
       \/ \E sale \in BOOLEAN :
              /\ n % Lote = 0 => sale
              /\ Sirve([cliente EXCEPT !.leidas = n, !.recibidas = IF sale THEN n ELSE @])
       \/ Sirve([cliente EXCEPT !.leidas = n, !.fase = "cortada"])
\* The cursor ends: there are no more rows, or the query failed.
AgotarCursor ==
    /\ cliente.fase = "fila"
    /\ \E falla \in BOOLEAN :
           /\ ~falla => cliente.leidas = Len(cliente.foto)
           /\ Sirve([cliente EXCEPT !.fase = "agotado", !.falla = falla])
\* After the last row, the rest of the buffer; after an error the connection is
\* cut, not ended.
Terminar ==
    /\ cliente.fase = "agotado"
    /\ \/ ~cliente.falla /\ Sirve([cliente EXCEPT !.fase = "fin", !.recibidas = cliente.leidas])
       \/ Sirve([cliente EXCEPT !.fase = "cortada"])
\* The client leaves: the context of the request cancels the query.
Irse ==
    /\ cliente.fase \in {"fila", "agotado"} /\ Sirve([cliente EXCEPT !.fase = "cortada"])

Next ==
    \/ Tic
    \/ \E o \in Organizaciones, a \in Acciones : Tomar(o, a)
    \/ \E r \in pendientes : Confirmar(r)
    \/ \E audiencia \in SUBSET Organizaciones : AbrirAlerta(audiencia)
    \/ \E o \in alerta.faltan : InsertarAlerta(o)
    \/ CerrarAlerta
    \/ \E o \in Organizaciones : AbrirExportacion(o) \/ \E tipo \in {"total", "corta"} : Pedir(tipo, o)
    \/ Contar \/ Leer
    \/ EscribirFila \/ AgotarCursor \/ Terminar \/ Irse

Spec == Init /\ [][Next]_vars

-----------------------------------------------------------------------------
(* Properties *)

\* A client that walks the pages, in any order, while records are committed
\* meets every record that was there when it began, unless the quarter read by
\* default changed on the way, or the client trusts a total that was exceeded
\* before its last page was read (Listar).
PaginadoSinHuecos ==
    cliente.tipo \in {"total", "corta"} /\ cliente.fase = "fin" =>
        \/ cliente.iniciales \subseteq cliente.vistos
        \/ cliente.desde # cliente.primero
        \/ cliente.tipo = "total" /\ cliente.crecio

\* A download that ends as complete has every record that was there when it was
\* opened, whatever failed on the way (escribirAuditoriaStreaming).
ExportacionEntera ==
    cliente.tipo = "exporta" /\ cliente.fase = "fin" => cliente.recibidas = Len(cliente.foto)

\* Whichever way a client reads the log, what it takes for the whole is the whole.
LecturaEntera == PaginadoSinHuecos /\ ExportacionEntera

=============================================================================
