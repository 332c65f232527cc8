------------------------------ MODULE Arranque ------------------------------
(***************************************************************************)
(* InitDB: what one start of the API, or of cmd/seed, does to the          *)
(* database, statement by statement, on a new base or on one of the        *)
(* previous version, which may go on serving meanwhile.  The process may   *)
(* stop between any two statements and start again.  InitDB takes no lock: *)
(* the module is about one start at a time.                                *)
(*                                                                         *)
(* Time is a quarter.  The addresses of the users differ at most in their  *)
(* capitals: two users not eliminated are always a repetition for the new  *)
(* index, and for the old one when their spelling is the same.             *)
(***************************************************************************)
EXTENDS Naturals

CONSTANTS
    Usuarios, Grafias,      \* spellings of the address
    Fijas,                  \* quarters crearParticionesAuditoria names
    UltimoTrimestre, MaxEscrituras, MaxCaidas

\* What the constants are.  Time begins in the first of the quarters named.
Supuestos == Fijas \subseteq Nat /\ 1 \in Fijas /\ {UltimoTrimestre, MaxEscrituras, MaxCaidas} \subseteq Nat

VARIABLES
    paso,        \* the next statement, "apagada" or "lista"
    base,        \* the schema
    registros,     \* every audit record ever committed
    usuarios,
    trimestre,
    visto,       \* the quarter that the start read
    semilla,     \* the program, and what cmd/seed goes on with
    cuentas      \* the bounds spent

vars == <<paso, base, registros, usuarios, trimestre, visto, semilla, cuentas>>

\* preparado: the quarter of the last start that created its partitions;
\* huerfanas: organisations without a creator.
BaseNueva ==
    [auditoria |-> "no", legacy |-> FALSE, particiones |-> {}, omision |-> FALSE,
     trigger |-> FALSE, normalizada |-> FALSE, revocada |-> FALSE, preparado |-> 0,
     indices |-> {}, check |-> FALSE, sesiones |-> "no", admin |-> FALSE, huerfanas |-> 0]
\* A previous version: flat audit table, unconditional index on the address,
\* sessions of one row per token.
BaseVieja ==
    [BaseNueva EXCEPT !.auditoria = "plana", !.indices = {"viejo"}, !.sesiones = "vieja", !.admin = TRUE]

\* borrado and rastro are ghosts: the user was deleted and not reactivated
\* since; the reactivation left its record.
SinUsuario == [alta |-> FALSE, activo |-> FALSE, eliminado |-> FALSE, grafia |-> "",
               borrado |-> FALSE, rastro |-> TRUE]

Nuevo(g) == [SinUsuario EXCEPT !.alta = TRUE, !.activo = TRUE, !.grafia = g]
\* The previous version only deactivates the user it deletes.
Borrado(g) == [SinUsuario EXCEPT !.alta = TRUE, !.grafia = g, !.borrado = TRUE]

Evento(n, tipo, u, vieja) ==
    [n |-> n, tipo |-> tipo, u |-> u, t |-> trimestre, en |-> "auditoria", viejo |-> vieja,
     parte |-> IF base.auditoria = "madre" /\ trimestre \notin base.particiones THEN "omision" ELSE "propia",
     preparado |-> base.preparado, normalizada |-> base.normalizada,
     recreada |-> base.auditoria = "plana" /\ base.legacy]

\* org: the organisation of cmd/seed has no creator yet.
SinSemilla(programa) == [programa |-> programa, org |-> FALSE, grafia |-> ""]

Init ==
    /\ paso = "apagada" /\ trimestre = 1 /\ visto = 0
    /\ base \in {BaseNueva, BaseVieja}
    /\ \E u \in Usuarios, g \in Grafias :
           /\ registros = IF base = BaseNueva THEN {} ELSE {[Evento(0, "elimina", u, TRUE) EXCEPT !.t = 0]}
           /\ usuarios = [w \in Usuarios |-> IF base = BaseVieja /\ w = u THEN Borrado(g) ELSE SinUsuario]
    /\ semilla = SinSemilla("api")
    /\ cuentas = [anterior |-> base = BaseVieja, escrituras |-> 0, caidas |-> 0]

-----------------------------------------------------------------------------
\* Vocabulary

Da(desde, hasta) == paso = desde /\ paso' = hasta
Cambia(b) == base' = b
SoloBase == UNCHANGED <<registros, usuarios, trimestre, visto, semilla, cuentas>>
SoloPaso == UNCHANGED base /\ SoloBase

EnTabla(tabla) == {e \in registros : e.en = tabla}
Mueve(tabla, f(_)) == registros' = {IF e.en = tabla THEN f(e) ELSE e : e \in registros}

-----------------------------------------------------------------------------
\* InitDB

Conectar ==
    /\ Da("apagada", "sesiones")
    /\ \/ semilla' = SinSemilla("api") /\ UNCHANGED cuentas
       \/ /\ semilla' = SinSemilla("seed")
          /\ cuentas.escrituras < MaxEscrituras /\ cuentas' = [cuentas EXCEPT !.escrituras = @ + 1]
    /\ UNCHANGED <<base, registros, usuarios, trimestre, visto>>

\* The table of the old scheme is dropped: its rows cannot be converted.
MigrarSesiones ==
    /\ Da("sesiones", "automigrar") /\ SoloBase
    /\ Cambia(IF base.sesiones = "vieja" THEN [base EXCEPT !.sesiones = "no"] ELSE base)

\* GORM creates the tables that are missing; usuarios is the parent of a
\* has-many of auditoria, which GORM may create with it, flat.
AutoMigrar ==
    /\ Da("automigrar", "auditoria") /\ SoloBase
    /\ \E a \in IF base.auditoria = "no" THEN {"no", "plana"} ELSE {base.auditoria} :
           Cambia([base EXCEPT !.sesiones = "nueva", !.auditoria = a])

MirarAuditoria ==
    /\ Da("auditoria", CASE base.auditoria = "madre" -> "fijas"
                         [] base.auditoria = "no" -> "crear"
                         [] base.auditoria = "plana" /\ base.legacy -> "remanente"
                         [] OTHER -> "renombrar")
    /\ SoloPaso

\* A flat table next to a legacy one of an interrupted migration is dropped.
QuitarRemanente ==
    /\ Da("remanente", "crear")
    /\ Mueve("auditoria", LAMBDA e : [e EXCEPT !.en = "perdido"])
    /\ Cambia([base EXCEPT !.auditoria = "no"])
    /\ UNCHANGED <<usuarios, trimestre, visto, semilla, cuentas>>

Renombrar ==
    /\ Da("renombrar", "crear")
    /\ Mueve("auditoria", LAMBDA e : [e EXCEPT !.en = "legacy"])
    /\ Cambia([base EXCEPT !.auditoria = "no", !.legacy = TRUE])
    /\ UNCHANGED <<usuarios, trimestre, visto, semilla, cuentas>>

CrearMadre ==
    /\ Da("crear", "fijas") /\ SoloBase
    /\ Cambia([base EXCEPT !.auditoria = "madre", !.trigger = FALSE, !.revocada = FALSE])

CrearFijas ==
    /\ Da("fijas", "omision") /\ SoloBase
    /\ Cambia([base EXCEPT !.particiones = @ \cup Fijas])
CrearOmision ==
    /\ Da("omision", "volcar") /\ SoloBase
    /\ Cambia([base EXCEPT !.omision = TRUE])

Volcada(e) ==
    [e EXCEPT !.en = "auditoria", !.preparado = base.preparado,
              !.parte = IF e.t \in base.particiones THEN "propia" ELSE "omision"]
\* Mutant of Volcar: the table is dropped outside the transaction of the copy.
VolcarSinTransaccion ==
    /\ Da("volcar", "actual")
    /\ \/ Mueve("legacy", Volcada)
       \/ Mueve("legacy", LAMBDA e : [e EXCEPT !.en = "perdido"])
    /\ Cambia([base EXCEPT !.legacy = FALSE])
    /\ UNCHANGED <<usuarios, trimestre, visto, semilla, cuentas>>
\* The legacy records are copied and their table dropped, in one transaction.
Volcar ==
    /\ Da("volcar", "actual")
    /\ Mueve("legacy", Volcada)
    /\ Cambia([base EXCEPT !.legacy = FALSE])
    /\ UNCHANGED <<usuarios, trimestre, visto, semilla, cuentas>>

\* A partition cannot be created over rows that the default one holds.
Cabe(t) == t \in base.particiones \/ ~\E e \in EnTabla("auditoria") : e.parte = "omision" /\ e.t = t
AsegurarActual ==
    /\ visto' = trimestre
    /\ IF Cabe(trimestre)
       THEN Da("actual", "siguiente") /\ Cambia([base EXCEPT !.particiones = @ \cup {trimestre}])
       ELSE Da("actual", "apagada") /\ UNCHANGED base
    /\ UNCHANGED <<registros, usuarios, trimestre, semilla, cuentas>>

\* Mutant of AsegurarSiguiente: only the quarter of the start.
AsegurarSoloActual ==
    /\ Da("siguiente", "clasificar") /\ SoloBase
    /\ Cambia([base EXCEPT !.preparado = visto])
AsegurarSiguiente ==
    /\ SoloBase
    /\ IF Cabe(visto + 1)
       THEN /\ Da("siguiente", "clasificar")
            /\ Cambia([base EXCEPT !.particiones = @ \cup {visto + 1}, !.preparado = visto])
       ELSE Da("siguiente", "apagada") /\ UNCHANGED base

\* Mutant of Eliminables: a later reactivation is not looked for.
EliminablesSinReactivar ==
    {u \in Usuarios : /\ usuarios[u].alta /\ ~usuarios[u].activo /\ ~usuarios[u].eliminado
                      /\ \E e \in EnTabla("auditoria") : e.tipo = "elimina" /\ e.u = u}
\* The inactive users whose deletion is in the audit and has no reactivation
\* after it.
Eliminables ==
    {u \in Usuarios :
        /\ usuarios[u].alta /\ ~usuarios[u].activo /\ ~usuarios[u].eliminado
        /\ \E e \in EnTabla("auditoria") :
               /\ e.tipo = "elimina" /\ e.u = u
               /\ \A r \in EnTabla("auditoria") : r.tipo = "reactiva" /\ r.u = u => r.n < e.n}
Clasificar ==
    /\ Da("clasificar", "check")
    /\ usuarios' = [u \in Usuarios |->
           IF u \in Eliminables THEN [usuarios[u] EXCEPT !.eliminado = TRUE] ELSE usuarios[u]]
    /\ UNCHANGED <<base, registros, trimestre, visto, semilla, cuentas>>

AsegurarCheck == Da("check", "correos") /\ Cambia([base EXCEPT !.check = TRUE]) /\ SoloBase

Vigentes == {u \in Usuarios : usuarios[u].alta /\ ~usuarios[u].eliminado}
Repetidos == \E u, w \in Vigentes : u # w
\* With repeated addresses the old index stays.
MirarCorreos ==
    /\ Da("correos", IF base.indices = {"parcial"} \/ Repetidos THEN "trigger" ELSE "indice")
    /\ SoloPaso
\* Mutant of ReemplazarIndice: the old index is dropped outside the transaction.
ReemplazarSinTransaccion ==
    /\ SoloBase
    /\ IF ~Repetidos /\ base.indices = {} THEN Da("indice", "trigger") /\ Cambia([base EXCEPT !.indices = {"parcial"}])
       ELSE /\ Da("indice", IF Repetidos THEN "apagada" ELSE "indice")
            /\ Cambia([base EXCEPT !.indices = {}])
\* The old index goes and the partial one comes, or the start fails.
ReemplazarIndice ==
    /\ SoloBase
    /\ IF Repetidos THEN Da("indice", "apagada") /\ UNCHANGED base
       ELSE Da("indice", "trigger") /\ Cambia([base EXCEPT !.indices = {"parcial"}])

CrearTrigger == Da("trigger", "vocabulario") /\ Cambia([base EXCEPT !.trigger = TRUE]) /\ SoloBase

\* The old codes are translated; once UPDATE is revoked, only a superuser can.
\* A failure does not stop the start.
Normalizar ==
    /\ Da("vocabulario", "revocar")
    /\ \/ /\ registros' = {IF e.en = "auditoria" THEN [e EXCEPT !.viejo = FALSE] ELSE e : e \in registros}
          /\ Cambia([base EXCEPT !.normalizada = TRUE])
       \/ /\ base.revocada /\ \E e \in EnTabla("auditoria") : e.viejo
          /\ UNCHANGED <<registros, base>>
    /\ UNCHANGED <<usuarios, trimestre, visto, semilla, cuentas>>
Revocar == Da("revocar", "contar") /\ Cambia([base EXCEPT !.revocada = TRUE]) /\ SoloBase

\* The API serves, and cmd/seed goes on.
Fin == IF semilla.programa = "api" THEN "lista" ELSE "semilla"

\* seedAdminPorDefecto: the organisation, the administrator, and who created it.
ContarUsuarios ==
    /\ \E credenciales \in BOOLEAN :
           Da("contar", IF base.admin \/ (\E u \in Usuarios : usuarios[u].alta) \/ ~credenciales
                        THEN Fin ELSE "organizacion")
    /\ SoloPaso
CrearOrganizacion ==
    Da("organizacion", "admin") /\ Cambia([base EXCEPT !.huerfanas = @ + 1]) /\ SoloBase
CrearAdmin == Da("admin", "creadoPor") /\ Cambia([base EXCEPT !.admin = TRUE]) /\ SoloBase
AsignarCreador ==
    Da("creadoPor", Fin) /\ Cambia([base EXCEPT !.huerfanas = @ - 1]) /\ SoloBase

Admite(g) ==
    /\ "viejo" \in base.indices => \A w \in Usuarios : usuarios[w].alta => usuarios[w].grafia # g
    /\ "parcial" \in base.indices => Vigentes = {}

\* cmd/seed: a new organisation, or the one of that name, which may be the one
\* that an interrupted run left without a creator.
BuscarOrganizacion ==
    /\ Da("semilla", "correo")
    /\ \E nueva, sinCreador \in BOOLEAN :
           /\ IF nueva THEN sinCreador ELSE IF sinCreador THEN base.huerfanas > 0 ELSE base.admin
           /\ semilla' = [semilla EXCEPT !.org = sinCreador]
           /\ Cambia(IF nueva THEN [base EXCEPT !.huerfanas = @ + 1] ELSE base)
    /\ UNCHANGED <<registros, usuarios, trimestre, visto, cuentas>>
\* The address is looked for as it was typed, among the eliminated too.
VerificarCorreo ==
    /\ \E g \in Grafias :
           /\ semilla' = [semilla EXCEPT !.grafia = g]
           /\ Da("correo", IF \E u \in Usuarios : usuarios[u].alta /\ usuarios[u].grafia = g
                            THEN "apagada" ELSE "sembrar")
    /\ UNCHANGED <<base, registros, usuarios, trimestre, visto, cuentas>>
Sembrar ==
    /\ IF Admite(semilla.grafia)
       THEN /\ Da("sembrar", "creador")
            /\ \E u \in Usuarios : ~usuarios[u].alta /\ usuarios' = [usuarios EXCEPT ![u] = Nuevo(semilla.grafia)]
            /\ Cambia([base EXCEPT !.admin = TRUE])
       ELSE Da("sembrar", "apagada") /\ UNCHANGED <<usuarios, base>>
    /\ UNCHANGED <<registros, trimestre, visto, semilla, cuentas>>
PonerCreador ==
    /\ Da("creador", "apagada")
    /\ Cambia(IF semilla.org THEN [base EXCEPT !.huerfanas = @ - 1] ELSE base)
    /\ SoloBase

\* A statement fails, the process is killed, or it is stopped.
Caer ==
    /\ paso # "apagada" /\ paso' = "apagada"
    /\ cuentas.caidas < MaxCaidas /\ cuentas' = [cuentas EXCEPT !.caidas = @ + 1]
    /\ UNCHANGED <<base, registros, usuarios, trimestre, visto, semilla>>

-----------------------------------------------------------------------------
\* Those who write meanwhile: the previous version, and this one once it serves

Escriben == (IF cuentas.anterior THEN {"anterior"} ELSE {}) \cup (IF paso = "lista" THEN {"esta"} ELSE {})
Escritura ==
    /\ cuentas.escrituras < MaxEscrituras
    /\ cuentas' = [cuentas EXCEPT !.escrituras = @ + 1]
    /\ UNCHANGED <<paso, base, trimestre, visto, semilla>>

Recibe ==
    \/ base.auditoria = "plana"
    \/ base.auditoria = "madre" /\ (trimestre \in base.particiones \/ base.omision)
\* A record that the tables do not take is lost before it is one.
Registra(version, tipo, u) ==
    registros' = IF Recibe THEN registros \cup {Evento(cuentas.escrituras + 1, tipo, u, version = "anterior")}
               ELSE registros

Registrar(version) ==
    /\ Escritura /\ Registra(version, "otro", "") /\ UNCHANGED usuarios

CrearUsuario(u) ==
    /\ ~usuarios[u].alta /\ Escritura /\ UNCHANGED registros
    /\ \E g \in Grafias :
           /\ Admite(g)
           /\ usuarios' = [usuarios EXCEPT ![u] = Nuevo(g)]

Eliminar(version, u) ==
    /\ usuarios[u].alta /\ ~usuarios[u].eliminado /\ Escritura
    /\ usuarios' = [usuarios EXCEPT ![u].activo = FALSE, ![u].borrado = TRUE,
                                    ![u].eliminado = version = "esta"]
    /\ Registra(version, "elimina", u)

Suspender(u) ==
    /\ usuarios[u].activo /\ Escritura /\ UNCHANGED registros
    /\ usuarios' = [usuarios EXCEPT ![u].activo = FALSE]

\* An eliminated user comes back only through the previous version and before
\* the check.
Reactivar(version, u) ==
    /\ usuarios[u].alta /\ ~usuarios[u].activo /\ Escritura
    /\ usuarios[u].eliminado => version = "anterior" /\ ~base.check
    /\ usuarios' = [usuarios EXCEPT ![u].activo = TRUE, ![u].borrado = FALSE, ![u].rastro = Recibe]
    /\ Registra(version, "reactiva", u)

PasaTrimestre ==
    /\ trimestre < UltimoTrimestre /\ trimestre' = trimestre + 1
    /\ UNCHANGED <<paso, base, registros, usuarios, visto, semilla, cuentas>>

Next ==
    \/ Conectar \/ MigrarSesiones \/ AutoMigrar
    \/ MirarAuditoria \/ QuitarRemanente \/ Renombrar \/ CrearMadre
    \/ CrearFijas \/ CrearOmision \/ Volcar \/ AsegurarActual \/ AsegurarSiguiente
    \/ Clasificar \/ AsegurarCheck \/ MirarCorreos \/ ReemplazarIndice
    \/ CrearTrigger \/ Normalizar \/ Revocar
    \/ ContarUsuarios \/ CrearOrganizacion \/ CrearAdmin \/ AsignarCreador
    \/ BuscarOrganizacion \/ VerificarCorreo \/ Sembrar \/ PonerCreador
    \/ Caer \/ PasaTrimestre
    \/ \E version \in Escriben :
           \/ Registrar(version)
           \/ \E u \in Usuarios :
                  CrearUsuario(u) \/ Eliminar(version, u) \/ Suspender(u) \/ Reactivar(version, u)

Spec == Init /\ [][Next]_vars

-----------------------------------------------------------------------------
(* Properties *)

\* No audit record is lost by the migration, wherever it is interrupted and
\* resumed, except those the previous version wrote in a flat table that was
\* made again next to the legacy one (migrarAuditoriaParticionada).
HistorialIntacto == \A e \in registros : e.en = "perdido" => e.recreada

\* Two users not eliminated never share an address, while its index is
\* replaced and the previous version goes on creating users
\* (reemplazarIndiceEmail).
CorreoUnico == \A u, w \in Vigentes : usuarios[u].grafia = usuarios[w].grafia => u = w

\* A start marks as eliminated only users who were deleted and not reactivated
\* since, unless the record of the reactivation was not kept
\* (clasificarEliminados).
ClasificacionFiel ==
    [][\A u \in Usuarios :
        paso = "clasificar" /\ usuarios'[u].eliminado /\ ~usuarios[u].eliminado =>
            \/ usuarios[u].borrado \/ ~usuarios[u].rastro
            \/ \E e \in registros : e.en = "perdido" /\ e.tipo = "reactiva" /\ e.u = u]_vars

\* A start fails at its partitions only when a record of a quarter without one
\* was written two quarters or more after the last start that prepared them
\* (asegurarParticionesFuturas).
TrabaConCausa ==
    [][paso' = "apagada" /\ paso \in {"actual", "siguiente"} /\ cuentas' = cuentas =>
        \E e \in EnTabla("auditoria") :
            /\ e.parte = "omision" /\ e.t \notin Fijas
            /\ e.t > e.preparado + 1]_vars

=============================================================================
