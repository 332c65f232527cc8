--------------------------- MODULE TareaRepository ---------------------------
(***************************************************************************)
(* The PostgreSQL tables that TareaRepository writes: tareas_asincronas,   *)
(* the audit records of each task and permisos_instancia.  Every operation *)
(* is one transaction, so it is one atomic step here; a transaction that   *)
(* fails changes nothing and is left to the caller.                        *)
(***************************************************************************)
EXTENDS Naturals, Sequences

CONSTANTS
  Tareas,    \* task identifiers, in the order of fecha_creacion
  Usuarios,
  Vmids,
  Accion,    \* what each task does
  Creador,   \* the user who asked for it
  VmidDe     \* the instance it acts on

Acciones == {"crear", "borrar", "operar"}

ASSUME TareasAssumption ==
  /\ Tareas \subseteq Nat \ {0}
  /\ Accion \in [Tareas -> Acciones]
  /\ Creador \in [Tareas -> Usuarios]
  /\ VmidDe \in [Tareas -> Vmids]

VARIABLES
  fila,       \* row of each task: its estado and, once closed, the exitstatus
  auditoria,  \* audit records of each task, oldest first
  permisos    \* rows of permisos_instancia

repoVars == <<fila, auditoria, permisos>>

Ausente == [estado |-> "ausente", exitstatus |-> "null"]
EnCursoBD == [estado |-> "RUNNING", exitstatus |-> "null"]

(***************************************************************************)
(* ResultadoTarea: the outcomes a task can be closed with.  The motivo is  *)
(* implied: PROXMOX_ERROR for a FAILED task with an exit status, TIMEOUT   *)
(* for one without, none for a COMPLETED one.                              *)
(***************************************************************************)
ExitStatus == {"OK", "WARNINGS", "ERROR"}
Vencida == [estado |-> "FAILED", exitstatus |-> "null"]
Completada(e) == [estado |-> "COMPLETED", exitstatus |-> e]
FalloProxmox(e) == [estado |-> "FAILED", exitstatus |-> e]
Resultados ==
  {Vencida} \cup {Completada(e) : e \in {"OK", "WARNINGS"}}
            \cup {FalloProxmox(e) : e \in {"WARNINGS", "ERROR"}}

Cerrada(t) == fila[t].estado \in {"COMPLETED", "FAILED"}

\* A creation grants access only on exit status exactly OK, and so does the
\* purge of a destroyed instance.
DebeAsignarPermisoCreacion(t, r) == Accion[t] = "crear" /\ r = Completada("OK")
DebePurgarPermisosDestruccion(t, r) == Accion[t] = "borrar" /\ r = Completada("OK")

\* Rows of the instance of t: those a purge collects as UsuariosAfectados.
PermisosDe(t) == permisos \cap (Usuarios \X {VmidDe[t]})

\* The closing record: a creation is a success only with OK, anything else
\* whenever it has no motivo.
ResultadoAuditoria(t, r) ==
  IF r = Completada("OK") \/ (r.estado = "COMPLETED" /\ Accion[t] # "crear")
  THEN "EXITO" ELSE "FALLA"

RegistrosDeCierre(t, r) ==
  (IF DebePurgarPermisosDestruccion(t, r) THEN <<"PURGA">> ELSE <<>>)
    \o <<ResultadoAuditoria(t, r)>>

InitRepo ==
  /\ fila = [t \in Tareas |-> Ausente]
  /\ auditoria = [t \in Tareas |-> <<>>]
  /\ permisos = {}

\* Crear: the RUNNING row and its PENDIENTE record, in one transaction.
Crear(t) ==
  /\ fila[t] = Ausente
  /\ fila' = [fila EXCEPT ![t] = EnCursoBD]
  /\ auditoria' = [auditoria EXCEPT ![t] = <<"PENDIENTE">>]
  /\ UNCHANGED permisos

\* Mutant: the closing does not look whether the row is still RUNNING.
ActualizarSinMirar(t, r) ==
  /\ fila[t] # Ausente
  /\ fila' = [fila EXCEPT ![t] = r]
  /\ auditoria' = [auditoria EXCEPT ![t] = @ \o RegistrosDeCierre(t, r)]
  /\ UNCHANGED permisos

(***************************************************************************)
(* ActualizarEstado: SELECT ... FOR UPDATE, and nothing at all if another  *)
(* worker closed the row before (the call still succeeds); otherwise the   *)
(* grant or the purge, the audit records and the new estado commit         *)
(* together.                                                               *)
(***************************************************************************)
ActualizarEstado(t, r) ==
  \/ /\ fila[t].estado = "RUNNING"
     /\ fila' = [fila EXCEPT ![t] = r]
     /\ auditoria' = [auditoria EXCEPT ![t] = @ \o RegistrosDeCierre(t, r)]
     /\ permisos' = IF DebePurgarPermisosDestruccion(t, r)
                    THEN permisos \ PermisosDe(t)
                    ELSE IF DebeAsignarPermisoCreacion(t, r)
                    THEN permisos \cup {<<Creador[t], VmidDe[t]>>}
                    ELSE permisos
  \/ /\ Cerrada(t)
     /\ UNCHANGED repoVars

\* ListarEnCurso.
ListarEnCurso == {t \in Tareas : fila[t].estado = "RUNNING"}

TypeOKRepo ==
  /\ fila \in [Tareas -> {Ausente, EnCursoBD} \cup Resultados]
  /\ auditoria \in [Tareas -> Seq({"PENDIENTE", "PURGA", "EXITO", "FALLA"})]
  /\ permisos \subseteq Usuarios \X Vmids
==============================================================================
