------------------------------ MODULE CicloTarea ------------------------------
(***************************************************************************)
(* What the task tracking promises about a task, whatever the pool does:   *)
(* it is registered as running, it is closed once and for good, and the    *)
(* end is announced only after it was closed.                              *)
(***************************************************************************)
CONSTANT Tareas

VARIABLES
  estado,    \* estado of each task as anyone reading the database sees it
  avisadas   \* tasks whose TASK_FINISHED was published

cicloVars == <<estado, avisadas>>

CicloInit ==
  /\ estado = [t \in Tareas |-> "ausente"]
  /\ avisadas = {}

Registrar(t) ==
  /\ estado[t] = "ausente"
  /\ estado' = [estado EXCEPT ![t] = "RUNNING"]
  /\ UNCHANGED avisadas

Cerrar(t) ==
  /\ estado[t] = "RUNNING"
  /\ \E e \in {"COMPLETED", "FAILED"} : estado' = [estado EXCEPT ![t] = e]
  /\ UNCHANGED avisadas

Avisar(t) ==
  /\ estado[t] \in {"COMPLETED", "FAILED"}
  /\ avisadas' = avisadas \cup {t}
  /\ UNCHANGED estado

CicloNext == \E t \in Tareas : Registrar(t) \/ Cerrar(t) \/ Avisar(t)

CicloSpec == CicloInit /\ [][CicloNext]_cicloVars
===============================================================================
