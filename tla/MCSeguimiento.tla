---------------------------- MODULE MCSeguimiento ----------------------------
(* Small instances of Seguimiento for TLC. *)
EXTENDS Seguimiento

\* A destruction and a creation on the same VMID: what happens when Proxmox
\* hands a freed VMID out again.
AccionMC == [t \in Tareas |-> IF t = 1 THEN "borrar" ELSE "crear"]
CreadorMC == [t \in Tareas |-> "ana"]
VmidDeMC == [t \in Tareas |-> 110]
==============================================================================
