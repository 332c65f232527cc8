---------------------------- MODULE MCInstancias ----------------------------
(* Three requests, an administrator's, an operator's and another administrator's, *)
(* on a known instance (101), a protected one (100) and a free VMID (102).    *)
EXTENDS Instancias, TLC

CONSTANTS p1, p2, p3

MCOps == p1 :> {"delete", "create"}
      @@ p2 :> {"start", "stop", "shutdown", "reboot", "resume", "rollback", "snapshot", "config"}
      @@ p3 :> {"delsnapshot", "create"}
MCQuien == p1 :> "admin" @@ p2 :> "operador" @@ p3 :> "admin"
=============================================================================
