------------------------------ MODULE MCCuenta ------------------------------
(* Two identities and three e-mails; identity 1 uses the first one and        *)
(* identity 2, when it exists at the start, the second one.                   *)
EXTENDS Cuenta
Propio == [c \in Cuentas |-> c]
=============================================================================
