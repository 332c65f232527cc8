CONSTANTS
    p1 = p1
    p2 = p2
    p3 = p3
    Vmids = {100, 101, 102}
    Nombres = {a, b}
    TiposNuevos = {"qemu"}
    Nucleos = {1, 2}
    Pedidos = {p1, p2, p3}
    Ops <- MCOps
    Quien <- MCQuien
    Admins = {"admin"}
    Operadores = {"operador"}
    Protegidos = {100}
    Propias = {101}
    MaxIncidencias = 1
SPECIFICATION Spec
CHECK_DEADLOCK FALSE
INVARIANT BorradoPurga
INVARIANT CreadorConserva
PROPERTY OrdenSobreLoLeido
PROPERTY ProtegidasIntactas
