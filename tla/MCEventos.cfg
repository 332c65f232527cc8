CONSTANTS
    Conexiones = {1, 2}
    Tickets = {t1, t2}
    Sesiones = {s1, s2}
    Todas = Todas
    MaxEventos = 1
    ClaseDe <- Clase
    MaxCierres = 1
    CapBus = 1
    CapCanal = 1
    MaxWS = 1
    MaxFallos = 1
SPECIFICATION Spec
INVARIANT CorteConCausa
INVARIANT CupoExacto
CHECK_DEADLOCK FALSE
