CONSTANTS
    Conexiones = {1}
    Tickets = {t1}
    Sesiones = {s1, s2}
    Todas = Todas
    MaxEventos = 3
    ClaseDe <- Clase
    MaxCierres = 1
    CapBus = 2
    CapCanal = 1
    MaxWS = 1
    MaxFallos = 1
SPECIFICATION Spec
INVARIANT EntregaSinHuecos
PROPERTY AvisoCorta
PROPERTY SinAccesoSeCorta
PROPERTY ApagadoCierra
CHECK_DEADLOCK FALSE
