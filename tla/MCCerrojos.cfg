SPECIFICATION SpecPartes
SYMMETRY Simetria
CONSTRAINT Corte
CONSTANTS
    k = k
    a1 = a1
    v1 = v1
    Pedidos = {t1, t2, k}
    Clase <- ClaseMC
    Lecturas <- LecturasMC
    TtlLock = 12
    MaxLlamada = 1
    MaxCaidas = 1
    Solicitudes = {c1, c2, a1, v1}
    Claves <- ClavesMC
    Memorias <- MemoriasMC
    Calientes <- CalientesMC
    MemTotal = 10
    MemUsada = 1
    Base = 2
    TtlProvision = 3
    TtlCapacidad = 1
    LimiteLlamada = 1
INVARIANT ExclusionMutua
INVARIANT UnaTareaRunning
INVARIANT SinSobreasignar
INVARIANT ReservaCubre
PROPERTY CumpleCapacidad
