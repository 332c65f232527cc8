CONSTANTS
    Replicas = {r1, r2}
    CiclosParaAlertar = 2
    MaxIncidencias = 1
SPECIFICATION Spec
INVARIANT ActivaAvisada
PROPERTY CaidaSeDecide
PROPERTY DisparoAntesQueResolucion
PROPERTY Histeresis
