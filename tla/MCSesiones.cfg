CONSTANTS
    Sesiones = {s1, s2}
    Procs = {p1, p2}
    Tokens = {t1, t2}
    Nadie = Nadie
    MaxJti = 2
    MaxFallos = 1
SPECIFICATION Spec
SYMMETRY Simetria
INVARIANT CopiaCerradaConCausa
INVARIANT BajaRevoca
PROPERTY CierreDefinitivo
CHECK_DEADLOCK FALSE
