CONSTANTS
    IPs = {i1, i2}
    Correos = {ana, beto}
    Sesiones = {j}
    VentanaMinuto = 1
    VentanaLogin = 2
    VentanaForgot = 2
    Ventana2FA = 2
    TTLPre2FA = 2
    LimiteMinuto = 2
    LimiteLogin = 2
    LimiteForgot = 1
    Limite2FA = 2
    MaxPeticiones = 3
    MaxTiempo = 3
    MaxFallos = 1
SPECIFICATION Spec
INVARIANT ComparacionesPorToken
INVARIANT FallidosAcotados
INVARIANT CupoConCausa
CHECK_DEADLOCK FALSE
SYMMETRY Simetria
