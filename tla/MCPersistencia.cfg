CONSTANTS
    Llaves = {k, cerrojo}
    Ventanas = {w}
    Procesos = {1, 2}
    Cerrojo = cerrojo
    Valores = {1}
    TTLs = {0, 1}
    Miembros = {m1, m2}
    Largo = 2
    Limite = 1
    MaxTiempo = 3
    CadaCuanto = 1
    Usuarios = {u1, u2}
    Grafias = {"ana", "Ana"}
    Fijas = {1, 2}
    UltimoTrimestre = 3
    MaxEscrituras = 2
    CaidasInicio = 1
    Organizaciones = {o1, o2}
    Acciones = {1}
    Tamano = 1
    Lote = 2
    LargoTrimestre = 1
    MaxInstante = 2
    MaxRegistros = 3
SYMMETRY Simetria
CONSTRAINT ClienteEnCurso
SPECIFICATION SpecPiezas
INVARIANT HistorialIntacto
INVARIANT CorreoUnico
INVARIANT LecturaEntera
PROPERTY ClasificacionFiel
PROPERTY TrabaConCausa
PROPERTY CumpleAlmacen
CHECK_DEADLOCK FALSE
