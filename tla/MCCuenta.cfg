CONSTANTS
    Cuentas = {1, 2}
    Emails = {1, 2, 3}
    EmailDe <- Propio
    MaxPeticiones = 3
    MaxIntentos = 3
    MaxFallos = 1
SPECIFICATION Spec
INVARIANT ClaveEntregada
INVARIANT CodigoAcotado
PROPERTY DesplazadoAvisado
CHECK_DEADLOCK FALSE
