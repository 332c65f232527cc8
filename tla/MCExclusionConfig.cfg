SPECIFICATION Spec
CONSTANTS
  Pedidos = {"t1", "k"}
  Clase <- ClaseMC
  Lecturas <- LecturasMC
  TtlLock = 12
  MaxLlamada = 2
  MaxCaidas = 1
INVARIANT ExclusionMutua
