SPECIFICATION Spec
CONSTANTS
  Tareas = {1, 2}
  Usuarios = {"ana"}
  Vmids = {110}
  Accion <- AccionMC
  Creador <- CreadorMC
  VmidDe <- VmidDeMC
  Workers = {w1}
  Buffer = 1
  MaxEdad = 1
  UpidTimeout = 0
  VentanaRecuperacion = 0
  MaxCaidas = 1
  MaxReinicios = 0
  MaxFallosBD = 0
  MaxCopias = 2
INVARIANT SinMarcasHuerfanas
INVARIANT AuditoriaCorrelacionada
 
