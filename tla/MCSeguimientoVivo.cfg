SPECIFICATION SpecJusta
CONSTANTS
  Tareas = {1}
  Usuarios = {"ana"}
  Vmids = {110}
  Accion <- AccionMC
  Creador <- CreadorMC
  VmidDe <- VmidDeMC
  Workers = {w1, w2}
  Buffer = 1
  MaxEdad = 1
  UpidTimeout = 0
  VentanaRecuperacion = 0
  MaxCaidas = 1
  MaxReinicios = 1
  MaxFallosBD = 1
  MaxCopias = 2
PROPERTY TodaTareaSeCierra
PROPERTY CierreSePublicaSinCaidas
PROPERTY CumpleCiclo
