-------------------------------- MODULE Cuotas --------------------------------
(***************************************************************************)
(* CuotasService: creations and reconfigurations of instances compete for  *)
(* the RAM of one node.  Requests (of any replica of the API) share the    *)
(* provisioning lock, the list of reservations and the cached capacity in  *)
(* Redis; Proxmox is asked in between.  Time passes in ticks.  Disk is     *)
(* admitted by the same rule as RAM and is left out.                       *)
(*                                                                         *)
(* Two history variables, which no step reads, record how the code loses   *)
(* sight of RAM it has handed out: perdidas, the requests this happened    *)
(* to, and vencido, a lock that expired while its holder still worked.     *)
(***************************************************************************)
EXTENDS Integers, FiniteSets, FiniteSetsExt

CONSTANTS
  Pedidos,        \* requests; a creation is also the identity of its instance
  Clase,          \* "crear" (creation), "ampliar" (more RAM), "cores" (only vCPU)
  Memoria,        \* RAM asked for
  EnCaliente,     \* whether a reconfiguration applies without a reboot
  MemTotal,       \* RAM of the node
  MemUsada,       \* RAM in use on the node
  Base,           \* RAM of the instances there already
  TtlLock,        \* ttlLockAprovisionamiento
  TtlCapacidad,   \* ttlCapacidadAprovisionamiento
  LimiteLlamada   \* requestTimeout of the Proxmox client

\* What the constants are.
Supuestos ==
  /\ "nadie" \notin Pedidos
  /\ Clase \in [Pedidos -> {"crear", "ampliar", "cores"}]
  /\ Memoria \in [Pedidos -> Nat] /\ \A p \in Pedidos : Clase[p] = "cores" => Memoria[p] = 0
  /\ EnCaliente \in [Pedidos -> BOOLEAN]
  /\ {MemTotal, MemUsada, Base} \subseteq Nat
  /\ {TtlLock, TtlCapacidad, LimiteLlamada} \subseteq Nat \ {0}

VARIABLES
  fase,      \* where each request is
  reloj,     \* age of each request's current Proxmox call
  lista,     \* the reservations each request has read
  foto,      \* the instances each request has seen
  lock,      \* holder of lock:instance:provisioning
  edadLock,
  reservas,  \* aprovisionamiento:reservas
  cache,     \* aprovisionamiento:capacidad
  remoto,    \* what Proxmox has done with each request
  perdidas,  \* requests whose RAM the code lost sight of
  vencido    \* the lock expired under a holder at work

historia == <<perdidas, vencido>>
vars == <<fase, reloj, lista, foto, lock, edadLock, reservas, cache, remoto, historia>>

Nadie == "nadie"
ConLock(p) == Clase[p] # "cores"

\* A reservation carries its VMID once Proxmox has accepted the creation.
Reserva(p, v) == [id |-> p, vmid |-> v]
Ids(L) == {r.id : r \in L}
QuitarReserva(L, p) == {r \in L : r.id # p}

SinFoto == [hay |-> FALSE, instancias |-> {}, edad |-> 0]

Init ==
  /\ fase = [p \in Pedidos |-> "nuevo"]
  /\ reloj = [p \in Pedidos |-> 0]
  /\ lista = [p \in Pedidos |-> {}]
  /\ foto = [p \in Pedidos |-> {}]
  /\ lock = Nadie
  /\ edadLock = 0
  /\ reservas = {}
  /\ cache = SinFoto
  /\ remoto = [p \in Pedidos |-> "nada"]
  /\ perdidas = {} /\ vencido = FALSE

-------------------------------------------------------------------------------
(* margenRAMNodo *)

Suma(S) == MapThenSumSet(LAMBDA p : Memoria[p], S)

\* porcentajeRedondeadoHaciaArriba of headroomRAMPercent.
Headroom == (MemTotal * 15 + 99) \div 100

NoNegativo(n) == IF n < 0 THEN 0 ELSE n
Mayor(a, b) == IF a > b THEN a ELSE b

\* Mutant: the reservations are not subtracted.
MargenSinReservas(F, L) ==
  NoNegativo(MemTotal - Mayor(Base + Suma(F), MemUsada) - Headroom)

\* A reservation counts unless the inventory shows its instance already.
MargenRAMNodo(F, L) ==
  NoNegativo(MemTotal - Mayor(Base + Suma(F), MemUsada) - Headroom
               - Suma({r.id : r \in {s \in L : ~(s.vmid /\ s.id \in F)}}))

-------------------------------------------------------------------------------
(* Proxmox *)

Visibles == {p \in Pedidos : remoto[p] = "visible"}

\* The order reaches Proxmox: a creation task starts, a change of
\* configuration applies at once or waits for the reboot.
ProxmoxAcepta(p) ==
  /\ remoto[p] = "enviado"
  /\ remoto' = [remoto EXCEPT ![p] = IF Clase[p] # "crear" /\ EnCaliente[p]
                                     THEN "visible" ELSE "pendiente"]
  /\ UNCHANGED <<fase, reloj, lista, foto, lock, edadLock, reservas, cache, historia>>

ProxmoxCompleta(p) ==
  /\ remoto[p] = "pendiente"
  /\ remoto' = [remoto EXCEPT ![p] = "visible"]
  /\ UNCHANGED <<fase, reloj, lista, foto, lock, edadLock, reservas, cache, historia>>

\* The order is refused or lost.
ProxmoxRechaza(p) ==
  /\ remoto[p] = "enviado"
  /\ remoto' = [remoto EXCEPT ![p] = "rechazada"]
  /\ UNCHANGED <<fase, reloj, lista, foto, lock, edadLock, reservas, cache, historia>>

\* The creation task fails.
ProxmoxFalla(p) ==
  /\ remoto[p] = "pendiente" /\ Clase[p] = "crear"
  /\ remoto' = [remoto EXCEPT ![p] = "fallida"]
  /\ UNCHANGED <<fase, reloj, lista, foto, lock, edadLock, reservas, cache, historia>>

-------------------------------------------------------------------------------
(* The steps of a request *)

Llamadas == {"estado", "lista", "storages", "nextid", "post", "put"}
Trabaja(p) == fase[p] \in Llamadas \cup {"capacidad", "validar", "soltar"}
SinDecidir(p) == remoto[p] \in {"enviado", "pendiente"}

Pasar(p, f) ==
  /\ fase' = [fase EXCEPT ![p] = f]
  /\ reloj' = [reloj EXCEPT ![p] = 0]

\* The order goes out.
Enviar(p, f) ==
  /\ Pasar(p, f)
  /\ remoto' = [remoto EXCEPT ![p] = "enviado"]

\* invalidarCacheCapacidad, whose error nobody looks at.
Invalidar == cache' \in {SinFoto, cache}
\* The cache still holds a snapshot without p.
CacheSin(p) == cache'.hay /\ p \notin cache'.instancias

\* The RAM of the requests of S is lost sight of.
Perder(S) == perdidas' = perdidas \cup S /\ UNCHANGED vencido

\* A request without more RAM works without the lock.
Pedir(p) ==
  /\ fase[p] = "nuevo"
  /\ Pasar(p, IF ConLock(p) THEN "lock" ELSE "capacidad")
  /\ UNCHANGED <<lista, foto, lock, edadLock, reservas, cache, remoto, historia>>

\* AcquireLock and leerReservas.
TomarLock(p) ==
  /\ fase[p] = "lock"
  /\ lock = Nadie
  /\ lock' = p
  /\ edadLock' = 0
  /\ lista' = [lista EXCEPT ![p] = reservas]
  /\ Pasar(p, "capacidad")
  /\ UNCHANGED <<foto, reservas, cache, remoto, historia>>

\* The 2 s of esperaLockAprovisionamiento pass, or Redis fails.
Rendirse(p) ==
  /\ fase[p] = "lock"
  /\ Pasar(p, "fin")
  /\ UNCHANGED <<lista, foto, lock, edadLock, reservas, cache, remoto, historia>>

\* obtenerCapacidad, the read of the cache.
LeerCache(p) ==
  /\ fase[p] = "capacidad"
  /\ IF cache.hay
     THEN /\ foto' = [foto EXCEPT ![p] = cache.instancias]
          /\ Pasar(p, "validar")
     ELSE /\ Pasar(p, "estado")
          /\ UNCHANGED foto
  /\ UNCHANGED <<lista, lock, edadLock, reservas, cache, remoto, historia>>

\* ObtenerEstadoNodo, ListarInstancias and ObtenerStorages answer in turn, and
\* the snapshot goes to the cache: without the lock, even one that misses what
\* has been done, invalidated and released since it was taken.
RespondeEstado(p) ==
  /\ fase[p] = "estado"
  /\ Pasar(p, "lista")
  /\ UNCHANGED <<lista, foto, lock, edadLock, reservas, cache, remoto, historia>>

RespondeLista(p) ==
  /\ fase[p] = "lista"
  /\ foto' = [foto EXCEPT ![p] = Visibles]
  /\ Pasar(p, "storages")
  /\ UNCHANGED <<lista, lock, edadLock, reservas, cache, remoto, historia>>

RespondeStorages(p) ==
  /\ fase[p] = "storages"
  /\ cache' = [hay |-> TRUE, instancias |-> foto[p], edad |-> 0]
  /\ Perder(IF ConLock(p) THEN {}
            ELSE {q \in Visibles \ foto[p] : q \notin Ids(reservas) /\ fase[q] # "put"})
  /\ Pasar(p, "validar")
  /\ UNCHANGED <<lista, foto, lock, edadLock, reservas, remoto>>

\* Redis or Proxmox fails, or the client leaves.
FallaLectura(p) ==
  /\ fase[p] \in {"capacidad", "estado", "lista", "storages"}
  /\ Pasar(p, "soltar")
  /\ UNCHANGED <<lista, foto, lock, edadLock, reservas, cache, remoto, historia>>

\* The RAM fits: a creation reserves it, a reconfiguration is sent.
Validar(p) ==
  /\ fase[p] = "validar"
  /\ Memoria[p] <= MargenRAMNodo(foto[p], lista[p])
  /\ IF Clase[p] = "crear"
     THEN /\ lista' = [lista EXCEPT ![p] = @ \cup {Reserva(p, FALSE)}]
          /\ reservas' = lista'[p]
          /\ Pasar(p, "nextid")
          /\ UNCHANGED remoto
     ELSE /\ Enviar(p, "put")
          /\ UNCHANGED <<lista, reservas>>
  /\ UNCHANGED <<foto, lock, edadLock, cache, historia>>

\* It does not, or disk, storage or vCPU are refused, or Redis fails.
Rechazar(p) ==
  /\ fase[p] = "validar"
  /\ Pasar(p, "soltar")
  /\ UNCHANGED <<lista, foto, lock, edadLock, reservas, cache, remoto, historia>>

RespondeNextid(p) ==
  /\ fase[p] = "nextid"
  /\ Enviar(p, "post")
  /\ UNCHANGED <<lista, foto, lock, edadLock, reservas, cache, historia>>

\* ErrCreacionNoDespachada: the reservation is taken out (unless Redis fails).
NoDespachada(p) ==
  /\ fase[p] = "nextid"
  /\ \/ reservas' = QuitarReserva(lista[p], p) /\ Invalidar
     \/ UNCHANGED <<reservas, cache>>
  /\ Pasar(p, "soltar")
  /\ UNCHANGED <<lista, foto, lock, edadLock, remoto, historia>>

\* Proxmox accepted the creation: the VMID joins the reservation (unless Redis fails).
CreacionAceptada(p) ==
  /\ fase[p] = "post"
  /\ remoto[p] \in {"pendiente", "visible", "fallida"}
  /\ lista' = [lista EXCEPT ![p] = QuitarReserva(@, p) \cup {Reserva(p, TRUE)}]
  /\ reservas' \in {lista'[p], reservas}
  /\ Invalidar
  /\ Pasar(p, "soltar")
  /\ UNCHANGED <<foto, lock, edadLock, remoto, historia>>

\* Mutant: any error takes the reservation out.
CreacionInciertaLibera(p) ==
  /\ fase[p] = "post"
  /\ reservas' = QuitarReserva(lista[p], p) /\ Invalidar
  /\ Pasar(p, "soltar")
  /\ UNCHANGED <<lista, foto, lock, edadLock, remoto, historia>>

\* Any other error leaves the outcome unknown: the reservation stays.
CreacionIncierta(p) ==
  /\ fase[p] = "post"
  /\ Invalidar
  /\ Pasar(p, "soltar")
  /\ UNCHANGED <<lista, foto, lock, edadLock, reservas, remoto, historia>>

\* Mutant: the snapshot survives a change of configuration.
ConfigRespondeSinInvalidar(p) ==
  /\ fase[p] = "put"
  /\ Perder(IF SinDecidir(p) THEN {p} ELSE {})
  /\ Pasar(p, "soltar")
  /\ UNCHANGED <<lista, foto, lock, edadLock, reservas, cache, remoto>>

\* aplicar returns: with Proxmox's answer, or with an error while the order may
\* still be on its way (the call ran out of time, the connection broke, the
\* client left).  Nothing reserves an increase: undecided, waiting for the
\* reboot, or missing from a snapshot that could not be invalidated, its RAM is
\* lost sight of.
ConfigResponde(p) ==
  /\ fase[p] = "put"
  /\ Invalidar
  /\ Perder(IF SinDecidir(p) \/ CacheSin(p) THEN {p} ELSE {})
  /\ Pasar(p, "soltar")
  /\ UNCHANGED <<lista, foto, lock, edadLock, reservas, remoto>>

\* release, a compare-and-delete; a creation with its VMID is then tracked.
Soltar(p) ==
  /\ fase[p] = "soltar"
  /\ lock' = IF lock = p THEN Nadie ELSE lock
  /\ fase' = [fase EXCEPT ![p] = IF Reserva(p, TRUE) \in lista[p] THEN "seguida" ELSE "fin"]
  /\ UNCHANGED <<reloj, lista, foto, edadLock, reservas, cache, remoto, historia>>

\* The replica dies with whatever it holds.  After a PUT nobody invalidates.
Caer(p) ==
  /\ fase[p] \notin {"nuevo", "seguida", "fin"}
  /\ Perder(IF fase[p] = "put" THEN {p} ELSE {})
  /\ Pasar(p, "fin")
  /\ UNCHANGED <<lista, foto, lock, edadLock, reservas, cache, remoto>>

\* FinalizarReserva of a task that ended well: LiberarReserva, under the lock.
LiberarReserva(p) ==
  /\ fase[p] = "seguida"
  /\ remoto[p] = "visible"
  /\ lock = Nadie
  /\ p \in Ids(reservas)
  /\ reservas' = QuitarReserva(reservas, p)
  /\ Invalidar
  /\ Perder(IF CacheSin(p) THEN {p} ELSE {})
  /\ UNCHANGED <<fase, reloj, lista, foto, lock, edadLock, remoto>>

-------------------------------------------------------------------------------
(***************************************************************************)
(* Time.  What a replica does on its own and with Redis takes none; a call *)
(* lasts LimiteLlamada at most.  An order that was sent is decided whenever *)
(* Proxmox likes, whether or not anybody waits for it any more.            *)
(***************************************************************************)
PuedeSeguir(p) ==
  /\ fase[p] \notin {"capacidad", "validar", "soltar"}
  /\ fase[p] \in Llamadas => reloj[p] < LimiteLlamada

VenceLock == lock # Nadie /\ edadLock + 1 >= TtlLock

Tic ==
  /\ \A p \in Pedidos : PuedeSeguir(p)
  /\ reloj' = [p \in Pedidos |-> IF fase[p] \in Llamadas THEN reloj[p] + 1 ELSE reloj[p]]
  /\ IF lock = Nadie \/ VenceLock
     THEN edadLock' = 0 /\ lock' = Nadie
     ELSE edadLock' = edadLock + 1 /\ UNCHANGED lock
  /\ vencido' = (vencido \/ \E p \in Pedidos : VenceLock /\ lock = p /\ Trabaja(p))
  /\ cache' = IF cache.hay /\ cache.edad + 1 < TtlCapacidad
              THEN [cache EXCEPT !.edad = @ + 1] ELSE SinFoto
  /\ UNCHANGED <<fase, lista, foto, reservas, remoto, perdidas>>

ProxmoxPaso(p) ==
  ProxmoxAcepta(p) \/ ProxmoxRechaza(p) \/ ProxmoxCompleta(p) \/ ProxmoxFalla(p)

Next ==
  \/ Tic
  \/ \E p \in Pedidos :
       \/ ProxmoxPaso(p)
       \/ Pedir(p) \/ TomarLock(p) \/ Rendirse(p)
       \/ LeerCache(p) \/ RespondeEstado(p) \/ RespondeLista(p) \/ RespondeStorages(p)
       \/ FallaLectura(p) \/ Validar(p) \/ Rechazar(p)
       \/ RespondeNextid(p) \/ NoDespachada(p)
       \/ CreacionAceptada(p) \/ CreacionIncierta(p) \/ ConfigResponde(p)
       \/ Soltar(p) \/ Caer(p) \/ LiberarReserva(p)

Spec == Init /\ [][Next]_vars

-------------------------------------------------------------------------------
(* Properties *)

Fases == Llamadas \cup {"nuevo", "lock", "capacidad", "validar", "soltar", "seguida", "fin"}

\* Every variable stays in its range, and the lock in its TTL.
TypeOK ==
  /\ fase \in [Pedidos -> Fases]
  /\ reloj \in [Pedidos -> 0 .. LimiteLlamada]
  /\ lista \in [Pedidos -> SUBSET [id : Pedidos, vmid : BOOLEAN]]
  /\ foto \in [Pedidos -> SUBSET Pedidos]
  /\ lock \in Pedidos \cup {Nadie}
  /\ edadLock \in 0 .. TtlLock - 1
  /\ reservas \subseteq [id : Pedidos, vmid : BOOLEAN]
  /\ cache \in [hay : BOOLEAN, instancias : SUBSET Pedidos, edad : 0 .. TtlCapacidad - 1]
  /\ remoto \in [Pedidos -> {"nada", "enviado", "pendiente", "visible", "rechazada", "fallida"}]
  /\ perdidas \subseteq Pedidos /\ vencido \in BOOLEAN

(***************************************************************************)
(* Concurrent creations and increases never put more RAM on the node than  *)
(* the host's headroom leaves (cuotas_service.go:219), counting all of     *)
(* them but those whose RAM the code lost sight of, and until a lock       *)
(* expires under its holder.                                               *)
(***************************************************************************)
Limite == NoNegativo(MemTotal - Headroom - Base)
Concedidas == {p \in Pedidos : remoto[p] \in {"pendiente", "visible"}}

SinSobreasignar == ~vencido => Suma(Concedidas \ perdidas) <= Limite

(***************************************************************************)
(* The same without exceptions: "para que una ampliación y una creación    *)
(* simultáneas no pasen las dos y sobrecarguen el nodo" (:219), "para      *)
(* impedir overbooking" (docs/redis.md:75).  The code does not do it.      *)
(***************************************************************************)
NuncaSobreasigna == Suma(Concedidas) <= Limite

(***************************************************************************)
(* A creation that Proxmox has or may have taken, and that the inventory   *)
(* does not show yet, has its reservation: nobody else's list overwrites   *)
(* it and no error path drops it (cuotas_service.go:44, "mantiene una      *)
(* reserva hasta que Proxmox confirme el resultado de la creación"), until *)
(* a lock expires under its holder.                                        *)
(***************************************************************************)
ReservaCubre == ~vencido => \A p \in Pedidos :
  Clase[p] = "crear" /\ SinDecidir(p) => p \in Ids(reservas)

(***************************************************************************)
(* The distributed decision amounts to an atomic one: what is admitted (it *)
(* is reserved, on its way or done) grows only by a request that fits with *)
(* all the rest, the lost ones apart, until a lock expires under its       *)
(* holder.                                                                 *)
(***************************************************************************)
Admitidos == Ids(reservas) \cup {p \in Pedidos : remoto[p] \in {"enviado", "pendiente", "visible"}}

Admision == INSTANCE Capacidad WITH
  admitidos <- IF vencido THEN {} ELSE Admitidos \ perdidas

CumpleCapacidad == Admision!CapacidadSpec
===============================================================================
