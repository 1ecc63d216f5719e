------------------------------ MODULE Dhcp_proofs ------------------------------
(***************************************************************************)
(* Theorems about module Dhcp, for tables of any size, any servers, leases *)
(* and retransmission counts, and a network that loses, repeats and delays *)
(* as it likes.  The lemmas about the sockets of net/udp.c come first,     *)
(* then the invariant of resources, then what the client may rely on while *)
(* it has an address, and before.                                          *)
(***************************************************************************)
EXTENDS Dhcp, FiniteSets, FiniteSetTheorems, TLAPS

-----------------------------------------------------------------------------
(* The timer table: a free slot is found when there is one, and no call of *)
(* timer.h takes the table out of its type.                                *)

\* The scan of a table for the first slot that fits finds one, if there is one: a
\* finite set of numbers that is not empty has a least element.
LEMMA LeastExists ==
  ASSUME NEW S \in SUBSET Int, IsFiniteSet(S), S # {}
  PROVE  \E n \in S : \A m \in S : n <= m
<1> DEFINE Below(n) == {m \in S : m < n}
           Sets == {Below(n) : n \in S}
<1>1. \A n \in S : Below(n) \in FiniteSubsetsOf(S)
  BY FS_Subset DEF FiniteSubsetsOf
<1>2. Sets \subseteq FiniteSubsetsOf(S) /\ Sets # {}
  BY <1>1
<1>3. IsWellFoundedOn(StrictSubsetOrdering(S), FiniteSubsetsOf(S))
  BY FS_StrictSubsetOrderingWellFounded
<1> HIDE DEF Sets
<1>4. PICK x \in Sets : \A y \in Sets : <<y, x>> \notin StrictSubsetOrdering(S)
  BY <1>2, <1>3, WFMin
<1> USE DEF Sets
<1>5. PICK n \in S : x = Below(n)
  BY <1>4
<1>6. ASSUME NEW m \in S, ~(n <= m)
      PROVE  FALSE
  <2>1. m \in Int /\ n \in Int /\ m < n
    BY <1>6
  <2>2. Below(m) \subseteq Below(n)
    <3>1. \A k \in S : k < m => k < n
      BY <2>1
    <3>2. QED
      BY <3>1
  <2>3. m \in Below(n) /\ m \notin Below(m)
    BY <2>1
  <2>4. <<Below(m), x>> \in StrictSubsetOrdering(S)
    BY <1>5, <2>2, <2>3 DEF StrictSubsetOrdering
  <2>5. QED
    BY <1>4, <2>4
<1>7. QED
  BY <1>6

\* timer_alloc finds the first free slot, or there is none (timer.c:142-144).
LEMMA AllocHandleFree ==
  ASSUME NEW pool
  PROVE  /\ FreeSlots(pool) = {} => AllocHandle(pool) = NoTimer
         /\ FreeSlots(pool) # {} =>
              /\ AllocHandle(pool) \in FreeSlots(pool)
              /\ AllocHandle(pool) \in Timers
<1>1. IsFiniteSet(FreeSlots(pool)) /\ FreeSlots(pool) \in SUBSET Int
  <2>1. IsFiniteSet(Timers) /\ Timers \in SUBSET Int
    BY FS_Interval, TimerMaxAssumption DEF Timers
  <2>2. FreeSlots(pool) \in SUBSET Timers
    BY DEF FreeSlots
  <2>3. QED
    BY <2>1, <2>2, FS_Subset
<1>2. ASSUME FreeSlots(pool) # {}
      PROVE  AllocHandle(pool) \in FreeSlots(pool)
  <2>1. \E t \in FreeSlots(pool) : \A u \in FreeSlots(pool) : t <= u
    BY <1>1, <1>2, LeastExists
  <2>2. QED
    BY <1>2, <2>1 DEF AllocHandle, Lowest
<1>3. QED
  BY <1>2 DEF AllocHandle, FreeSlots

\* timer_init leaves a table of its type.
LEMMA EmptyPoolType ==
  ASSUME NEW C, NEW A
  PROVE  EmptyPool \in PoolType(C, A)
BY DEF EmptyPool, EmptyEntry, PoolType, States, Modes

\* timer_alloc keeps the type of the table, whether it finds a slot or not.
LEMMA AllocType ==
  ASSUME NEW C, NEW A, NEW pool \in PoolType(C, A), NEW c \in C
  PROVE  Alloc(pool, c) \in PoolType(C, A)
BY AllocHandleFree DEF Alloc, PoolType, States

\* So does timer_set, whatever handle it is given.
LEMMA SetType ==
  ASSUME NEW C, NEW A, NEW pool \in PoolType(C, A), NEW t, NEW ms, NEW m \in Modes
  PROVE  Set(pool, t, ms, m) \in PoolType(C, A)
BY DEF Set, Valid, PoolType, States

\* So does timer_stop.
LEMMA StopType ==
  ASSUME NEW C, NEW A, NEW pool \in PoolType(C, A), NEW t
  PROVE  Stop(pool, t) \in PoolType(C, A)
BY DEF Stop, Valid, PoolType, States

\* So does timer_free.
LEMMA FreeType ==
  ASSUME NEW C, NEW A, NEW pool \in PoolType(C, A), NEW t
  PROVE  Free(pool, t) \in PoolType(C, A)
BY DEF Free, PoolType, States

\* So does the return of a callback to timer_tick (timer.c:67-75).
LEMMA AfterCallbackType ==
  ASSUME NEW C, NEW A, NEW pool \in PoolType(C, A), NEW t
  PROVE  AfterCallback(pool, t) \in PoolType(C, A)
BY DEF AfterCallback, PoolType, States


-----------------------------------------------------------------------------
(* The sockets.                                                            *)


\* udp_get_free_local_port always finds a port: there are more candidates than
\* sockets (the pigeonhole principle).
LEMMA FreeLocalPortOK ==
  ASSUME NEW u
  PROVE  FreeLocalPort(u) \in Nat /\ IsFreePort(u, FreeLocalPort(u))
<1> DEFINE Ports == FirstEphemeral .. FirstEphemeral + UdpSocketMax
           Free0 == {p \in Ports : IsFreePort(u, p)}
<1>1. /\ IsFiniteSet(Ports) /\ Cardinality(Ports) = UdpSocketMax + 1
      /\ IsFiniteSet(UdpSockets) /\ Cardinality(UdpSockets) = UdpSocketMax
  <2>1. FirstEphemeral \in Int /\ FirstEphemeral + UdpSocketMax \in Int
        /\ 0 \in Int /\ UdpSocketMax - 1 \in Int /\ UdpSocketMax \in Nat
    BY UdpAssumption
  <2>2. QED
    BY <2>1, FS_Interval DEF UdpSockets
<1>2. Free0 # {}
  <2> SUFFICES ASSUME \A p \in Ports : \E s \in UdpSockets : u[s].portLocal = p
               PROVE  FALSE
    BY DEF IsFreePort
  <2> DEFINE holder == [p \in Ports |-> CHOOSE s \in UdpSockets : u[s].portLocal = p]
  <2>1. holder \in [Ports -> UdpSockets]
    OBVIOUS
  <2>2. \A p \in Ports : u[holder[p]].portLocal = p
    OBVIOUS
  <2>3. Cardinality(UdpSockets) < Cardinality(Ports)
    BY <1>1, UdpAssumption
  <2> HIDE DEF holder, Ports
  <2>4. \E p, q \in Ports : p # q /\ holder[p] = holder[q]
    BY <1>1, <2>1, <2>3, FS_PigeonHole
  <2>5. QED
    BY <2>2, <2>4
<1>3. Ports \subseteq Nat
  BY UdpAssumption
<1>4. IsFiniteSet(Free0) /\ Free0 \in SUBSET Int
  <2> HIDE DEF Ports
  <2>1. Free0 \in SUBSET Ports
    OBVIOUS
  <2> HIDE DEF Free0
  <2>2. IsFiniteSet(Free0)
    BY <1>1, <2>1, FS_Subset
  <2>3. QED
    BY <1>3, <2>1, <2>2
<1>5. \E p \in Free0 : \A q \in Free0 : p <= q
  <2> HIDE DEF Free0, Ports
  <2>1. QED
    BY <1>2, <1>4, LeastExists
<1>6. Lowest(Free0) \in Free0
  BY <1>5 DEF Lowest
<1>7. FreeLocalPort(u) = Lowest(Free0)
  BY DEF FreeLocalPort, Ports
<1>8. QED
  BY <1>3, <1>6, <1>7

\* udp_socket_alloc hands out a socket nobody has, or none (udp.c:105-148).
LEMMA SocketForOK ==
  ASSUME NEW u, NEW port, SocketFor(u, port) # NoSocket
  PROVE  /\ SocketFor(u, port) \in UdpSockets
         /\ u[SocketFor(u, port)].callback = NoCallback
         /\ port = PortAny \/ IsFreePort(u, port)
<1>1. /\ FreeSockets(u) # {} /\ (port = PortAny \/ IsFreePort(u, port))
      /\ SocketFor(u, port) = Lowest(FreeSockets(u))
  BY DEF SocketFor
<1>2. IsFiniteSet(FreeSockets(u)) /\ FreeSockets(u) \in SUBSET Int
  <2>1. IsFiniteSet(UdpSockets) /\ UdpSockets \in SUBSET Int
    BY FS_Interval, UdpAssumption DEF UdpSockets
  <2>2. FreeSockets(u) \in SUBSET UdpSockets
    BY DEF FreeSockets
  <2>3. QED
    BY <2>1, <2>2, FS_Subset
<1>3. \E s \in FreeSockets(u) : \A r \in FreeSockets(u) : s <= r
  BY <1>1, <1>2, LeastExists
<1>4. Lowest(FreeSockets(u)) \in FreeSockets(u)
  BY <1>3 DEF Lowest
<1>5. QED
  BY <1>1, <1>4 DEF FreeSockets, Used

NewSocket(callback, p) ==
  [callback : {callback}, portLocal : {p}, portRemote : {0}, ipRemote : {ZeroIp}]

\* The one entry it writes: bound to a port that was free.
LEMMA AllocatedEntry ==
  ASSUME NEW u, NEW port \in Nat, NEW callback, SocketFor(u, port) # NoSocket
  PROVE  \E p \in Nat : \E new \in NewSocket(callback, p) :
           /\ IsFreePort(u, p)
           /\ SocketAlloc(u, port, callback) = [u EXCEPT ![SocketFor(u, port)] = new]
<1> DEFINE p == IF port = PortAny THEN FreeLocalPort(u) ELSE port
           new == [EmptySocket EXCEPT !.callback = callback, !.portLocal = p]
<1>1. p \in Nat /\ IsFreePort(u, p)
  BY FreeLocalPortOK, SocketForOK
<1>2. SocketAlloc(u, port, callback) = [u EXCEPT ![SocketFor(u, port)] = new]
  BY DEF SocketAlloc
<1> HIDE DEF p
<1>3. new \in NewSocket(callback, p)
  BY DEF EmptySocket, NewSocket
<1> HIDE DEF new
<1>4. QED
  BY <1>1, <1>2, <1>3

Owners == {"dhcp", "other"}

\* An allocation changes the owner of the socket it returns, and of no other.
LEMMA AllocLeads ==
  ASSUME NEW u \in UdpTable, NEW port \in Nat, NEW callback \in Owners,
         SocketFor(u, port) # NoSocket
  PROVE  LET v == SocketAlloc(u, port, callback)
         IN  /\ v \in UdpTable
             /\ UniquePorts(u) => UniquePorts(v)
             /\ \A s \in UdpSockets :
                  v[s].callback = IF s = SocketFor(u, port) THEN callback ELSE u[s].callback
<1> DEFINE h == SocketFor(u, port)
           v == SocketAlloc(u, port, callback)
<1>1. h \in UdpSockets
  BY SocketForOK
<1>2. PICK p \in Nat : \E new \in NewSocket(callback, p) :
           IsFreePort(u, p) /\ v = [u EXCEPT ![h] = new]
  BY AllocatedEntry
<1>3. PICK new \in NewSocket(callback, p) :
           IsFreePort(u, p) /\ v = [u EXCEPT ![h] = new]
  BY <1>2
<1> HIDE DEF h, v
<1>4. v \in UdpTable
  BY <1>1, <1>3 DEF UdpTable, Owners, NewSocket
<1>5. \A s \in UdpSockets : v[s].callback = IF s = h THEN callback ELSE u[s].callback
  BY <1>1, <1>3 DEF UdpTable, NewSocket
<1>6. ASSUME UniquePorts(u) PROVE UniquePorts(v)
  <2>1. \A s \in UdpSockets \ {h} : v[s] = u[s]
    BY <1>3 DEF UdpTable
  <2>2. v[h].portLocal = p
    BY <1>1, <1>3 DEF UdpTable, NewSocket
  <2>3. QED
    BY <1>3, <1>6, <2>1, <2>2 DEF UniquePorts, Used, IsFreePort
<1>7. QED
  BY <1>4, <1>5, <1>6 DEF h, v

\* Freeing a handle nobody checks can only free that socket (udp.c:150-156).
LEMMA FreeLeads ==
  ASSUME NEW u \in UdpTable, NEW h
  PROVE  LET v == SocketFree(u, h)
         IN  /\ v \in UdpTable
             /\ UniquePorts(u) => UniquePorts(v)
             /\ \A s \in UdpSockets :
                  v[s].callback = IF s = h THEN NoCallback ELSE u[s].callback
<1>1. SocketFree(u, h) \in UdpTable
  BY DEF SocketFree, UdpTable, EmptySocket
<1>2. \A s \in UdpSockets : SocketFree(u, h)[s] = IF s = h THEN EmptySocket ELSE u[s]
  BY DEF SocketFree, UdpTable
<1>3. QED
  BY <1>1, <1>2 DEF EmptySocket, UniquePorts, Used

\* Binding the remote end changes neither owners nor local ports.
LEMMA BindRemoteLeads ==
  ASSUME NEW u \in UdpTable, NEW h, NEW from \in Servers \union {ZeroIp}
  PROVE  LET v == BindRemote(u, h, UDP_PORT_BOOTPS, from)
         IN  /\ v \in UdpTable
             /\ UniquePorts(u) => UniquePorts(v)
             /\ \A s \in UdpSockets : v[s].callback = u[s].callback
<1> DEFINE v == BindRemote(u, h, UDP_PORT_BOOTPS, from)
<1>1. v \in UdpTable
  BY DEF BindRemote, UdpTable
<1>2. \A s \in UdpSockets : v[s].callback = u[s].callback /\ v[s].portLocal = u[s].portLocal
  BY DEF BindRemote, UdpTable
<1>3. QED
  BY <1>1, <1>2 DEF UniquePorts, Used

\* Moving to another port looks for the other sockets first (udp.c:290-312).
LEMMA BindLocalLeads ==
  ASSUME NEW u \in UdpTable, NEW h, NEW port \in Nat
  PROVE  LET v == BindLocal(u, h, port)
         IN  /\ v \in UdpTable
             /\ UniquePorts(u) => UniquePorts(v)
             /\ \A s \in UdpSockets : v[s].callback = u[s].callback
<1> DEFINE v == BindLocal(u, h, port)
<1>1. v \in UdpTable
  BY DEF BindLocal, CanBindLocal, UdpTable
<1>2. \A s \in UdpSockets : v[s].callback = u[s].callback
  BY DEF BindLocal, CanBindLocal, UdpTable
<1>3. ASSUME UniquePorts(u) PROVE UniquePorts(v)
  <2>1. CASE ~CanBindLocal(u, h, port)
    BY <1>3, <2>1 DEF BindLocal
  <2>2. CASE CanBindLocal(u, h, port)
    <3>1. h \in UdpSockets /\ (u[h].portLocal = port \/ IsFreePort(u, port))
      BY <2>2 DEF CanBindLocal
    <3>2. \A s \in UdpSockets : v[s].portLocal = IF s = h THEN port ELSE u[s].portLocal
      BY <2>2, <3>1 DEF BindLocal, UdpTable
    <3> HIDE DEF v
    <3>3. QED
      BY <1>2, <1>3, <3>1, <3>2 DEF UniquePorts, Used, IsFreePort
  <2>3. QED
    BY <2>1, <2>2
<1>4. QED
  BY <1>1, <1>2, <1>3

-----------------------------------------------------------------------------
(* The timer table, as this module uses it.                                *)

DhcpPool == PoolType(Owners, {NoArg})

LEMMA PoolIsTyped ==
  DhcpPool = [Timers -> [callback : {NoCallback, "dhcp", "other"}, arg : {NoArg},
                         state : States, mode : Modes]]
<1>1. Owners \union {NoCallback} = {NoCallback, "dhcp", "other"}
  BY DEF Owners
<1>2. {NoArg} \union {NoArg} = {NoArg}
  OBVIOUS
<1>3. QED
  BY <1>1, <1>2 DEF DhcpPool, PoolType

\* Only timer_alloc and timer_free change who owns a timer.
LEMMA SetLeads ==
  ASSUME NEW pool \in DhcpPool, NEW h, NEW ms, NEW m \in Modes
  PROVE  /\ Set(pool, h, ms, m) \in DhcpPool
         /\ \A t \in Timers : Set(pool, h, ms, m)[t].callback = pool[t].callback
<1>1. Set(pool, h, ms, m) \in DhcpPool
  BY SetType DEF DhcpPool
<1>2. QED
  BY <1>1 DEF Set, Valid, DhcpPool, PoolType

LEMMA StopLeads ==
  ASSUME NEW pool \in DhcpPool, NEW h
  PROVE  /\ Stop(pool, h) \in DhcpPool
         /\ \A t \in Timers : Stop(pool, h)[t].callback = pool[t].callback
<1>1. Stop(pool, h) \in DhcpPool
  BY StopType DEF DhcpPool
<1>2. QED
  BY <1>1 DEF Stop, Valid, DhcpPool, PoolType

LEMMA ReturnLeads ==
  ASSUME NEW pool \in DhcpPool, NEW h
  PROVE  /\ AfterCallback(pool, h) \in DhcpPool
         /\ \A t \in Timers : AfterCallback(pool, h)[t].callback = pool[t].callback
<1>1. AfterCallback(pool, h) \in DhcpPool
  BY AfterCallbackType DEF DhcpPool
<1>2. QED
  BY <1>1 DEF AfterCallback, DhcpPool, PoolType

LEMMA FreeTimerLeads ==
  ASSUME NEW pool \in DhcpPool, NEW h
  PROVE  /\ Free(pool, h) \in DhcpPool
         /\ \A t \in Timers :
              Free(pool, h)[t].callback = IF t = h THEN NoCallback ELSE pool[t].callback
<1>1. Free(pool, h) \in DhcpPool
  BY FreeType DEF DhcpPool
<1>2. QED
  BY <1>1 DEF Free, DhcpPool, PoolType

LEMMA AllocTimerLeads ==
  ASSUME NEW pool \in DhcpPool, NEW callback \in Owners, AllocHandle(pool) # NoTimer
  PROVE  /\ AllocHandle(pool) \in Timers /\ pool[AllocHandle(pool)].callback = NoCallback
         /\ Alloc(pool, callback) \in DhcpPool
         /\ \A t \in Timers :
              Alloc(pool, callback)[t].callback =
                IF t = AllocHandle(pool) THEN callback ELSE pool[t].callback
<1>1. AllocHandle(pool) \in Timers /\ AllocHandle(pool) \in FreeSlots(pool)
  BY AllocHandleFree
<1>2. Alloc(pool, callback) \in DhcpPool
  BY AllocType DEF DhcpPool
<1>3. QED
  BY <1>1, <1>2 DEF Alloc, FreeSlots, DhcpPool, PoolType

-----------------------------------------------------------------------------
(* The invariant.                                                          *)

\* A client that runs uses an address that was leased to it, or none.
AddressLeased == client.callback => ip.addr \in Leased \union {ZeroIp}

\* ResourcesHeld, slot by slot.
Held ==
  /\ client.callback => client.socket \in UdpSockets /\ client.timer \in Timers
  /\ \A s \in UdpSockets :
       sockets[s].callback = "dhcp" <=> client.callback /\ s = client.socket
  /\ \A t \in Timers :
       timers[t].callback = "dhcp" <=> client.callback /\ t = client.timer

HeldInv == TypeOK /\ AddressLeased /\ Held /\ PortsUnique

\* What a step that neither takes nor gives back has to leave as it is.
LEMMA KeepsHeld ==
  ASSUME Held, client'.callback = client.callback,
         client'.socket = client.socket, client'.timer = client.timer,
         \A s \in UdpSockets : sockets'[s].callback = sockets[s].callback,
         \A t \in Timers : timers'[t].callback = timers[t].callback
  PROVE  Held'
BY DEF Held

\* What a step that ends the client must do: give back both, and only those.
LEMMA EndsHeld ==
  ASSUME Held, client' = ZeroClient,
         \A s \in UdpSockets :
           sockets'[s].callback = IF s = client.socket THEN NoCallback ELSE sockets[s].callback,
         \A t \in Timers :
           timers'[t].callback = IF t = client.timer THEN NoCallback ELSE timers[t].callback
  PROVE  Held'
<1>1. ~client'.callback
  BY DEF ZeroClient
<1>2. \A s \in UdpSockets : sockets'[s].callback # "dhcp"
  BY DhcpAssumption DEF Held
<1>3. \A t \in Timers : timers'[t].callback # "dhcp"
  BY DhcpAssumption DEF Held
<1>4. QED
  BY <1>1, <1>2, <1>3 DEF Held

LEMMA ZeroClientTyped == ZeroClient \in Client
<1>1. 0 \in UdpSockets /\ 0 \in Timers
  BY UdpAssumption, TimerMaxAssumption DEF UdpSockets, Timers
<1>2. QED
  BY <1>1 DEF ZeroClient, Client, ClientStates

\* The fields of the client's record, named so that a leaf need not look into them.
MaySocket == UdpSockets \union {NoSocket}
MayTimer  == Timers \union {NoTimer}
MayAddr   == Leased \union {ZeroIp}
MayServer == Servers \union {ZeroIp}
MayMask   == {NetMask, ZeroIp}
MayCount  == 0 .. 255
MayTime   == LeaseTimes \union {0}

LEMMA ClientForm ==
  Client = [state : ClientStates, callback : BOOLEAN, socket : MaySocket, timer : MayTimer,
            addr : MayAddr, server : MayServer, gateway : MayServer, netmask : MayMask,
            rtx : MayCount, rebind : MayTime]
BY DEF Client, MaySocket, MayTimer, MayAddr, MayServer, MayMask, MayCount, MayTime

\* A step from state to state, with its count of messages.
LEMMA StateUpdated ==
  ASSUME NEW c \in Client, NEW state \in ClientStates, NEW rtx \in 0 .. 255
  PROVE  [c EXCEPT !.state = state, !.rtx = rtx] \in Client
<1>1. rtx \in MayCount
  BY DEF MayCount
<1>2. QED
  BY <1>1, ClientForm

\* What dhcp_start writes, whether it succeeds or not.
LEMMA SlotsUpdated ==
  ASSUME NEW c \in Client, NEW s \in MaySocket, NEW t \in MayTimer
  PROVE  /\ [c EXCEPT !.socket = s, !.timer = t, !.callback = TRUE] \in Client
         /\ [c EXCEPT !.socket = s, !.timer = t] \in Client
         /\ [c EXCEPT !.socket = s] \in Client
<1>1. [c EXCEPT !.socket = s, !.timer = t, !.callback = TRUE] \in Client
  BY ClientForm
<1>2. [c EXCEPT !.socket = s, !.timer = t] \in Client
  BY ClientForm
<1>3. [c EXCEPT !.socket = s] \in Client
  BY ClientForm
<1>4. QED
  BY <1>1, <1>2, <1>3

\* What dhcp_parse_options writes.
LEMMA LeaseUpdated ==
  ASSUME NEW c \in Client, NEW addr \in MayAddr, NEW from \in MayServer,
         NEW mask \in MayMask, NEW time \in MayTime
  PROVE  /\ [c EXCEPT !.addr = addr, !.server = from] \in Client
         /\ [c EXCEPT !.addr = addr, !.server = from, !.gateway = from,
                      !.netmask = mask, !.rebind = time] \in Client
<1>1. [c EXCEPT !.addr = addr, !.server = from] \in Client
  BY ClientForm
<1>2. [c EXCEPT !.addr = addr, !.server = from, !.gateway = from,
                !.netmask = mask, !.rebind = time] \in Client
  BY ClientForm
<1>3. QED
  BY <1>1, <1>2

\* The addresses of ip.c that the client's steps set.
LEMMA ConfigsTyped ==
  /\ ZeroConfig \in Configs /\ ZeroIp \in Addresses
  /\ StaticConfig \in Configs
  /\ Leased \subseteq Addresses /\ Servers \subseteq Addresses
  /\ {NetMask, ZeroIp} \subseteq Masks
<1>1. ZeroIp \in Addresses /\ ZeroIp \in Masks
  BY AddressAssumption DEF ZeroIp, Addresses, Masks
<1>2. ZeroConfig \in Configs
  BY <1>1 DEF ZeroConfig, Configs
<1>3. Leased \subseteq Addresses
  BY DhcpAssumption DEF Leased
<1>4. QED
  BY <1>1, <1>2, <1>3, DhcpAssumption

LEMMA HeldInit ==
  ASSUME Init
  PROVE  HeldInv
<1>1. NoSockets \in UdpTable /\ UniquePorts(NoSockets)
  BY DEF NoSockets, EmptySocket, UdpTable, UniquePorts, Used
<1>2. \A s \in UdpSockets : NoSockets[s].callback = NoCallback
  BY DEF NoSockets, EmptySocket
<1>3. EmptyPool \in DhcpPool /\ \A t \in Timers : EmptyPool[t].callback = NoCallback
  BY EmptyPoolType DEF DhcpPool, EmptyPool, EmptyEntry
<1>4. AllocHandle(EmptyPool) # NoTimer
  <2>1. 0 \in FreeSlots(EmptyPool)
    BY <1>3, TimerMaxAssumption DEF FreeSlots, Timers
  <2>2. AllocHandle(EmptyPool) \in Timers
    BY <2>1, AllocHandleFree
  <2>3. QED
    BY <2>2, TimerMaxAssumption DEF Timers, NoTimer
<1>5. /\ Alloc(EmptyPool, "other") \in DhcpPool
      /\ \A t \in Timers : Alloc(EmptyPool, "other")[t].callback \in {NoCallback, "other"}
  BY <1>3, <1>4, AllocTimerLeads DEF Owners
<1>6. /\ timers \in DhcpPool
      /\ \A t \in Timers : timers[t].callback # "dhcp"
  <2>1. "one_shot" \in Modes
    BY DEF Modes
  <2>2. QED
    BY <1>5, <2>1, SetLeads, DhcpAssumption DEF Init
<1>7. client \in Client /\ ~client.callback
  BY ZeroClientTyped DEF Init, ZeroClient
<1>8. TypeOK
  BY <1>1, <1>6, <1>7, PoolIsTyped, ConfigsTyped DEF Init, TypeOK
<1>9. Held
  BY <1>2, <1>6, <1>7, DhcpAssumption DEF Init, Held
<1>10. QED
  BY <1>1, <1>7, <1>8, <1>9 DEF Init, HeldInv, AddressLeased, PortsUnique

-----------------------------------------------------------------------------
(* The steps.                                                              *)

\* The parts of the type that a step of the client has to establish anew.
LEMMA TypeParts ==
  ASSUME client' \in Client, ip' \in Configs, sockets' \in UdpTable, timers' \in DhcpPool,
         sent' \subseteq Messages, granted' \in (Leased \X Servers) \union {<<>>}
  PROVE  TypeOK'
<1>1. timers' \in [Timers -> [callback : {NoCallback, "dhcp", "other"}, arg : {NoArg},
                              state : States, mode : Modes]]
  BY PoolIsTyped
<1>2. QED
  BY <1>1 DEF TypeOK

LEMMA PoolTyped ==
  ASSUME TypeOK
  PROVE  timers \in DhcpPool
<1>1. timers \in [Timers -> [callback : {NoCallback, "dhcp", "other"}, arg : {NoArg},
                             state : States, mode : Modes]]
  BY DEF TypeOK
<1>2. QED
  BY <1>1, PoolIsTyped

\* dhcp_start takes a socket and a timer, and only when it can have both.
LEMMA StartHeld ==
  ASSUME HeldInv, dhcp_start
  PROVE  HeldInv'
<1> DEFINE s == SocketFor(sockets, PortAny)
           t == AllocHandle(timers)
           pool == Alloc(timers, "dhcp")
<1>0. TypeOK /\ Held /\ PortsUnique /\ timers \in DhcpPool /\ sockets \in UdpTable
  BY PoolTyped DEF HeldInv, TypeOK
<1>1. /\ ~client.callback /\ s # NoSocket /\ t # NoTimer
      /\ client' = [ZeroClient EXCEPT !.socket = s, !.timer = t, !.callback = TRUE]
      /\ sockets' = SocketAlloc(sockets, PortAny, "dhcp")
      /\ timers' = Set(pool, t, 10, "one_shot")
      /\ ip' = ZeroConfig
      /\ sent' = sent /\ granted' = granted
  BY DEF dhcp_start
<1>2. "dhcp" \in Owners /\ PortAny \in Nat /\ "one_shot" \in Modes
  BY DEF Owners, PortAny, Modes
<1>3. /\ s \in UdpSockets /\ sockets' \in UdpTable /\ UniquePorts(sockets')
      /\ \A r \in UdpSockets :
           sockets'[r].callback = IF r = s THEN "dhcp" ELSE sockets[r].callback
  <2>1. s \in UdpSockets
    BY <1>1, SocketForOK
  <2>2. QED
    BY <1>0, <1>1, <1>2, <2>1, AllocLeads DEF PortsUnique
<1>4. /\ t \in Timers /\ pool \in DhcpPool
      /\ \A u \in Timers : pool[u].callback = IF u = t THEN "dhcp" ELSE timers[u].callback
  BY <1>0, <1>1, <1>2, AllocTimerLeads
<1> HIDE DEF s, t, pool
<1>5. /\ timers' \in DhcpPool
      /\ \A u \in Timers : timers'[u].callback = pool[u].callback
  BY <1>1, <1>2, <1>4, SetLeads
<1>6. client' \in Client /\ client'.callback /\ client'.socket = s /\ client'.timer = t
  <2>1. ZeroClient \in Client
    BY ZeroClientTyped
  <2>2. s \in MaySocket /\ t \in MayTimer
    BY <1>3, <1>4 DEF MaySocket, MayTimer
  <2>3. client' \in Client
    BY <1>1, <2>1, <2>2, SlotsUpdated
  <2>4. client'.callback
    BY <1>1 DEF ZeroClient
  <2>5. client'.socket = s /\ client'.timer = t
    BY <1>1 DEF ZeroClient
  <2>6. QED
    BY <2>3, <2>4, <2>5
<1>7. TypeOK'
  BY <1>0, <1>1, <1>3, <1>5, <1>6, ConfigsTyped, TypeParts DEF TypeOK
<1>8. Held'
  BY <1>0, <1>1, <1>3, <1>4, <1>5, <1>6 DEF Held
<1>9. AddressLeased'
  BY <1>1 DEF AddressLeased, ZeroConfig
<1>10. QED
  BY <1>3, <1>7, <1>8, <1>9 DEF HeldInv, PortsUnique

\* A failed start leaves both tables to the others.
LEMMA FailedStartHeld ==
  ASSUME HeldInv, StartWithoutSocket \/ StartWithoutTimer
  PROVE  HeldInv'
<1>0. TypeOK /\ Held /\ PortsUnique /\ timers \in DhcpPool /\ sockets \in UdpTable
  BY PoolTyped DEF HeldInv, TypeOK
<1>1. ~client.callback /\ ip' = ip /\ timers' = timers /\ sent' = sent /\ granted' = granted
  BY DEF StartWithoutSocket, StartWithoutTimer
<1>2. \A s \in UdpSockets : sockets[s].callback # "dhcp"
  BY <1>0, <1>1 DEF Held
<1>3. \A t \in Timers : timers[t].callback # "dhcp"
  BY <1>0, <1>1 DEF Held
<1>4. /\ sockets' \in UdpTable /\ UniquePorts(sockets')
      /\ \A s \in UdpSockets : sockets'[s].callback # "dhcp"
      /\ client' \in Client /\ ~client'.callback
  <2>0. ZeroClient \in Client
    BY ZeroClientTyped
  <2>1. CASE StartWithoutSocket
    <3>1. sockets' = sockets /\ client' = [ZeroClient EXCEPT !.socket = NoSocket]
      BY <2>1 DEF StartWithoutSocket
    <3>2. client' \in Client
      <4>1. NoSocket \in MaySocket /\ NoTimer \in MayTimer
        BY DEF MaySocket, MayTimer
      <4>2. QED
        BY <2>0, <3>1, <4>1, SlotsUpdated
    <3>3. ~client'.callback
      BY <3>1 DEF ZeroClient
    <3>4. QED
      BY <1>0, <1>2, <3>1, <3>2, <3>3 DEF PortsUnique
  <2>2. CASE StartWithoutTimer
    <3> DEFINE s == SocketFor(sockets, PortAny)
               taken == SocketAlloc(sockets, PortAny, "dhcp")
    <3>1. /\ s # NoSocket /\ sockets' = SocketFree(taken, s)
          /\ client' = [ZeroClient EXCEPT !.socket = s, !.timer = NoTimer]
      BY <2>2 DEF StartWithoutTimer
    <3>2. "dhcp" \in Owners /\ PortAny \in Nat
      BY DEF Owners, PortAny
    <3>3. /\ taken \in UdpTable /\ UniquePorts(taken)
          /\ \A r \in UdpSockets :
               taken[r].callback = IF r = s THEN "dhcp" ELSE sockets[r].callback
      BY <1>0, <3>1, <3>2, AllocLeads DEF PortsUnique
    <3>4. s \in UdpSockets
      BY <3>1, SocketForOK
    <3> HIDE DEF s, taken
    <3>5. /\ sockets' \in UdpTable /\ UniquePorts(sockets')
          /\ \A r \in UdpSockets :
               sockets'[r].callback = IF r = s THEN NoCallback ELSE taken[r].callback
      BY <3>1, <3>3, FreeLeads
    <3>6. \A r \in UdpSockets : sockets'[r].callback # "dhcp"
      BY <1>2, <3>3, <3>5, DhcpAssumption
    <3>7. client' \in Client
      <4>1. s \in MaySocket /\ NoTimer \in MayTimer
        BY <3>4 DEF MaySocket, MayTimer
      <4>2. QED
        BY <2>0, <3>1, <4>1, SlotsUpdated
    <3>8. ~client'.callback
      BY <3>1 DEF ZeroClient
    <3>9. QED
      BY <3>5, <3>6, <3>7, <3>8
  <2>3. QED
    BY <2>1, <2>2
<1>5. TypeOK'
  BY <1>0, <1>1, <1>4, TypeParts DEF TypeOK
<1>6. Held'
  BY <1>1, <1>3, <1>4 DEF Held
<1>7. QED
  BY <1>4, <1>5, <1>6 DEF HeldInv, AddressLeased, PortsUnique

\* dhcp_free, with the timer freed as well, whatever else is done to the timers.
LEMMA FreedHeld ==
  ASSUME HeldInv, Freed, timers' \in DhcpPool,
         \A t \in Timers :
           timers'[t].callback = IF t = client.timer THEN NoCallback ELSE timers[t].callback,
         ip' \in Configs, sent' = sent, granted' = granted
  PROVE  HeldInv'
<1>0. TypeOK /\ Held /\ PortsUnique /\ sockets \in UdpTable
  BY DEF HeldInv, TypeOK
<1>1. client' = ZeroClient /\ sockets' = SocketFree(sockets, client.socket)
  BY DEF Freed
<1>2. /\ sockets' \in UdpTable /\ UniquePorts(sockets')
      /\ \A s \in UdpSockets :
           sockets'[s].callback = IF s = client.socket THEN NoCallback ELSE sockets[s].callback
  BY <1>0, <1>1, FreeLeads DEF PortsUnique
<1>3. Held'
  BY <1>0, <1>1, <1>2, EndsHeld
<1>4. TypeOK'
  BY <1>0, <1>1, <1>2, ZeroClientTyped, TypeParts DEF TypeOK
<1>5. ~client'.callback
  BY <1>1 DEF ZeroClient
<1>6. QED
  BY <1>2, <1>3, <1>4, <1>5 DEF HeldInv, AddressLeased, PortsUnique

\* A step that keeps the client's socket and timer.
LEMMA KeptHeld ==
  ASSUME HeldInv, client.callback, client' \in Client,
         client'.callback = client.callback,
         client'.socket = client.socket, client'.timer = client.timer,
         sockets' \in UdpTable, UniquePorts(sockets'),
         \A s \in UdpSockets : sockets'[s].callback = sockets[s].callback,
         timers' \in DhcpPool,
         \A t \in Timers : timers'[t].callback = timers[t].callback,
         ip' \in Configs, ip'.addr \in Leased \union {ZeroIp},
         sent' \subseteq Messages, granted' \in (Leased \X Servers) \union {<<>>}
  PROVE  HeldInv'
<1>1. Held'
  BY KeepsHeld DEF HeldInv
<1>2. TypeOK'
  BY TypeParts
<1>3. QED
  BY <1>1, <1>2 DEF HeldInv, AddressLeased, PortsUnique

\* A message goes out from port 68, if it can, and the timer is set for the next.
LEMMA SendHeld ==
  ASSUME HeldInv, client.callback, NEW c \in Client, SentAndArmed(c), granted' = granted,
         c.callback = client.callback, c.socket = client.socket, c.timer = client.timer
  PROVE  HeldInv'
<1>0. /\ TypeOK /\ PortsUnique /\ sockets \in UdpTable /\ timers \in DhcpPool
      /\ ip.addr \in Leased \union {ZeroIp}
  BY PoolTyped DEF HeldInv, TypeOK, AddressLeased
<1>1. /\ client' = c /\ dhcp_send(c) /\ ip' = ip
      /\ timers' = AfterCallback(Set(timers, c.timer, 1000, "one_shot"), c.timer)
  BY DEF SentAndArmed
<1>2. /\ sockets' \in UdpTable /\ UniquePorts(sockets')
      /\ \A s \in UdpSockets : sockets'[s].callback = sockets[s].callback
  <2> DEFINE u == BindLocal(sockets, c.socket, UDP_PORT_BOOTPC)
             from == IF c.state = "rebinding" THEN c.server ELSE ZeroIp
  <2>1. /\ u \in UdpTable /\ UniquePorts(u)
        /\ \A s \in UdpSockets : u[s].callback = sockets[s].callback
    <3>1. UDP_PORT_BOOTPC \in Nat
      BY DEF UDP_PORT_BOOTPC
    <3>2. QED
      BY <1>0, <3>1, BindLocalLeads DEF PortsUnique
  <2>2. from \in Servers \union {ZeroIp}
    BY DEF Client
  <2>3. \/ sockets' = sockets
        \/ sockets' = BindRemote(u, c.socket, UDP_PORT_BOOTPS, from)
    BY <1>1 DEF dhcp_send, BoundForSend
  <2> HIDE DEF u, from
  <2>4. QED
    BY <1>0, <2>1, <2>2, <2>3, BindRemoteLeads DEF PortsUnique
<1>3. sent' \subseteq Messages
  <2>1. Message(c) \in Messages
    BY <1>0 DEF Message, Messages, Client
  <2>2. sent' = sent \/ sent' = sent \union {Message(c)}
    BY <1>1 DEF dhcp_send
  <2>3. QED
    BY <1>0, <2>1, <2>2 DEF TypeOK
<1>4. timers' \in DhcpPool /\ \A t \in Timers : timers'[t].callback = timers[t].callback
  <2>1. "one_shot" \in Modes
    BY DEF Modes
  <2>2. QED
    BY <1>0, <1>1, <2>1, SetLeads, ReturnLeads
<1>5. QED
  BY <1>0, <1>1, <1>2, <1>3, <1>4, KeptHeld DEF TypeOK

\* What any server may answer to anything the client has sent.
LEMMA AnswerTyped ==
  ASSUME NEW m, NEW s \in Servers, NEW answer \in Answers(s, m)
  PROVE  /\ answer.from \in Servers /\ answer.addr \in Leased \union {ZeroIp}
         /\ answer.type = "NAK" \/ answer.addr \in Leased
<1> DEFINE reply(type) == [type |-> type, from |-> s,
                           addr |-> IF type = "NAK" THEN ZeroIp ELSE LeaseOf[s],
                           dst |-> IF m.ciaddr = ZeroIp THEN AllOnes ELSE m.ciaddr]
<1>1. answer \in {reply("OFFER"), reply("NAK"), reply("ACK")}
  BY DEF Answers
<1>2. LeaseOf[s] \in Leased
  BY DEF Leased
<1>3. QED
  BY <1>1, <1>2

\* Reading the options into the client moves neither its socket nor its timer.
LEMMA ParsedTyped ==
  ASSUME client \in Client, NEW answer, answer.from \in Servers,
         answer.addr \in Leased \union {ZeroIp}
  PROVE  /\ Parsed(answer) \in Client
         /\ Parsed(answer).callback = client.callback
         /\ Parsed(answer).socket = client.socket /\ Parsed(answer).timer = client.timer
         /\ Parsed(answer).addr = answer.addr
         /\ answer.type # "NAK" => /\ Parsed(answer).netmask = NetMask
                                   /\ Parsed(answer).gateway = answer.from
<1>1. /\ answer.addr \in MayAddr /\ answer.from \in MayServer
      /\ NetMask \in MayMask /\ LeaseTime[answer.from] \in MayTime
  BY DEF LeaseTimes, MayAddr, MayServer, MayMask, MayTime
<1>2. CASE answer.type = "NAK"
  <2>1. Parsed(answer) = [client EXCEPT !.addr = answer.addr, !.server = answer.from]
    BY <1>2 DEF Parsed
  <2>2. Parsed(answer) \in Client
    BY <1>1, <2>1, LeaseUpdated, ZenonT(60)
  <2>3. /\ Parsed(answer).callback = client.callback
        /\ Parsed(answer).socket = client.socket /\ Parsed(answer).timer = client.timer
    BY <2>1 DEF Client
  <2>4. Parsed(answer).addr = answer.addr
    BY <2>1 DEF Client
  <2>5. QED
    BY <1>2, <2>2, <2>3, <2>4
<1>3. CASE answer.type # "NAK"
  <2>1. Parsed(answer) = [client EXCEPT !.addr = answer.addr, !.server = answer.from,
                                        !.gateway = answer.from, !.netmask = NetMask,
                                        !.rebind = LeaseTime[answer.from]]
    BY <1>3 DEF Parsed
  <2>2. Parsed(answer) \in Client
    <3>1. [client EXCEPT !.addr = answer.addr, !.server = answer.from,
                         !.gateway = answer.from, !.netmask = NetMask,
                         !.rebind = LeaseTime[answer.from]] \in Client
      BY <1>1, LeaseUpdated
    <3>2. QED
      BY <2>1, <3>1
  <2>3. /\ Parsed(answer).callback = client.callback
        /\ Parsed(answer).socket = client.socket /\ Parsed(answer).timer = client.timer
    BY <2>1 DEF Client
  <2>4. /\ Parsed(answer).addr = answer.addr
        /\ Parsed(answer).netmask = NetMask /\ Parsed(answer).gateway = answer.from
    BY <2>1 DEF Client
  <2>5. QED
    BY <2>2, <2>3, <2>4
<1>4. QED
  BY <1>2, <1>3

\* Whatever arrives, and whenever, the client keeps what it holds or gives it back.
LEMMA ReceiveHeld ==
  ASSUME HeldInv, NEW answer, dhcp_udp_callback(answer), answer.from \in Servers,
         answer.addr \in Leased \union {ZeroIp},
         answer.type = "NAK" \/ answer.addr \in Leased
  PROVE  HeldInv'
<1> DEFINE c == Parsed(answer)
<1>0. /\ TypeOK /\ PortsUnique /\ sockets \in UdpTable /\ timers \in DhcpPool
      /\ client.callback /\ ip.addr \in Leased \union {ZeroIp}
  <2>1. client.callback
    BY DEF dhcp_udp_callback, ReceiveIgnored, ReceiveOffer, ReceiveNak, ReceiveAck, Arrives
  <2>2. QED
    BY <2>1, PoolTyped DEF HeldInv, TypeOK, AddressLeased
<1>1. c \in Client /\ c.callback = client.callback /\ c.socket = client.socket
      /\ c.timer = client.timer /\ c.addr = answer.addr
      /\ (answer.type # "NAK" => c.netmask = NetMask /\ c.gateway = answer.from)
  BY <1>0, ParsedTyped DEF TypeOK
<1>2. /\ SocketsOf(answer) \in UdpTable /\ UniquePorts(SocketsOf(answer))
      /\ \A s \in UdpSockets : SocketsOf(answer)[s].callback = sockets[s].callback
  BY <1>0, BindRemoteLeads DEF SocketsOf, Delivered, PortsUnique
<1>3. "one_shot" \in Modes
  BY DEF Modes
<1> HIDE DEF c
<1>4. CASE ReceiveIgnored(answer)
  <2>1. /\ client' = c /\ sockets' = SocketsOf(answer)
        /\ ip' = ip /\ timers' = timers /\ sent' = sent /\ granted' = granted
    BY <1>4 DEF ReceiveIgnored, c
  <2>2. /\ client' \in Client /\ client'.callback = client.callback
        /\ client'.socket = client.socket /\ client'.timer = client.timer
    BY <1>1, <2>1
  <2>3. /\ ip' \in Configs /\ sent' \subseteq Messages
        /\ granted' \in (Leased \X Servers) \union {<<>>}
    BY <1>0, <2>1 DEF TypeOK
  <2>4. QED
    BY <1>0, <1>2, <2>1, <2>2, <2>3, KeptHeld
<1>5. CASE ReceiveOffer(answer)
  <2>1. /\ client' = [c EXCEPT !.state = "requesting", !.rtx = 255]
        /\ sockets' = SocketsOf(answer) /\ UNCHANGED <<ip, sent, granted>>
        /\ timers' = Set(timers, client.timer, 1, "one_shot")
    BY <1>5 DEF ReceiveOffer, c
  <2>2. client' \in Client
    <3>1. "requesting" \in ClientStates /\ 255 \in 0 .. 255
      BY DEF ClientStates
    <3>2. QED
      BY <1>1, <2>1, <3>1, StateUpdated
  <2>3. /\ client'.callback = c.callback
        /\ client'.socket = c.socket /\ client'.timer = c.timer
    BY <1>1, <2>1 DEF Client
  <2>4. /\ client'.callback = client.callback
        /\ client'.socket = client.socket /\ client'.timer = client.timer
    BY <1>1, <2>3, Zenon
  <2>5. timers' \in DhcpPool /\ \A t \in Timers : timers'[t].callback = timers[t].callback
    BY <1>0, <1>3, <2>1, SetLeads
  <2>6. QED
    BY <1>0, <1>2, <2>1, <2>2, <2>4, <2>5, KeptHeld DEF TypeOK
<1>6. CASE ReceiveNak(answer)
  <2>1. Freed /\ timers' = Free(timers, client.timer) /\ UNCHANGED <<ip, sent, granted>>
    BY <1>6 DEF ReceiveNak
  <2>2. /\ timers' \in DhcpPool
        /\ \A t \in Timers :
             timers'[t].callback = IF t = client.timer THEN NoCallback ELSE timers[t].callback
    BY <1>0, <2>1, FreeTimerLeads
  <2>3. QED
    BY <1>0, <2>1, <2>2, FreedHeld DEF TypeOK
<1>7. CASE ReceiveAck(answer)
  <2>1. /\ answer.type = "ACK" /\ client' = [c EXCEPT !.state = "bound"]
        /\ ip' = [addr |-> c.addr, netmask |-> c.netmask, gateway |-> c.gateway]
        /\ timers' = Set(timers, c.timer, Milliseconds(c.rebind), "one_shot")
        /\ sockets' = SocketsOf(answer) /\ sent' = sent
        /\ granted' = <<answer.addr, answer.from>>
    BY <1>7 DEF ReceiveAck, c
  <2>2. client' \in Client
    BY <1>1, <2>1 DEF Client, ClientStates
  <2>3. /\ client'.callback = c.callback
        /\ client'.socket = c.socket /\ client'.timer = c.timer
    BY <1>1, <2>1 DEF Client
  <2>4. /\ client'.callback = client.callback
        /\ client'.socket = client.socket /\ client'.timer = client.timer
    BY <1>1, <2>3, Zenon
  <2>5. timers' \in DhcpPool /\ \A t \in Timers : timers'[t].callback = timers[t].callback
    BY <1>0, <1>3, <2>1, SetLeads
  <2>6. ip' \in Configs /\ ip'.addr \in Leased
    BY <1>1, <2>1, ConfigsTyped DEF Configs
  <2>7. sent' \subseteq Messages /\ granted' \in (Leased \X Servers) \union {<<>>}
    BY <1>0, <2>1 DEF TypeOK
  <2>8. QED
    BY <1>0, <1>2, <2>1, <2>2, <2>4, <2>5, <2>6, <2>7, KeptHeld
<1>8. QED
  BY <1>4, <1>5, <1>6, <1>7 DEF dhcp_udp_callback

\* The client's step when its timer expires: a message, or the end.
LEMMA TimerHeld ==
  ASSUME HeldInv, DhcpTimer
  PROVE  HeldInv'
<1>0. /\ TypeOK /\ client \in Client /\ timers \in DhcpPool
      /\ client.callback /\ granted' = granted
  <2>1. client.callback /\ granted' = granted
    BY DEF DhcpTimer, TimerDiscover, TimerRequest, DhcpTimerRuns
  <2>2. QED
    BY <2>1, PoolTyped DEF HeldInv, TypeOK
<1> DEFINE count == IF client.state = "init" THEN 0 ELSE (client.rtx + 1) % 256
           again == IF client.state = "bound" THEN 0 ELSE (client.rtx + 1) % 256
<1>1. count \in 0 .. 255 /\ again \in 0 .. 255
  BY <1>0 DEF Client
<1>2. CASE TimerDiscover
  <2> DEFINE c == [client EXCEPT !.state = "selecting", !.rtx = count]
  <2>1. /\ c.rtx <= DHCP_RTX => SentAndArmed(c)
        /\ ~(c.rtx <= DHCP_RTX) =>
             /\ Freed /\ ip' = StaticConfig /\ sent' = sent
             /\ timers' = AfterCallback(Free(timers, client.timer), client.timer)
    <3>1. c = [client EXCEPT !.state = "selecting",
                             !.rtx = IF client.state = "init" THEN 0 ELSE (@ + 1) % 256]
      BY <1>0 DEF Client
    <3>2. QED
      BY <1>2, <3>1 DEF TimerDiscover
  <2> HIDE DEF count
  <2>2. c \in Client
    <3>1. "selecting" \in ClientStates
      BY DEF ClientStates
    <3>2. QED
      BY <1>0, <1>1, <3>1, StateUpdated
  <2>3. c.callback = client.callback /\ c.socket = client.socket /\ c.timer = client.timer
    BY <1>0 DEF Client
  <2> HIDE DEF c
  <2>4. CASE c.rtx <= DHCP_RTX
    BY <1>0, <2>1, <2>2, <2>3, <2>4, SendHeld
  <2>5. CASE ~(c.rtx <= DHCP_RTX)
    <3>1. /\ timers' \in DhcpPool
          /\ \A t \in Timers :
               timers'[t].callback = IF t = client.timer THEN NoCallback ELSE timers[t].callback
      BY <1>0, <2>1, <2>5, FreeTimerLeads, ReturnLeads
    <3>2. QED
      BY <1>0, <2>1, <2>5, <3>1, FreedHeld, ConfigsTyped
  <2>6. QED
    BY <2>4, <2>5
<1>3. CASE TimerRequest
  <2> DEFINE next == IF client.state = "bound" THEN "rebinding" ELSE client.state
             c == [client EXCEPT !.state = next, !.rtx = again]
             freed == Free(timers, client.timer)
             armed == Set(freed, ZeroClient.timer, 1000, "one_shot")
  <2>1. /\ c.rtx <= DHCP_RTX => SentAndArmed(c)
        /\ ~(c.rtx <= DHCP_RTX) =>
             /\ Freed /\ ip' \in {StaticConfig, ip} /\ sent' = sent
             /\ timers' = AfterCallback(armed, client.timer)
    <3>1. c = [client EXCEPT !.state = IF @ = "bound" THEN "rebinding" ELSE @,
                             !.rtx = IF client.state = "bound" THEN 0 ELSE (@ + 1) % 256]
      BY <1>0 DEF Client
    <3>2. QED
      BY <1>3, <3>1 DEF TimerRequest
  <2>2. c \in Client
    <3>1. next \in ClientStates
      BY <1>0 DEF Client, ClientStates
    <3> HIDE DEF next, again
    <3>2. QED
      BY <1>0, <1>1, <3>1, StateUpdated
  <2>3. c.callback = client.callback /\ c.socket = client.socket /\ c.timer = client.timer
    BY <1>0 DEF Client
  <2> HIDE DEF c
  <2>4. CASE c.rtx <= DHCP_RTX
    BY <1>0, <2>1, <2>2, <2>3, <2>4, SendHeld
\* The timer that is set after the end is set for no owner, or for another one's.
  <2>5. CASE ~(c.rtx <= DHCP_RTX)
    <3>1. /\ freed \in DhcpPool
          /\ \A t \in Timers :
               freed[t].callback = IF t = client.timer THEN NoCallback ELSE timers[t].callback
      BY <1>0, FreeTimerLeads
    <3>2. "one_shot" \in Modes
      BY DEF Modes
    <3> HIDE DEF freed
    <3>3. armed \in DhcpPool /\ \A t \in Timers : armed[t].callback = freed[t].callback
      BY <3>1, <3>2, SetLeads
    <3> HIDE DEF armed
    <3>4. /\ timers' \in DhcpPool
          /\ \A t \in Timers :
               timers'[t].callback = IF t = client.timer THEN NoCallback ELSE timers[t].callback
      BY <2>1, <2>5, <3>1, <3>3, ReturnLeads
    <3>5. ip' \in Configs
      BY <1>0, <2>1, <2>5, ConfigsTyped DEF TypeOK
    <3>6. QED
      BY <1>0, <2>1, <2>5, <3>4, <3>5, FreedHeld
  <2>6. QED
    BY <2>4, <2>5
<1>4. QED
  BY <1>2, <1>3 DEF DhcpTimer

\* The others take what is free, and give back what is theirs.
LEMMA OthersHeld ==
  ASSUME HeldInv, Others
  PROVE  HeldInv'
<1>0. /\ TypeOK /\ Held /\ PortsUnique /\ AddressLeased
      /\ timers \in DhcpPool /\ sockets \in UdpTable
  BY PoolTyped DEF HeldInv, TypeOK
<1>1. client' = client /\ ip' = ip /\ sent' = sent /\ granted' = granted
  BY DEF Others, OtherAllocates, OtherFrees, OtherAllocatesTimer, OtherTimerEnds
<1>2. AddressLeased'
  BY <1>0, <1>1 DEF AddressLeased
<1>3. "other" \in Owners
  BY DEF Owners
<1>4. /\ sockets' \in UdpTable /\ UniquePorts(sockets')
      /\ \A s \in UdpSockets :
           sockets'[s].callback = "dhcp" <=> sockets[s].callback = "dhcp"
  <2>1. ASSUME NEW port \in OtherPorts, OtherAllocates(port)
        PROVE  /\ sockets' \in UdpTable /\ UniquePorts(sockets')
               /\ \A s \in UdpSockets :
                    sockets'[s].callback = "dhcp" <=> sockets[s].callback = "dhcp"
    <3> DEFINE h == SocketFor(sockets, port)
    <3>1. h # NoSocket /\ sockets' = SocketAlloc(sockets, port, "other") /\ port \in Nat
      BY <2>1, DhcpAssumption DEF OtherAllocates
    <3>2. h \in UdpSockets /\ sockets[h].callback = NoCallback
      BY <3>1, SocketForOK
    <3>3. /\ sockets' \in UdpTable /\ UniquePorts(sockets')
          /\ \A s \in UdpSockets :
               sockets'[s].callback = IF s = h THEN "other" ELSE sockets[s].callback
      BY <1>0, <1>3, <3>1, AllocLeads DEF PortsUnique
    <3> HIDE DEF h
    <3>4. QED
      BY <3>2, <3>3, DhcpAssumption
  <2>2. ASSUME NEW h \in UdpSockets, OtherFrees(h)
        PROVE  /\ sockets' \in UdpTable /\ UniquePorts(sockets')
               /\ \A s \in UdpSockets :
                    sockets'[s].callback = "dhcp" <=> sockets[s].callback = "dhcp"
    <3>1. sockets[h].callback = "other" /\ sockets' = SocketFree(sockets, h)
      BY <2>2 DEF OtherFrees
    <3>2. /\ sockets' \in UdpTable /\ UniquePorts(sockets')
          /\ \A s \in UdpSockets :
               sockets'[s].callback = IF s = h THEN NoCallback ELSE sockets[s].callback
      BY <1>0, <3>1, FreeLeads DEF PortsUnique
    <3>3. QED
      BY <3>1, <3>2, DhcpAssumption
  <2>3. CASE sockets' = sockets
    BY <1>0, <2>3 DEF PortsUnique
  <2>4. QED
    BY <2>1, <2>2, <2>3 DEF Others, OtherAllocatesTimer, OtherTimerEnds
<1>5. /\ timers' \in DhcpPool
      /\ \A t \in Timers : timers'[t].callback = "dhcp" <=> timers[t].callback = "dhcp"
  <2>1. CASE OtherAllocatesTimer
    <3> DEFINE h == AllocHandle(timers)
               pool == Alloc(timers, "other")
    <3>1. h # NoTimer /\ timers' = Set(pool, h, 1, "periodic")
      BY <2>1 DEF OtherAllocatesTimer
    <3>2. /\ timers[h].callback = NoCallback /\ pool \in DhcpPool
          /\ \A t \in Timers :
               pool[t].callback = IF t = h THEN "other" ELSE timers[t].callback
      BY <1>0, <1>3, <3>1, AllocTimerLeads
    <3>3. "periodic" \in Modes
      BY DEF Modes
    <3> HIDE DEF h, pool
    <3>4. timers' \in DhcpPool /\ \A t \in Timers : timers'[t].callback = pool[t].callback
      BY <3>1, <3>2, <3>3, SetLeads
    <3>5. QED
      BY <3>2, <3>4, DhcpAssumption
  <2>2. ASSUME NEW h \in Timers, OtherTimerEnds(h)
        PROVE  /\ timers' \in DhcpPool
               /\ \A t \in Timers : timers'[t].callback = "dhcp" <=> timers[t].callback = "dhcp"
    <3>1. /\ timers[h].callback = "other"
          /\ timers' = Stop(timers, h) \/ timers' = Free(timers, h)
      BY <2>2 DEF OtherTimerEnds
    <3>2. CASE timers' = Stop(timers, h)
      BY <1>0, <3>2, StopLeads
    <3>3. CASE timers' = Free(timers, h)
      <4>1. /\ timers' \in DhcpPool
            /\ \A t \in Timers :
                 timers'[t].callback = IF t = h THEN NoCallback ELSE timers[t].callback
        BY <1>0, <3>3, FreeTimerLeads
      <4>2. QED
        BY <3>1, <4>1, DhcpAssumption
    <3>4. QED
      BY <3>1, <3>2, <3>3
  <2>3. CASE timers' = timers
    BY <1>0, <2>3
  <2>4. QED
    BY <2>1, <2>2, <2>3 DEF Others, OtherAllocates, OtherFrees
<1>6. TypeOK'
  BY <1>0, <1>1, <1>4, <1>5, TypeParts DEF TypeOK
<1>7. Held'
  BY <1>0, <1>1, <1>4, <1>5 DEF Held
<1>8. QED
  BY <1>2, <1>4, <1>6, <1>7 DEF HeldInv, PortsUnique

LEMMA HeldStep ==
  ASSUME HeldInv, [Next]_vars
  PROVE  HeldInv'
<1>1. CASE dhcp_start
  BY <1>1, StartHeld
<1>2. CASE StartWithoutSocket \/ StartWithoutTimer
  BY <1>2, FailedStartHeld
<1>3. CASE dhcp_stop
  <2>1. /\ Freed /\ timers' = Free(timers, client.timer)
        /\ ip' = ip /\ sent' = sent /\ granted' = granted
    BY <1>3 DEF dhcp_stop
  <2>2. timers \in DhcpPool /\ ip \in Configs
    BY PoolTyped DEF HeldInv, TypeOK
  <2>3. /\ timers' \in DhcpPool
        /\ \A t \in Timers :
             timers'[t].callback = IF t = client.timer THEN NoCallback ELSE timers[t].callback
    BY <2>1, <2>2, FreeTimerLeads
  <2>4. QED
    BY <2>1, <2>2, <2>3, FreedHeld
<1>4. CASE DhcpTimer
  BY <1>4, TimerHeld
<1>5. CASE Receive
  <2>1. PICK m \in sent : \E s \in Servers : \E answer \in Answers(s, m) :
               dhcp_udp_callback(answer)
    BY <1>5 DEF Receive
  <2>2. PICK s \in Servers : \E answer \in Answers(s, m) : dhcp_udp_callback(answer)
    BY <2>1
  <2>3. PICK answer \in Answers(s, m) : dhcp_udp_callback(answer)
    BY <2>2
  <2>4. /\ answer.from \in Servers /\ answer.addr \in Leased \union {ZeroIp}
        /\ answer.type = "NAK" \/ answer.addr \in Leased
    BY AnswerTyped
  <2>5. QED
    BY <2>3, <2>4, ReceiveHeld
<1>6. CASE Others
  BY <1>6, OthersHeld
<1>7. CASE UNCHANGED vars
  BY <1>7 DEF vars, HeldInv, TypeOK, AddressLeased, Held, PortsUnique
<1>8. QED
  BY <1>1, <1>2, <1>3, <1>4, <1>5, <1>6, <1>7 DEF Next

LEMMA HeldAlways == Spec => []HeldInv
<1>1. Init => HeldInv
  BY HeldInit
<1>2. HeldInv /\ [Next]_vars => HeldInv'
  BY HeldStep
<1>3. QED
  BY <1>1, <1>2, PTL DEF Spec

\* Whatever the servers answer and whenever, the client's record, the addresses of
\* ip.c and the two tables keep their types (dhcp.c:291-304, udp.c:40-46).
THEOREM TypeCorrect == Spec => []TypeOK
<1>1. HeldInv => TypeOK
  BY DEF HeldInv
<1>2. QED
  BY <1>1, HeldAlways, PTL

\* For tables of any size and any use the others make of them: the client holds one
\* socket and one timer from a successful start to its end, and none before or after
\* (dhcp_start, dhcp_free and all the ways to it, dhcp.c:320-355, 415-512, 702-711).
THEOREM ResourcesCorrect == Spec => []ResourcesHeld
<1>1. HeldInv => ResourcesHeld
  <2> SUFFICES ASSUME HeldInv PROVE ResourcesHeld
    OBVIOUS
  <2>1. Held
    BY DEF HeldInv
  <2>2. CASE client.callback
    <3>1. /\ {s \in UdpSockets : sockets[s].callback = "dhcp"} = {client.socket}
          /\ {t \in Timers : timers[t].callback = "dhcp"} = {client.timer}
      BY <2>1, <2>2 DEF Held
    <3>2. QED
      BY <2>2, <3>1 DEF ResourcesHeld
  <2>3. CASE ~client.callback
    <3>1. /\ {s \in UdpSockets : sockets[s].callback = "dhcp"} = {}
          /\ {t \in Timers : timers[t].callback = "dhcp"} = {}
      BY <2>1, <2>3 DEF Held
    <3>2. QED
      BY <2>3, <3>1 DEF ResourcesHeld
  <2>4. QED
    BY <2>2, <2>3
<1>2. QED
  BY <1>1, HeldAlways, PTL

\* Two sockets never share a port, for any number of sockets and any order in which
\* they are allocated, freed and moved to another port (udp.c:105-156, 290-312).
THEOREM PortsCorrect == Spec => []PortsUnique
<1>1. HeldInv => PortsUnique
  BY DEF HeldInv
<1>2. QED
  BY <1>1, HeldAlways, PTL

-----------------------------------------------------------------------------
(* Each call changes one entry of its table.                               *)

LEMMA SocketCallsLocal ==
  ASSUME NEW u \in UdpTable, NEW h, NEW port, NEW from
  PROVE  \A s \in UdpSockets : s # h =>
           /\ SocketFree(u, h)[s] = u[s]
           /\ BindRemote(u, h, port, from)[s] = u[s]
           /\ BindLocal(u, h, port)[s] = u[s]
BY DEF SocketFree, BindRemote, BindLocal, CanBindLocal, UdpTable

LEMMA SocketAllocLocal ==
  ASSUME NEW u \in UdpTable, NEW port, NEW callback
  PROVE  \A s \in UdpSockets :
           u[s].callback # NoCallback => SocketAlloc(u, port, callback)[s] = u[s]
<1>1. CASE SocketFor(u, port) = NoSocket
  BY <1>1 DEF SocketAlloc
<1>2. CASE SocketFor(u, port) # NoSocket
  <2>1. u[SocketFor(u, port)].callback = NoCallback
    BY <1>2, SocketForOK
  <2>2. QED
    BY <1>2, <2>1 DEF SocketAlloc, UdpTable
<1>3. QED
  BY <1>1, <1>2

LEMMA TimerCallsLocal ==
  ASSUME NEW pool \in DhcpPool, NEW h, NEW ms, NEW mode
  PROVE  \A t \in Timers : t # h =>
           /\ Set(pool, h, ms, mode)[t] = pool[t]
           /\ Stop(pool, h)[t] = pool[t]
           /\ Free(pool, h)[t] = pool[t]
           /\ AfterCallback(pool, h)[t] = pool[t]
BY DEF Set, Stop, Free, AfterCallback, DhcpPool, PoolType

LEMMA TimerAllocLocal ==
  ASSUME NEW pool \in DhcpPool, NEW callback
  PROVE  \A t \in Timers :
           pool[t].callback # NoCallback => Alloc(pool, callback)[t] = pool[t]
<1>1. CASE AllocHandle(pool) = NoTimer
  BY <1>1 DEF Alloc
<1>2. CASE AllocHandle(pool) # NoTimer
  <2>1. pool[AllocHandle(pool)].callback = NoCallback
    BY <1>2, AllocHandleFree DEF FreeSlots
  <2>2. QED
    BY <1>2, <2>1 DEF Alloc, DhcpPool, PoolType
<1>3. QED
  BY <1>1, <1>2

\* A timer that is somebody's runs once it is set to a time that is not negative.
LEMMA SetRuns ==
  ASSUME NEW pool \in DhcpPool, NEW h \in Timers, pool[h].callback # NoCallback,
         NEW ms, ms >= 0, NEW mode \in Modes
  PROVE  Running(Set(pool, h, ms, mode), h)
BY DEF Set, Valid, Running, DhcpPool, PoolType

\* The tick undoes what the callback has armed (timer.c:67-75).
LEMMA ReturnStops ==
  ASSUME NEW pool \in DhcpPool, NEW h \in Timers, pool[h].callback # NoCallback
  PROVE  ~Running(AfterCallback(Set(pool, h, 1000, "one_shot"), h), h)
<1> DEFINE armed == Set(pool, h, 1000, "one_shot")
<1>1. armed \in DhcpPool
  <2>1. "one_shot" \in Modes
    BY DEF Modes
  <2>2. QED
    BY <2>1, SetLeads
<1>2. armed[h].mode = "one_shot"
  BY DEF Set, Valid, DhcpPool, PoolType
<1> HIDE DEF armed
<1>3. AfterCallback(armed, h)[h].state = "stopped"
  BY <1>1, <1>2 DEF AfterCallback, DhcpPool, PoolType
<1>4. QED
  BY <1>3 DEF Running, armed

-----------------------------------------------------------------------------
(* The invariant.                                                          *)

\* The socket belongs to the server the lease was granted by.
GrantOK ==
  client.state \in {"bound", "rebinding"} =>
    /\ client.callback
    /\ <<ip.addr, client.server>> = granted
    /\ client.server \in Servers
    /\ sockets[client.socket].ipRemote = client.server

\* Without a lease, the addresses of ip.c are those dhcp_start has left.
UnleasedOK ==
  client.callback /\ client.state \in {"init", "selecting", "requesting"} => ip = ZeroConfig

\* A timer that runs is the one of dhcp_start, of an offer, or of a lease: none was
\* armed by its own callback.
ArmedOK ==
  client.callback /\ Running(timers, client.timer) =>
    \/ client.state = "init"
    \/ client.state = "requesting" /\ client.rtx = 255
    \/ client.state = "bound"

\* The time the lease runs for is that of the server that granted it.
BoundOK ==
  client.state = "bound" =>
    /\ client.rebind = LeaseTime[client.server]
    /\ Milliseconds(client.rebind) >= 0 => Running(timers, client.timer)

LeaseOK == GrantOK /\ UnleasedOK /\ ArmedOK /\ BoundOK

\* A client that has ended, or has not begun.
LEMMA Ended ==
  ASSUME ~client'.callback, client'.state = "init"
  PROVE  LeaseOK'
BY DEF LeaseOK, GrantOK, UnleasedOK, ArmedOK, BoundOK

\* Steps that do not concern the client.
LEMMA Aside ==
  ASSUME Held, LeaseOK, client' = client, ip' = ip, granted' = granted,
         client.callback => /\ sockets'[client.socket] = sockets[client.socket]
                            /\ timers'[client.timer] = timers[client.timer]
  PROVE  LeaseOK'
<1>1. GrantOK'
  BY DEF LeaseOK, GrantOK
<1>2. UnleasedOK'
  BY DEF LeaseOK, UnleasedOK
<1>3. client.callback => (Running(timers', client.timer) <=> Running(timers, client.timer))
  BY DEF Running, Valid
<1>4. ArmedOK'
  BY <1>3 DEF LeaseOK, ArmedOK
<1>5. client.state = "bound" => client.callback
  BY DEF LeaseOK, GrantOK
<1>6. BoundOK'
  BY <1>3, <1>5 DEF LeaseOK, BoundOK
<1>7. QED
  BY <1>1, <1>2, <1>4, <1>6 DEF LeaseOK

\* No other user of the tables reaches the client's socket or timer.
LEMMA OthersAside ==
  ASSUME HeldInv, Others
  PROVE  client.callback => /\ sockets'[client.socket] = sockets[client.socket]
                            /\ timers'[client.timer] = timers[client.timer]
<1> SUFFICES ASSUME client.callback
             PROVE  /\ sockets'[client.socket] = sockets[client.socket]
                    /\ timers'[client.timer] = timers[client.timer]
  OBVIOUS
<1>0. /\ sockets \in UdpTable /\ timers \in DhcpPool
      /\ client.socket \in UdpSockets /\ client.timer \in Timers
      /\ sockets[client.socket].callback = "dhcp" /\ timers[client.timer].callback = "dhcp"
      /\ "dhcp" # NoCallback
  BY PoolTyped, DhcpAssumption DEF HeldInv, TypeOK, Held
<1>1. sockets'[client.socket] = sockets[client.socket]
  <2>1. ASSUME NEW port \in OtherPorts, OtherAllocates(port)
        PROVE  sockets'[client.socket] = sockets[client.socket]
    BY <1>0, <2>1, SocketAllocLocal DEF OtherAllocates
  <2>2. ASSUME NEW h \in UdpSockets, OtherFrees(h)
        PROVE  sockets'[client.socket] = sockets[client.socket]
    <3>1. h # client.socket /\ sockets' = SocketFree(sockets, h)
      BY <1>0, <2>2 DEF OtherFrees
    <3>2. QED
      BY <1>0, <3>1, SocketCallsLocal
  <2>3. QED
    BY <2>1, <2>2 DEF Others, OtherAllocatesTimer, OtherTimerEnds
<1>2. timers'[client.timer] = timers[client.timer]
  <2>1. CASE OtherAllocatesTimer
    <3> DEFINE h == AllocHandle(timers)
               pool == Alloc(timers, "other")
    <3>1. h # NoTimer /\ timers' = Set(pool, h, 1, "periodic")
      BY <2>1 DEF OtherAllocatesTimer
    <3>2. "other" \in Owners
      BY DEF Owners
    <3>3. timers[h].callback = NoCallback /\ pool \in DhcpPool
      BY <1>0, <3>1, <3>2, AllocTimerLeads
    <3>4. pool[client.timer] = timers[client.timer]
      BY <1>0, TimerAllocLocal
    <3>5. h # client.timer
      BY <1>0, <3>3
    <3> HIDE DEF h, pool
    <3>6. timers'[client.timer] = pool[client.timer]
      BY <1>0, <3>1, <3>3, <3>5, TimerCallsLocal
    <3>7. QED
      BY <3>4, <3>6
  <2>2. ASSUME NEW h \in Timers, OtherTimerEnds(h)
        PROVE  timers'[client.timer] = timers[client.timer]
    <3>1. /\ h # client.timer
          /\ timers' = Stop(timers, h) \/ timers' = Free(timers, h)
      BY <1>0, <2>2 DEF OtherTimerEnds
    <3>2. QED
      BY <1>0, <3>1, TimerCallsLocal
  <2>3. QED
    BY <2>1, <2>2 DEF Others, OtherAllocates, OtherFrees
<1>3. QED
  BY <1>1, <1>2

\* What arrives at the client's socket was sent by the one it is bound to.
LEMMA ArrivesFrom ==
  ASSUME NEW answer, Arrives(answer)
  PROVE  sockets[client.socket].ipRemote \in {ZeroIp, answer.from}
<1> DEFINE to == Receivers(sockets, answer.from, UDP_PORT_BOOTPS, UDP_PORT_BOOTPC)
<1>1. to # {} /\ Lowest(to) = client.socket
  BY DEF Arrives
<1>2. IsFiniteSet(to) /\ to \in SUBSET Int
  <2>1. IsFiniteSet(UdpSockets) /\ UdpSockets \in SUBSET Int
    BY FS_Interval, UdpAssumption DEF UdpSockets
  <2>2. to \in SUBSET UdpSockets
    BY DEF Receivers
  <2> HIDE DEF to
  <2>3. QED
    BY <2>1, <2>2, FS_Subset
<1>3. client.socket \in to
  <2> HIDE DEF to
  <2>1. \E s \in to : \A r \in to : s <= r
    BY <1>1, <1>2, LeastExists
  <2>2. QED
    BY <1>1, <2>1 DEF Lowest
<1>4. QED
  BY <1>3 DEF Receivers

-----------------------------------------------------------------------------
(* The steps.                                                              *)

\* The client's timer never counts a message sent again: whenever it runs, the
\* message is the first of its kind, and the end of the retries is not reached.
LEMMA FirstMessage ==
  ASSUME HeldInv, LeaseOK, DhcpTimer
  PROVE  \E c \in Client :
           /\ SentAndArmed(c) /\ granted' = granted
           /\ c.callback = client.callback /\ c.socket = client.socket
           /\ c.timer = client.timer /\ c.server = client.server
           /\ \/ client.state = "init" /\ c.state = "selecting"
              \/ client.state = "requesting" /\ c.state = "requesting"
              \/ client.state = "bound" /\ c.state = "rebinding"
<1>0. client \in Client /\ client.callback /\ Running(timers, client.timer)
  <2>1. client.callback /\ Running(timers, client.timer)
    BY DEF DhcpTimer, TimerDiscover, TimerRequest, DhcpTimerRuns
  <2>2. QED
    BY <2>1 DEF HeldInv, TypeOK
<1>1. \/ client.state = "init"
      \/ client.state = "requesting" /\ client.rtx = 255
      \/ client.state = "bound"
  BY <1>0 DEF LeaseOK, ArmedOK
<1> DEFINE next == CASE client.state = "init"       -> "selecting"
                     [] client.state = "requesting" -> "requesting"
                     [] client.state = "bound"      -> "rebinding"
           c == [client EXCEPT !.state = next, !.rtx = 0]
<1>2. SentAndArmed(c) /\ granted' = granted
  <2>1. 0 <= DHCP_RTX
    BY DhcpAssumption
  <2>2. c.rtx = 0
    BY <1>0 DEF Client
  <2>3. CASE client.state = "init"
    <3>1. c = [client EXCEPT !.state = "selecting",
                             !.rtx = IF client.state = "init" THEN 0 ELSE (@ + 1) % 256]
      BY <1>0, <2>3 DEF Client
    <3>2. TimerDiscover
      BY <2>3 DEF DhcpTimer, TimerRequest
    <3> HIDE DEF c
    <3>3. QED
      BY <2>1, <2>2, <3>1, <3>2 DEF TimerDiscover
  <2>4. CASE client.state \in {"requesting", "bound"}
    <3>1. (client.rtx + 1) % 256 = 0 \/ client.state = "bound"
      BY <1>1, <2>4
    <3>2. c = [client EXCEPT !.state = IF @ = "bound" THEN "rebinding" ELSE @,
                             !.rtx = IF client.state = "bound" THEN 0 ELSE (@ + 1) % 256]
      BY <1>0, <2>4, <3>1 DEF Client
    <3>3. TimerRequest
      BY <2>4 DEF DhcpTimer, TimerDiscover
    <3> HIDE DEF c
    <3>4. QED
      BY <2>1, <2>2, <3>2, <3>3 DEF TimerRequest
  <2>5. QED
    BY <1>1, <2>3, <2>4
<1>3. \/ client.state = "init" /\ next = "selecting"
      \/ client.state = "requesting" /\ next = "requesting"
      \/ client.state = "bound" /\ next = "rebinding"
  BY <1>1
<1> HIDE DEF next
<1>4. c \in Client
  <2>1. next \in ClientStates
    BY <1>3 DEF ClientStates
  <2>2. 0 \in 0 .. 255
    OBVIOUS
  <2>3. QED
    BY <1>0, <2>1, <2>2, StateUpdated
<1>5. /\ c.callback = client.callback /\ c.socket = client.socket
      /\ c.timer = client.timer /\ c.server = client.server
  BY <1>0 DEF Client
<1>6. c.state = next
  BY <1>0 DEF Client
<1> HIDE DEF c
<1>7. QED
  BY <1>2, <1>3, <1>4, <1>5, <1>6

\* What sending does to the client's socket and timer, and to nothing else.
LEMMA SendLocal ==
  ASSUME HeldInv, client.callback, NEW c \in Client, SentAndArmed(c),
         c.socket = client.socket, c.timer = client.timer
  PROVE  /\ \A s \in UdpSockets : s # client.socket => sockets'[s] = sockets[s]
         /\ \A t \in Timers : t # client.timer => timers'[t] = timers[t]
         /\ c.state = "rebinding" =>
              sockets'[c.socket].ipRemote \in {c.server, sockets[c.socket].ipRemote}
         /\ ~Running(timers', c.timer)
<1>0. /\ sockets \in UdpTable /\ timers \in DhcpPool
      /\ c.socket \in UdpSockets /\ c.timer \in Timers
      /\ timers[c.timer].callback # NoCallback
  BY PoolTyped, DhcpAssumption DEF HeldInv, TypeOK, Held
<1> DEFINE u == BindLocal(sockets, c.socket, UDP_PORT_BOOTPC)
           from == IF c.state = "rebinding" THEN c.server ELSE ZeroIp
           armed == Set(timers, c.timer, 1000, "one_shot")
<1>1. /\ \/ sockets' = sockets
         \/ sockets' = BindRemote(u, c.socket, UDP_PORT_BOOTPS, from)
      /\ timers' = AfterCallback(armed, c.timer)
  BY DEF SentAndArmed, dhcp_send, BoundForSend
<1>2. u \in UdpTable /\ \A s \in UdpSockets : s # c.socket => u[s] = sockets[s]
  <2>1. UDP_PORT_BOOTPC \in Nat
    BY DEF UDP_PORT_BOOTPC
  <2>2. QED
    BY <1>0, <2>1, BindLocalLeads, SocketCallsLocal
<1>3. armed \in DhcpPool /\ \A t \in Timers : t # c.timer => armed[t] = timers[t]
  <2>1. "one_shot" \in Modes
    BY DEF Modes
  <2>2. QED
    BY <1>0, <2>1, SetLeads, TimerCallsLocal
<1>4. ~Running(timers', c.timer)
  BY <1>0, <1>1, ReturnStops
<1> HIDE DEF u, armed
<1>5. \A s \in UdpSockets : s # client.socket => sockets'[s] = sockets[s]
  BY <1>1, <1>2, SocketCallsLocal
<1>6. \A t \in Timers : t # client.timer => timers'[t] = timers[t]
  BY <1>1, <1>3, TimerCallsLocal
<1>7. c.state = "rebinding" =>
        sockets'[c.socket].ipRemote \in {c.server, sockets[c.socket].ipRemote}
  <2>1. BindRemote(u, c.socket, UDP_PORT_BOOTPS, from)[c.socket].ipRemote = from
    BY <1>0, <1>2 DEF BindRemote, UdpTable
  <2>2. QED
    BY <1>1, <2>1
<1>8. QED
  BY <1>4, <1>5, <1>6, <1>7

LEMMA TimerLease ==
  ASSUME HeldInv, LeaseOK, DhcpTimer
  PROVE  LeaseOK'
<1>0. client.callback
  BY DEF DhcpTimer, TimerDiscover, TimerRequest, DhcpTimerRuns
<1>1. PICK c \in Client :
        /\ SentAndArmed(c) /\ granted' = granted
        /\ c.callback = client.callback /\ c.socket = client.socket
        /\ c.timer = client.timer /\ c.server = client.server
        /\ \/ client.state = "init" /\ c.state = "selecting"
           \/ client.state = "requesting" /\ c.state = "requesting"
           \/ client.state = "bound" /\ c.state = "rebinding"
  BY FirstMessage
<1>2. client' = c /\ ip' = ip
  BY <1>1 DEF SentAndArmed
<1>3. /\ ~Running(timers', c.timer)
      /\ c.state = "rebinding" =>
           sockets'[c.socket].ipRemote \in {c.server, sockets[c.socket].ipRemote}
  BY <1>0, <1>1, SendLocal
<1>4. c.callback
  BY <1>0, <1>1, Zenon
<1>5. GrantOK'
  <2>1. CASE client.state = "bound" /\ c.state = "rebinding"
    BY <1>1, <1>2, <1>3, <1>4, <2>1 DEF LeaseOK, GrantOK
  <2>2. CASE c.state \in {"selecting", "requesting"}
    BY <1>2, <2>2 DEF GrantOK
  <2>3. QED
    BY <1>1, <2>1, <2>2
<1>6. UnleasedOK'
  BY <1>0, <1>1, <1>2 DEF LeaseOK, UnleasedOK
<1>7. ArmedOK'
  BY <1>2, <1>3 DEF ArmedOK
<1>8. BoundOK'
  BY <1>1, <1>2 DEF BoundOK
<1>9. QED
  BY <1>5, <1>6, <1>7, <1>8 DEF LeaseOK

\* What the socket is bound to is all that separates an answer from a stranger's.
LEMMA ReceiveLease ==
  ASSUME HeldInv, LeaseOK, NEW answer, dhcp_udp_callback(answer), answer.from \in Servers,
         answer.addr \in Leased \union {ZeroIp}
  PROVE  LeaseOK'
<1> DEFINE c == Parsed(answer)
<1>0. Arrives(answer) /\ client.callback
  BY DEF dhcp_udp_callback, ReceiveIgnored, ReceiveOffer, ReceiveNak, ReceiveAck, Arrives
<1>1. /\ client \in Client /\ sockets \in UdpTable /\ timers \in DhcpPool
      /\ client.socket \in UdpSockets /\ client.timer \in Timers
      /\ timers[client.timer].callback # NoCallback
  BY <1>0, PoolTyped, DhcpAssumption DEF HeldInv, TypeOK, Held
<1>2. /\ c \in Client /\ c.callback = client.callback /\ c.socket = client.socket
      /\ c.timer = client.timer /\ c.addr = answer.addr
  BY <1>1, ParsedTyped
<1>3. /\ c.server = answer.from /\ c.state = client.state /\ c.rtx = client.rtx
      /\ c.rebind = IF answer.type = "NAK" THEN client.rebind ELSE LeaseTime[answer.from]
  <2>1. CASE answer.type = "NAK"
    BY <1>1, <2>1 DEF Parsed, Client
  <2>2. CASE answer.type # "NAK"
    BY <1>1, <2>2 DEF Parsed, Client
  <2>3. QED
    BY <2>1, <2>2
<1>4. c.callback
  BY <1>0, <1>2, Zenon
<1>5. SocketsOf(answer)[client.socket].ipRemote = answer.from
  BY <1>1 DEF SocketsOf, Delivered, BindRemote, UdpTable
\* The servers' address is not 0.0.0.0, so a bound client hears its own server only.
<1>6. client.state \in {"bound", "rebinding"} => client.server = answer.from
  BY <1>0, ArrivesFrom, DhcpAssumption DEF LeaseOK, GrantOK
<1> HIDE DEF c
<1>7. CASE ReceiveIgnored(answer)
  <2>1. /\ client' = c /\ sockets' = SocketsOf(answer)
        /\ ip' = ip /\ timers' = timers /\ granted' = granted
    BY <1>7 DEF ReceiveIgnored, c
  <2>2. GrantOK'
    BY <1>2, <1>3, <1>4, <1>5, <1>6, <2>1 DEF LeaseOK, GrantOK
  <2>3. UnleasedOK'
    BY <1>0, <1>3, <2>1 DEF LeaseOK, UnleasedOK
  <2>4. ArmedOK'
    BY <1>0, <1>2, <1>3, <2>1 DEF LeaseOK, ArmedOK
  <2>5. BoundOK'
    BY <1>2, <1>3, <1>6, <2>1 DEF LeaseOK, BoundOK
  <2>6. QED
    BY <2>2, <2>3, <2>4, <2>5 DEF LeaseOK
<1>8. CASE ReceiveOffer(answer)
  <2>1. /\ client' = [c EXCEPT !.state = "requesting", !.rtx = 255]
        /\ ip' = ip /\ client.state = "selecting"
    BY <1>8 DEF ReceiveOffer, c
  <2>2. client'.state = "requesting" /\ client'.rtx = 255
    BY <1>2, <2>1 DEF Client
  <2>3. UnleasedOK'
    BY <1>0, <2>1, <2>2 DEF LeaseOK, UnleasedOK
  <2>4. QED
    BY <2>2, <2>3 DEF LeaseOK, GrantOK, ArmedOK, BoundOK
<1>9. CASE ReceiveNak(answer)
  <2>1. client' = ZeroClient
    BY <1>9 DEF ReceiveNak, Freed
  <2>2. QED
    BY <2>1, Ended DEF ZeroClient
<1>10. CASE ReceiveAck(answer)
  <2>1. /\ answer.type = "ACK" /\ client' = [c EXCEPT !.state = "bound"]
        /\ ip' = [addr |-> c.addr, netmask |-> c.netmask, gateway |-> c.gateway]
        /\ timers' = Set(timers, c.timer, Milliseconds(c.rebind), "one_shot")
        /\ sockets' = SocketsOf(answer)
        /\ granted' = <<answer.addr, answer.from>>
    BY <1>10 DEF ReceiveAck, c
  <2>2. /\ client'.state = "bound" /\ client'.socket = c.socket
        /\ client'.timer = c.timer /\ client'.server = c.server
        /\ client'.rebind = c.rebind
    BY <1>2, <2>1 DEF Client
  <2>3. client'.callback = c.callback
    BY <1>2, <2>1 DEF Client
  <2>4. client'.callback
    BY <1>4, <2>3, Zenon
  <2>5. GrantOK'
    BY <1>2, <1>3, <1>5, <2>1, <2>2, <2>4 DEF GrantOK
  <2>6. BoundOK'
    <3>1. client'.rebind = LeaseTime[client'.server]
      BY <1>3, <2>1, <2>2
    <3>2. ASSUME Milliseconds(c.rebind) >= 0
          PROVE  Running(timers', c.timer)
      <4>1. "one_shot" \in Modes
        BY DEF Modes
      <4>2. QED
        BY <1>1, <1>2, <2>1, <3>2, <4>1, SetRuns
    <3>3. Milliseconds(client'.rebind) >= 0 => Running(timers', client'.timer)
      BY <2>2, <3>2
    <3>4. QED
      BY <3>1, <3>3 DEF BoundOK, Milliseconds
  <2>7. QED
    BY <2>2, <2>5, <2>6 DEF LeaseOK, UnleasedOK, ArmedOK
<1>11. QED
  BY <1>7, <1>8, <1>9, <1>10 DEF dhcp_udp_callback

LEMMA LeaseStep ==
  ASSUME HeldInv, LeaseOK, [Next]_vars
  PROVE  LeaseOK'
<1>1. CASE dhcp_start
  <2>1. /\ ip' = ZeroConfig
        /\ client' = [ZeroClient EXCEPT !.socket = SocketFor(sockets, PortAny),
                                        !.timer = AllocHandle(timers), !.callback = TRUE]
    BY <1>1 DEF dhcp_start
  <2>2. client'.state = "init"
    BY <2>1 DEF ZeroClient
  <2>3. QED
    BY <2>1, <2>2 DEF LeaseOK, GrantOK, UnleasedOK, ArmedOK, BoundOK
<1>2. CASE StartWithoutSocket \/ StartWithoutTimer
  <2>1. ~client'.callback /\ client'.state = "init"
    BY <1>2 DEF StartWithoutSocket, StartWithoutTimer, ZeroClient
  <2>2. QED
    BY <2>1, Ended
<1>3. CASE dhcp_stop
  <2>1. ~client'.callback /\ client'.state = "init"
    BY <1>3 DEF dhcp_stop, Freed, ZeroClient
  <2>2. QED
    BY <2>1, Ended
<1>4. CASE DhcpTimer
  BY <1>4, TimerLease
<1>5. CASE Receive
  <2>1. PICK m \in sent : \E s \in Servers : \E answer \in Answers(s, m) :
               dhcp_udp_callback(answer)
    BY <1>5 DEF Receive
  <2>2. PICK s \in Servers : \E answer \in Answers(s, m) : dhcp_udp_callback(answer)
    BY <2>1
  <2>3. PICK answer \in Answers(s, m) : dhcp_udp_callback(answer)
    BY <2>2
  <2>4. answer.from \in Servers /\ answer.addr \in Leased \union {ZeroIp}
    BY AnswerTyped
  <2>5. QED
    BY <2>3, <2>4, ReceiveLease
<1>6. CASE Others
  <2>1. client' = client /\ ip' = ip /\ granted' = granted
    BY <1>6 DEF Others, OtherAllocates, OtherFrees, OtherAllocatesTimer, OtherTimerEnds
  <2>2. QED
    BY <1>6, <2>1, OthersAside, Aside DEF HeldInv
<1>7. CASE UNCHANGED vars
  <2>1. /\ client' = client /\ ip' = ip /\ granted' = granted
        /\ sockets' = sockets /\ timers' = timers
    BY <1>7 DEF vars
  <2>2. QED
    BY <2>1, Aside DEF HeldInv
<1>8. QED
  BY <1>1, <1>2, <1>3, <1>4, <1>5, <1>6, <1>7 DEF Next

LEMMA LeaseAlways == Spec => [](HeldInv /\ LeaseOK)
<1>1. Init => HeldInv /\ LeaseOK
  <2> SUFFICES ASSUME Init PROVE HeldInv /\ LeaseOK
    OBVIOUS
  <2>1. ~client.callback /\ client.state = "init"
    BY DEF Init, ZeroClient
  <2>2. LeaseOK
    BY <2>1 DEF LeaseOK, GrantOK, UnleasedOK, ArmedOK, BoundOK
  <2>3. QED
    BY <2>2, HeldInit
<1>2. (HeldInv /\ LeaseOK) /\ [Next]_vars => (HeldInv /\ LeaseOK)'
  BY HeldStep, LeaseStep
<1>3. QED
  BY <1>1, <1>2, PTL DEF Spec

\* The address in use was acknowledged by the server it will be renewed with, although
\* every answer is parsed into the client before it is looked at: udp.c has bound the
\* socket to the grantor, whose late answers are the only ones that reach the client
\* (dhcp.c:388-438, udp.c:222-249).
THEOREM GrantorCorrect == Spec => []RenewsWithGrantor
<1>1. HeldInv /\ LeaseOK => RenewsWithGrantor
  BY DEF LeaseOK, GrantOK, RenewsWithGrantor
<1>2. QED
  BY <1>1, LeaseAlways, PTL

\* A bound client's timer runs, unless the lease is longer than an int32_t of
\* milliseconds, after every acknowledgment and until it expires (dhcp.c:435-438).
THEOREM BoundCorrect == Spec => []BoundIsArmed
<1>1. HeldInv /\ LeaseOK => BoundIsArmed
  BY DEF LeaseOK, BoundOK, BoundIsArmed
<1>2. QED
  BY <1>1, LeaseAlways, PTL

\* A client without a lease sends to the broadcast address ip.c knows, which
\* dhcp_start has made 0.0.0.0 (dhcp.c:345-347, ip.c:420).
THEOREM BroadcastCorrect == Spec => []SendsBroadcast
<1>1. IsBroadcast(ZeroConfig, ZeroIp)
  BY DEF IsBroadcast, Broadcast, ZeroConfig
<1>2. HeldInv /\ LeaseOK => SendsBroadcast
  BY <1>1 DEF LeaseOK, UnleasedOK, SendsBroadcast
<1>3. QED
  BY <1>2, LeaseAlways, PTL

\* No step but the others' own, and a stop of a client that is not started, changes
\* what is theirs.
LEMMA OthersKept ==
  ASSUME HeldInv, LeaseOK, Next
  PROVE  \/ Others
         \/ dhcp_stop /\ ~client.callback
         \/ /\ \A s \in UdpSockets : sockets[s].callback = "other" => sockets'[s] = sockets[s]
            /\ \A t \in Timers : timers[t].callback = "other" => timers'[t] = timers[t]
<1> DEFINE Kept ==
      /\ \A s \in UdpSockets : sockets[s].callback = "other" => sockets'[s] = sockets[s]
      /\ \A t \in Timers : timers[t].callback = "other" => timers'[t] = timers[t]
<1>0. /\ sockets \in UdpTable /\ timers \in DhcpPool /\ "other" # NoCallback
      /\ client.callback => /\ sockets[client.socket].callback = "dhcp"
                            /\ timers[client.timer].callback = "dhcp"
  BY PoolTyped, DhcpAssumption DEF HeldInv, TypeOK, Held
\* A step of the client changes its own entries only.
<1>1. ASSUME client.callback,
             \A s \in UdpSockets : s # client.socket => sockets'[s] = sockets[s],
             \A t \in Timers : t # client.timer => timers'[t] = timers[t]
      PROVE  Kept
  BY <1>0, <1>1
<1>2. CASE dhcp_start
  <2> DEFINE pool == Alloc(timers, "dhcp")
             h == AllocHandle(timers)
  <2>1. /\ h # NoTimer /\ sockets' = SocketAlloc(sockets, PortAny, "dhcp")
        /\ timers' = Set(pool, h, 10, "one_shot")
    BY <1>2 DEF dhcp_start
  <2>2. "dhcp" \in Owners
    BY DEF Owners
  <2>3. pool \in DhcpPool /\ timers[h].callback = NoCallback
    BY <1>0, <2>1, <2>2, AllocTimerLeads
  <2>4. \A t \in Timers : timers[t].callback # NoCallback => pool[t] = timers[t]
    BY <1>0, TimerAllocLocal
  <2> HIDE DEF pool, h
  <2>5. \A t \in Timers : t # h => timers'[t] = pool[t]
    BY <2>1, <2>3, TimerCallsLocal
  <2>6. \A t \in Timers : timers[t].callback = "other" => timers'[t] = timers[t]
    BY <1>0, <2>3, <2>4, <2>5
  <2>7. \A s \in UdpSockets : sockets[s].callback = "other" => sockets'[s] = sockets[s]
    BY <1>0, <2>1, SocketAllocLocal
  <2>8. QED
    BY <2>6, <2>7
<1>3. CASE StartWithoutSocket
  BY <1>3 DEF StartWithoutSocket
<1>4. CASE StartWithoutTimer
  <2> DEFINE h == SocketFor(sockets, PortAny)
             taken == SocketAlloc(sockets, PortAny, "dhcp")
  <2>1. h # NoSocket /\ sockets' = SocketFree(taken, h) /\ timers' = timers
    BY <1>4 DEF StartWithoutTimer
  <2>2. "dhcp" \in Owners /\ PortAny \in Nat
    BY DEF Owners, PortAny
  <2>3. taken \in UdpTable /\ sockets[h].callback = NoCallback
    BY <1>0, <2>1, <2>2, AllocLeads, SocketForOK
  <2>4. \A s \in UdpSockets : sockets[s].callback # NoCallback => taken[s] = sockets[s]
    BY <1>0, SocketAllocLocal
  <2> HIDE DEF h, taken
  <2>5. \A s \in UdpSockets : s # h => sockets'[s] = taken[s]
    BY <2>1, <2>3, SocketCallsLocal
  <2>6. QED
    BY <1>0, <2>1, <2>3, <2>4, <2>5
<1>5. CASE dhcp_stop /\ client.callback
  <2>1. /\ client.callback /\ sockets' = SocketFree(sockets, client.socket)
        /\ timers' = Free(timers, client.timer)
    BY <1>5 DEF dhcp_stop, Freed
  <2>2. \A s \in UdpSockets : s # client.socket => sockets'[s] = sockets[s]
    BY <1>0, <2>1, SocketCallsLocal
  <2>3. \A t \in Timers : t # client.timer => timers'[t] = timers[t]
    BY <1>0, <2>1, TimerCallsLocal
  <2>4. QED
    BY <1>1, <2>1, <2>2, <2>3
<1>6. CASE DhcpTimer
  <2>1. client.callback
    BY <1>6 DEF DhcpTimer, TimerDiscover, TimerRequest, DhcpTimerRuns
  <2>2. /\ \A s \in UdpSockets : s # client.socket => sockets'[s] = sockets[s]
        /\ \A t \in Timers : t # client.timer => timers'[t] = timers[t]
    BY <1>6, <2>1, FirstMessage, SendLocal
  <2>3. QED
    BY <1>1, <2>1, <2>2
<1>7. CASE Receive
  <2>1. PICK m \in sent : \E s \in Servers : \E answer \in Answers(s, m) :
               dhcp_udp_callback(answer)
    BY <1>7 DEF Receive
  <2>2. PICK s \in Servers : \E answer \in Answers(s, m) : dhcp_udp_callback(answer)
    BY <2>1
  <2>3. PICK answer \in Answers(s, m) : dhcp_udp_callback(answer)
    BY <2>2
  <2>4. client.callback /\ client \in Client /\ answer.from \in Servers
        /\ answer.addr \in Leased \union {ZeroIp}
    BY <2>3, AnswerTyped
       DEF dhcp_udp_callback, ReceiveIgnored, ReceiveOffer, ReceiveNak, ReceiveAck, Arrives,
           HeldInv, TypeOK
  <2>5. Parsed(answer).timer = client.timer
    BY <2>4, ParsedTyped
  <2>6. sockets' \in {SocketsOf(answer), SocketFree(sockets, client.socket)}
    BY <2>3
       DEF dhcp_udp_callback, ReceiveIgnored, ReceiveOffer, ReceiveNak, ReceiveAck, Freed
  <2>7. \A r \in UdpSockets : r # client.socket => sockets'[r] = sockets[r]
    BY <1>0, <2>6, SocketCallsLocal DEF SocketsOf, Delivered
  <2>8. \/ timers' = timers \/ timers' = Free(timers, client.timer)
        \/ \E ms \in {1, Milliseconds(Parsed(answer).rebind)} :
             timers' = Set(timers, client.timer, ms, "one_shot")
    BY <2>3, <2>5
       DEF dhcp_udp_callback, ReceiveIgnored, ReceiveOffer, ReceiveNak, ReceiveAck
  <2>9. \A t \in Timers : t # client.timer => timers'[t] = timers[t]
    BY <1>0, <2>8, TimerCallsLocal
  <2>10. QED
    BY <1>1, <2>4, <2>7, <2>9
<1>8. QED
  BY <1>2, <1>3, <1>4, <1>5, <1>6, <1>7 DEF Next

\* No step of the client touches another module's socket or timer, whatever handles the
\* others hold (dhcp.c:320-512), but for dhcp_stop of a client that is not started, which
\* frees them (dhcp.c:702-711).  The calls the client would make after it has freed
\* itself, with the handles 0, are never reached: FirstMessage.
THEOREM OthersCorrect == Spec => OthersUntouched
<1>1. (HeldInv /\ LeaseOK) /\ [Next]_vars =>
        [\/ Others
         \/ dhcp_stop /\ ~client.callback
         \/ /\ \A s \in UdpSockets : sockets[s].callback = "other" => sockets'[s] = sockets[s]
            /\ \A t \in Timers : timers[t].callback = "other" => timers'[t] = timers[t]]_vars
  BY OthersKept
<1>2. QED
  BY <1>1, LeaseAlways, PTL DEF Spec, OthersUntouched
=============================================================================
