--------------------------------- MODULE Udp ---------------------------------
(***************************************************************************)
(* The socket table of net/udp.c as a value, and the calls of udp.h as     *)
(* operators that map one table to the next.  Ports are natural numbers,   *)
(* 0 is "any" and "not bound"; an address of zeros is "not bound" too.     *)
(***************************************************************************)
EXTENDS Ip

CONSTANTS
  UdpSocketMax,    (* UDP_SOCKET_MAX                                       *)
  FirstEphemeral   (* 1025, where the search for a free port begins        *)

ASSUME UdpAssumption ==
  UdpSocketMax \in Nat \ {0} /\ FirstEphemeral \in Nat \ {0}

UdpSockets == 0 .. UdpSocketMax - 1

NoSocket == -1     \* what udp_socket_alloc returns when it fails
PortAny  == 0      \* UDP_PORT_ANY

EmptySocket == [callback |-> NoCallback, portLocal |-> 0,
                portRemote |-> 0, ipRemote |-> ZeroIp]

\* udp_init
NoSockets == [s \in UdpSockets |-> EmptySocket]

Used(u, s) == u[s].callback # NoCallback

IsFreePort(u, port) == \A s \in UdpSockets : ~(Used(u, s) /\ u[s].portLocal = port)

\* udp_get_free_local_port.  There are more candidates than sockets, so its loop
\* never comes to the end of the 16 bits.
FreeLocalPort(u) ==
  Lowest({p \in FirstEphemeral .. FirstEphemeral + UdpSocketMax : IsFreePort(u, p)})

FreeSockets(u) == {s \in UdpSockets : ~Used(u, s)}

\* The handle udp_socket_alloc returns.
SocketFor(u, port) ==
  IF FreeSockets(u) = {} \/ (port # PortAny /\ ~IsFreePort(u, port))
  THEN NoSocket ELSE Lowest(FreeSockets(u))

SocketAlloc(u, port, callback) ==
  IF SocketFor(u, port) = NoSocket THEN u
  ELSE [u EXCEPT ![SocketFor(u, port)] =
          [EmptySocket EXCEPT !.callback = callback,
                              !.portLocal = IF port = PortAny THEN FreeLocalPort(u)
                                            ELSE port]]

\* udp_socket_free checks only the range of the handle.
SocketFree(u, s) == IF s \in UdpSockets THEN [u EXCEPT ![s] = EmptySocket] ELSE u

\* udp_bind_remote and udp_unbind_remote
BindRemote(u, s, port, ip) ==
  IF s \in UdpSockets
  THEN [u EXCEPT ![s].portRemote = port, ![s].ipRemote = ip] ELSE u

UnbindRemote(u, s) == BindRemote(u, s, 0, ZeroIp)

\* Mutation: a port that is in use is bound all the same.
CanBindLocal_Always(u, s, port) == s \in UdpSockets

\* udp_bind_local succeeds for the port the socket has, or for a free one.
CanBindLocal(u, s, port) ==
  s \in UdpSockets /\ (u[s].portLocal = port \/ IsFreePort(u, port))

BindLocal(u, s, port) ==
  IF CanBindLocal(u, s, port) THEN [u EXCEPT ![s].portLocal = port] ELSE u

\* The sockets a datagram is for; udp_handle_packet gives it to the first.
Receivers(u, ip, portRemote, portLocal) ==
  {s \in UdpSockets : /\ Used(u, s) /\ u[s].portLocal = portLocal
                      /\ u[s].portRemote \in {0, portRemote}
                      /\ u[s].ipRemote \in {ZeroIp, ip}}

Receiver(u, ip, portRemote, portLocal) == Lowest(Receivers(u, ip, portRemote, portLocal))

\* udp_handle_packet up to the callback: the socket belongs to the sender now.
Delivered(u, s, ip, portRemote) == BindRemote(u, s, portRemote, ip)

\* udp_send fails on a socket without a remote port, and when ip.c fails.
UdpLeaves(u, s, config, known) ==
  s \in UdpSockets /\ u[s].portRemote # 0 /\ Leaves(config, u[s].ipRemote, known)

\* No two sockets share a local port, so a datagram has one receiver.
\* udp_socket_alloc and udp_bind_local both look for the port, but an application
\* changes its port after it was allocated, and frees and allocates in any order.
UniquePorts(u) ==
  \A s, r \in UdpSockets :
    Used(u, s) /\ Used(u, r) /\ u[s].portLocal = u[r].portLocal => s = r
=============================================================================
