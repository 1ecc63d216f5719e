-------------------------------- MODULE Dhcp --------------------------------
(***************************************************************************)
(* The dhcp client of app/dhcp.c on the timers of sys/timer.c, the sockets *)
(* of net/udp.c and the addresses of net/ip.c, among other users of the    *)
(* same tables, and the servers it talks to.  Handlers do not nest and the *)
(* client's callback (dhcp_callback of main.c) calls nothing of dhcp.h, so *)
(* each handler is one step.                                               *)
(*                                                                         *)
(* The network loses, repeats and delays: whatever a server could answer   *)
(* to a message the client has ever sent may arrive at any time, or never. *)
(***************************************************************************)
EXTENDS TimerPool, Udp

CONSTANTS
  DHCP_RTX,         (* How often a message is sent again.                  *)
  Second,           (* 1000, the milliseconds of a second                  *)
  TimeModulus,      (* 2^32, where time_rebind * 1000 wraps                *)
  Servers,          (* The servers' addresses.                             *)
  LeaseOf,          (* For each server, the address it leases ...          *)
  LeaseTime,        (* ... and the seconds it leases it for.               *)
  NetMask,          (* The mask all of them announce.                      *)
  StaticConfig,     (* NET_IP_ADDRESS, NET_IP_NETMASK, NET_IP_GATEWAY      *)
  OtherPorts        (* The ports other users allocate: PortAny or a number.*)

ASSUME DhcpAssumption ==
  /\ NoCallback \notin {"dhcp", "other"}
  /\ DHCP_RTX \in 0 .. 254
  /\ Second \in Nat \ {0} /\ TimeModulus \in Nat \ {0}
  /\ Servers \subseteq Addresses \ {ZeroIp, AllOnes}
  /\ LeaseOf \in [Servers -> Addresses \ {ZeroIp, AllOnes}]
  /\ LeaseTime \in [Servers -> Nat]
  /\ NetMask \in Masks /\ StaticConfig \in Configs
  /\ OtherPorts \subseteq Nat

UDP_PORT_BOOTPS == 67
UDP_PORT_BOOTPC == 68

VARIABLES
  client,     (* dhcp_client                                               *)
  ip,         (* ip_addr, ip_netmask, ip_gateway                           *)
  sockets,    (* udp_sockets                                               *)
  timers      (* the timer table                                           *)

\* History, read by the servers and the properties and by no guard of the client.
VARIABLES
  sent,       (* The messages of the client that have left.                *)
  granted     (* The acknowledgment taken last: <<address, server>>.       *)

vars == <<client, ip, sockets, timers, sent, granted>>

\* The states after bound, other than rebinding, are named and never entered.
ClientStates == {"init", "selecting", "requesting", "bound", "rebinding"}

\* dhcp_client cleared: handle 0 is a handle like any other.
ZeroClient ==
  [state |-> "init", callback |-> FALSE, socket |-> 0, timer |-> 0,
   addr |-> ZeroIp, server |-> ZeroIp, gateway |-> ZeroIp, netmask |-> ZeroIp,
   rtx |-> 0, rebind |-> 0]

Leased == {LeaseOf[s] : s \in Servers}

LeaseTimes == {LeaseTime[s] : s \in Servers}

\* A message names the address asked for and the server it is asked from.
Messages == [type : {"DISCOVER", "REQUEST"}, addr : Leased \union {ZeroIp},
             server : Servers \union {ZeroIp}, ciaddr : Leased \union {ZeroIp}]

Client == [state : ClientStates, callback : BOOLEAN,
           socket : UdpSockets \union {NoSocket}, timer : Timers \union {NoTimer},
           addr : Leased \union {ZeroIp}, server : Servers \union {ZeroIp},
           gateway : Servers \union {ZeroIp}, netmask : {NetMask, ZeroIp},
           rtx : 0 .. 255, rebind : LeaseTimes \union {0}]

UdpTable == [UdpSockets -> [callback : {NoCallback, "dhcp", "other"}, portLocal : Nat,
                            portRemote : {0, UDP_PORT_BOOTPS},
                            ipRemote : Servers \union {ZeroIp}]]

TypeOK ==
  /\ client \in Client
  /\ ip \in Configs
  /\ sockets \in UdpTable
  /\ timers \in [Timers -> [callback : {NoCallback, "dhcp", "other"}, arg : {NoArg},
                            state : States, mode : Modes]]
  /\ sent \subseteq Messages
  /\ granted \in (Leased \X Servers) \union {<<>>}

\* main: the static configuration, and arp.c has the first timer.
Init ==
  /\ client = ZeroClient
  /\ ip = StaticConfig
  /\ sockets = NoSockets
  /\ timers = Set(Alloc(EmptyPool, "other"), AllocHandle(EmptyPool), 10, "one_shot")
  /\ sent = {}
  /\ granted = <<>>

-----------------------------------------------------------------------------
(* dhcp.h                                                                  *)

\* Mutation: the configuration of before goes on.
dhcp_start_KeepsConfig ==
  /\ ~client.callback
  /\ LET s == SocketFor(sockets, PortAny)
         t == AllocHandle(timers)
     IN  /\ s # NoSocket /\ t # NoTimer
         /\ client' = [ZeroClient EXCEPT !.socket = s, !.timer = t, !.callback = TRUE]
         /\ sockets' = SocketAlloc(sockets, PortAny, "dhcp")
         /\ timers' = Set(Alloc(timers, "dhcp"), t, 10, "one_shot")
         /\ UNCHANGED <<ip, sent, granted>>

\* Everything at hand: the client starts with no address at all.
\* (dhcp_start tests only the state, and would start a second time before the
\* first timer event; main calls it once, so here it is called when stopped.)
dhcp_start ==
  /\ ~client.callback
  /\ LET s == SocketFor(sockets, PortAny)
         t == AllocHandle(timers)
     IN  /\ s # NoSocket /\ t # NoTimer
         /\ client' = [ZeroClient EXCEPT !.socket = s, !.timer = t, !.callback = TRUE]
         /\ sockets' = SocketAlloc(sockets, PortAny, "dhcp")
         /\ timers' = Set(Alloc(timers, "dhcp"), t, 10, "one_shot")
         /\ ip' = ZeroConfig
         /\ UNCHANGED <<sent, granted>>

\* DHCP_ERR_SOCKET_ALLOC
StartWithoutSocket ==
  /\ ~client.callback
  /\ SocketFor(sockets, PortAny) = NoSocket
  /\ client' = [ZeroClient EXCEPT !.socket = NoSocket]
  /\ UNCHANGED <<ip, sockets, timers, sent, granted>>

\* Mutation: the socket is not given back.
StartWithoutTimer_KeepsSocket ==
  /\ ~client.callback
  /\ SocketFor(sockets, PortAny) # NoSocket /\ AllocHandle(timers) = NoTimer
  /\ client' = [ZeroClient EXCEPT !.socket = SocketFor(sockets, PortAny), !.timer = NoTimer]
  /\ sockets' = SocketAlloc(sockets, PortAny, "dhcp")
  /\ UNCHANGED <<ip, timers, sent, granted>>

\* DHCP_ERR_TIMER_ALLOC: the socket was taken and is given back.
StartWithoutTimer ==
  /\ ~client.callback
  /\ SocketFor(sockets, PortAny) # NoSocket /\ AllocHandle(timers) = NoTimer
  /\ client' = [ZeroClient EXCEPT !.socket = SocketFor(sockets, PortAny), !.timer = NoTimer]
  /\ sockets' = SocketFree(SocketAlloc(sockets, PortAny, "dhcp"), SocketFor(sockets, PortAny))
  /\ UNCHANGED <<ip, timers, sent, granted>>

\* dhcp_free, with its timer.
Freed == client' = ZeroClient /\ sockets' = SocketFree(sockets, client.socket)

\* Whatever the client's state: the handles of a client that is not started are 0 and
\* 0, or those a failed dhcp_start left, and they are freed whoever has them.
dhcp_stop ==
  /\ Freed
  /\ timers' = Free(timers, client.timer)
  /\ UNCHANGED <<ip, sent, granted>>

-----------------------------------------------------------------------------
(* The timer.                                                              *)

DhcpTimerRuns == client.callback /\ Running(timers, client.timer)

\* dhcp_send binds before it sends; a socket that cannot be bound stays as it is.
BoundForSend(c) ==
  IF CanBindLocal(sockets, c.socket, UDP_PORT_BOOTPC)
  THEN BindRemote(BindLocal(sockets, c.socket, UDP_PORT_BOOTPC), c.socket,
                  UDP_PORT_BOOTPS, IF c.state = "rebinding" THEN c.server ELSE ZeroIp)
  ELSE sockets

Message(c) ==
  IF c.state = "selecting"
  THEN [type |-> "DISCOVER", addr |-> ZeroIp, server |-> ZeroIp, ciaddr |-> ip.addr]
  ELSE [type |-> "REQUEST", addr |-> c.addr, server |-> c.server, ciaddr |-> ip.addr]

\* udp_send.  The arp table knows the target or does not.
dhcp_send(c) ==
  /\ sockets' = BoundForSend(c)
  /\ \E known \in SUBSET {ArpTarget(ip, sockets'[c.socket].ipRemote)} :
       sent' = IF /\ CanBindLocal(sockets, c.socket, UDP_PORT_BOOTPC)
                  /\ UdpLeaves(sockets', c.socket, ip, known)
               THEN sent \union {Message(c)} ELSE sent

\* The message goes out and the timer is set for the next, which timer_tick
\* undoes when the callback returns.
SentAndArmed(c) ==
  /\ client' = c
  /\ dhcp_send(c)
  /\ timers' = AfterCallback(Set(timers, c.timer, 1000, "one_shot"), c.timer)
  /\ UNCHANGED ip

\* From init and selecting.  The count begins at 0xff and is incremented first.
\* After the last message the owner is told, and falls back to the static addresses.
TimerDiscover ==
  /\ DhcpTimerRuns
  /\ client.state \in {"init", "selecting"}
  /\ LET c == [client EXCEPT !.state = "selecting",
                             !.rtx = IF client.state = "init" THEN 0 ELSE (@ + 1) % 256]
     IN  IF c.rtx <= DHCP_RTX THEN SentAndArmed(c)
         ELSE /\ Freed
              /\ timers' = AfterCallback(Free(timers, client.timer), client.timer)
              /\ ip' = StaticConfig
              /\ UNCHANGED sent
  /\ UNCHANGED granted

\* From bound, rebinding and requesting.  After the last message the client is
\* freed, but the function goes on: dhcp_send finds state init and does nothing,
\* and the timer that is set is the one whose number is in the cleared record.
TimerRequest ==
  /\ DhcpTimerRuns
  /\ client.state \in {"bound", "rebinding", "requesting"}
  /\ LET c == [client EXCEPT !.state = IF @ = "bound" THEN "rebinding" ELSE @,
                             !.rtx = IF client.state = "bound" THEN 0 ELSE (@ + 1) % 256]
     IN  IF c.rtx <= DHCP_RTX THEN SentAndArmed(c)
         ELSE /\ Freed
              /\ timers' = AfterCallback(Set(Free(timers, client.timer), ZeroClient.timer,
                                             1000, "one_shot"), client.timer)
              /\ ip' = IF client.state = "requesting" THEN StaticConfig ELSE ip
              /\ UNCHANGED sent
  /\ UNCHANGED granted

-----------------------------------------------------------------------------
(* The servers, and the socket.                                            *)

\* What server s may answer to message m: the one who is asked, or all of them.
\* It broadcasts unless the client has an address.
Answers(s, m) ==
  LET answer(type) == [type |-> type, from |-> s,
                       addr |-> IF type = "NAK" THEN ZeroIp ELSE LeaseOf[s],
                       dst |-> IF m.ciaddr = ZeroIp THEN AllOnes ELSE m.ciaddr]
  IN  CASE m.type = "DISCOVER"                      -> {answer("OFFER")}
        [] m.type = "REQUEST" /\ m.server # s       -> {}
        [] m.type = "REQUEST" /\ m.addr # LeaseOf[s] -> {answer("NAK")}
        [] OTHER                                    -> {answer("ACK"), answer("NAK")}

\* Mutation: the server's option goes into the wrong field.
Parsed_WrongField(answer) ==
  [client EXCEPT !.addr = answer.from, !.server = answer.from]

\* dhcp_parse_options, before the state or the type of the message is looked at.
\* A refusal carries no mask, router or time.
Parsed(answer) ==
  IF answer.type = "NAK"
  THEN [client EXCEPT !.addr = answer.addr, !.server = answer.from]
  ELSE [client EXCEPT !.addr = answer.addr, !.server = answer.from,
                      !.gateway = answer.from, !.netmask = NetMask,
                      !.rebind = LeaseTime[answer.from]]

\* uint32_t seconds to the int32_t of timer_set.
Milliseconds(seconds) ==
  LET ms == (seconds * Second) % TimeModulus
  IN  IF 2 * ms < TimeModulus THEN ms ELSE ms - TimeModulus

\* Mutation: the remote end is bound by the client's own calls only.
SocketsOf_Unbound(answer) == sockets

\* An answer that ip.c takes and that udp.c has the client's socket for ...
Arrives(answer) ==
  /\ Accepts(ip, answer.dst)
  /\ LET to == Receivers(sockets, answer.from, UDP_PORT_BOOTPS, UDP_PORT_BOOTPC)
     IN  client.callback /\ to # {} /\ Lowest(to) = client.socket

\* ... which belongs to the sender before the callback is called.
SocketsOf(answer) == Delivered(sockets, client.socket, answer.from, UDP_PORT_BOOTPS)

\* Not what the state waits for: nothing follows, but it has been parsed.  (In
\* state init the socket does not have its port yet, and nothing arrives.)
ReceiveIgnored(answer) ==
  /\ Arrives(answer)
  /\ \/ client.state \in {"init", "bound"}
     \/ client.state = "selecting" /\ answer.type # "OFFER"
     \/ client.state \in {"requesting", "rebinding"} /\ answer.type = "OFFER"
  /\ client' = Parsed(answer)
  /\ sockets' = SocketsOf(answer)
  /\ UNCHANGED <<ip, timers, sent, granted>>

ReceiveOffer(answer) ==
  /\ Arrives(answer)
  /\ client.state = "selecting" /\ answer.type = "OFFER"
  /\ client' = [Parsed(answer) EXCEPT !.state = "requesting", !.rtx = 255]
  /\ sockets' = SocketsOf(answer)
  /\ timers' = Set(timers, client.timer, 1, "one_shot")
  /\ UNCHANGED <<ip, sent, granted>>

\* The owner is told that the lease is denied or has expired.
ReceiveNak(answer) ==
  /\ Arrives(answer)
  /\ client.state \in {"requesting", "rebinding"} /\ answer.type = "NAK"
  /\ Freed
  /\ timers' = Free(timers, client.timer)
  /\ UNCHANGED <<ip, sent, granted>>

\* Mutation: only the first acknowledgment sets the timer.
ReceiveAck_FirstArms(answer) ==
  /\ Arrives(answer)
  /\ client.state \in {"requesting", "rebinding"} /\ answer.type = "ACK"
  /\ LET c == Parsed(answer)
     IN  /\ client' = [c EXCEPT !.state = "bound"]
         /\ ip' = [addr |-> c.addr, netmask |-> c.netmask, gateway |-> c.gateway]
         /\ timers' = IF client.state = "rebinding" THEN timers
                      ELSE Set(timers, c.timer, Milliseconds(c.rebind), "one_shot")
  /\ sockets' = SocketsOf(answer)
  /\ granted' = <<answer.addr, answer.from>>
  /\ UNCHANGED sent

\* A lease that is negative as an int32_t is refused by timer_set.
ReceiveAck(answer) ==
  /\ Arrives(answer)
  /\ client.state \in {"requesting", "rebinding"} /\ answer.type = "ACK"
  /\ LET c == Parsed(answer)
     IN  /\ client' = [c EXCEPT !.state = "bound"]
         /\ ip' = [addr |-> c.addr, netmask |-> c.netmask, gateway |-> c.gateway]
         /\ timers' = Set(timers, c.timer, Milliseconds(c.rebind), "one_shot")
  /\ sockets' = SocketsOf(answer)
  /\ granted' = <<answer.addr, answer.from>>
  /\ UNCHANGED sent

dhcp_udp_callback(answer) ==
  \/ ReceiveIgnored(answer)
  \/ ReceiveOffer(answer)
  \/ ReceiveNak(answer)
  \/ ReceiveAck(answer)

Receive == \E m \in sent : \E s \in Servers : \E answer \in Answers(s, m) :
             dhcp_udp_callback(answer)

-----------------------------------------------------------------------------
(* The other users of the two tables.  They free and use what is theirs:   *)
(* one that has lost a socket or a timer to dhcp_stop does not touch it    *)
(* again.  Timer 0, which arp.c has, is stopped and never freed.           *)

OtherAllocates(port) ==
  /\ SocketFor(sockets, port) # NoSocket
  /\ sockets' = SocketAlloc(sockets, port, "other")
  /\ UNCHANGED <<client, ip, timers, sent, granted>>

OtherFrees(s) ==
  /\ sockets[s].callback = "other"
  /\ sockets' = SocketFree(sockets, s)
  /\ UNCHANGED <<client, ip, timers, sent, granted>>

OtherAllocatesTimer ==
  /\ AllocHandle(timers) # NoTimer
  /\ timers' = Set(Alloc(timers, "other"), AllocHandle(timers), 1, "periodic")
  /\ UNCHANGED <<client, ip, sockets, sent, granted>>

OtherTimerEnds(t) ==
  /\ timers[t].callback = "other"
  /\ timers' = IF t = 0 THEN Stop(timers, t) ELSE Free(timers, t)
  /\ UNCHANGED <<client, ip, sockets, sent, granted>>

Others ==
  \/ \E port \in OtherPorts : OtherAllocates(port)
  \/ \E s \in UdpSockets : OtherFrees(s)
  \/ OtherAllocatesTimer
  \/ \E t \in Timers : OtherTimerEnds(t)

DhcpTimer == TimerDiscover \/ TimerRequest

Next ==
  \/ dhcp_start \/ StartWithoutSocket \/ StartWithoutTimer \/ dhcp_stop
  \/ DhcpTimer
  \/ Receive
  \/ Others

Spec == Init /\ [][Next]_vars

\* The tick comes again and again, and serves every timer that runs.
FairSpec == Spec /\ WF_vars(DhcpTimer)

-----------------------------------------------------------------------------
(* Properties.                                                             *)

\* The client holds one socket and one timer from a successful dhcp_start on,
\* and none after it has stopped, been refused, given up or failed to start.
ResourcesHeld ==
  LET mySockets == {s \in UdpSockets : sockets[s].callback = "dhcp"}
      myTimers == {t \in Timers : timers[t].callback = "dhcp"}
  IN  IF client.callback
      THEN mySockets = {client.socket} /\ myTimers = {client.timer}
      ELSE mySockets = {} /\ myTimers = {}

\* No two sockets of the table share a port, although the client moves from the
\* port it was given to port 68 while others allocate and free.
PortsUnique == UniquePorts(sockets)

\* No step of the client changes a socket or a timer of another module, but for the
\* one call that does: dhcp_stop of a client that is not started (dhcp.c:702-711).
\* The calls a client that gives up makes with the handles 0 of its cleared record
\* (dhcp.c:504-508) would too, if timer_tick let them be reached (timer.c:74).
OthersUntouched ==
  [][\/ Others
     \/ dhcp_stop /\ ~client.callback
     \/ /\ \A s \in UdpSockets : sockets[s].callback = "other" => sockets'[s] = sockets[s]
        /\ \A t \in Timers : timers[t].callback = "other" => timers'[t] = timers[t]]_vars

\* The address in use was acknowledged by the server the lease will be renewed
\* with.  Every answer is parsed into the client before it is looked at
\* (dhcp.c:388), so this rests on udp.c, which gives the socket to the sender
\* of the acknowledgment and keeps the other servers' late offers out.
RenewsWithGrantor ==
  client.state \in {"bound", "rebinding"} => <<ip.addr, client.server>> = granted

\* A lease whose time timer_set accepts is timed: while the client is bound, its
\* timer runs, after the first acknowledgment and after every renewal.
BoundIsArmed ==
  client.state = "bound" /\ Milliseconds(client.rebind) >= 0
    => Running(timers, client.timer)

\* Until there is a lease, 0.0.0.0 is the broadcast address, because dhcp_start
\* has cleared the mask: what the client sends needs no entry of the arp table.
SendsBroadcast ==
  client.callback /\ client.state \in {"init", "selecting", "requesting"}
    => IsBroadcast(ip, ZeroIp)

\* dhcp.c:471 and 475, "resend DHCPDISCOVER" and "if max number of retransissions
\* exceeds send timeout event to user": a client that gets no offer does not wait
\* for one for ever.
SelectingEnds == client.state = "selecting" ~> client.state # "selecting"
=============================================================================
