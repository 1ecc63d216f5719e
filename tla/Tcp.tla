--------------------------------- MODULE Tcp ---------------------------------
(***************************************************************************)
(* The socket table and the connection state machine of net/tcp.c, with    *)
(* the two pools it draws on (timers of sys/timer.c, fifos of util/fifo.c) *)
(* and the applications that call it and are called back.                  *)
(*                                                                         *)
(* Scheduling.  The firmware runs to completion in interrupt handlers that *)
(* do not nest, so a handler is never preempted; but in its middle it may  *)
(* call the socket owner's callback, which calls back into tcp.c, and only *)
(* then goes on with whatever the callback has left.  stack is that call   *)
(* stack: a "callback" frame while application code runs, and under it a   *)
(* frame naming the point at which tcp.c goes on.  A segment or a timer is *)
(* handled only when the stack is empty.                                   *)
(*                                                                         *)
(* The network.  A received segment is any segment: its sequence and       *)
(* acknowledgment numbers are abstracted to how they compare with the TCB, *)
(* to the classes the code tells apart, so loss, duplication, reordering,  *)
(* old segments and restarted peers are all included.  Of the segments sent only two things *)
(* matter here: whether ip_send_packet found the hardware address, and     *)
(* whether a FIN has left.                                                 *)
(***************************************************************************)
EXTENDS TimerPool, Sequences

CONSTANTS
  MaxSockets,    (* TCP_MAX_SOCKETS                                        *)
  FifoCount,     (* FIFO_MAX_COUNT                                         *)
  FifoSize,      (* FIFO_SIZE, in units of application data                *)
  ListenPorts,   (* Ports the servers listen on.                           *)
  FirstEphemeral,(* 1024, the first port tcp_port_find_unused tries.       *)
  Remotes,       (* Remote endpoints, address and port together.           *)
  Nobody,        (* The remote endpoint of a cleared TCB.                  *)
  Apps, NoApp,   (* The socket callbacks, and the null pointer.            *)
  Calls,         (* Calls[app][event]: what its callback may call.         *)
  MainCalls,     (* MainCalls[app]: what it may call from elsewhere.       *)
  SendResults,   (* What ip_send_packet may return.                        *)
  OtherTimers,   (* How many timers other modules may hold.                *)
  RtxSynAck, RtxSyn, RtxData, RtxFin,  (* TCP_RTX_...                      *)
  MaxLen         (* Bound of the model: units of data in one segment.      *)

Sockets == 0 .. MaxSockets - 1
Fifos == 1 .. FifoCount
NoFifo == 0
Unowned == -1         \* the length of a fifo nobody has allocated
NoPort == 0
EphemeralPorts == FirstEphemeral .. FirstEphemeral + MaxSockets
Ports == ListenPorts \union EphemeralPorts

Events == {"incoming", "error", "timeout", "established", "reset",
           "data_received", "data_acked", "closed", "idle"}
ApiNames == {"alloc", "listen", "connect", "accept", "close", "free", "read", "write"}

ASSUME SizesAssumption ==
  /\ MaxSockets \in Nat \ {0} /\ FifoSize \in Nat \ {0}
  /\ FifoCount \in Nat /\ FifoCount % 2 = 0
  /\ FirstEphemeral \in Nat \ {0} /\ ListenPorts \subseteq Nat \ {0}
ASSUME NamesAssumption ==
  Nobody \notin Remotes /\ NoApp \notin Apps /\ NoCallback \notin {"tcp_timeout", "other"}
ASSUME AppsAssumption ==
  /\ Calls \in [Apps -> [Events -> SUBSET ApiNames]]
  /\ MainCalls \in [Apps -> SUBSET ApiNames]
ASSUME SendResultsAssumption == SendResults \subseteq BOOLEAN
ASSUME OtherTimersAssumption == OtherTimers \subseteq Nat \ {0}
ASSUME RtxAssumption ==
  /\ MaxLen \in Nat
  /\ RtxSynAck \in Nat /\ RtxSyn \in Nat /\ RtxData \in Nat /\ RtxFin \in Nat

VARIABLES
  tcb,      (* tcp_tcbs                                                    *)
  timers,   (* the timer table, see TimerPool                              *)
  fifo,     (* fifo[f]: its length, or Unowned                             *)
  stack     (* the call stack of the handler under way, innermost first    *)

\* History, read by the properties and by no guard.
VARIABLES
  told,     (* told[s]: where the owner is after the events it was given   *)
  finSent   (* finSent[s]: a FIN of the current connection has been sent   *)

vars == <<tcb, timers, fifo, stack, told, finSent>>

-----------------------------------------------------------------------------
(* The table.                                                              *)

\* closing, which the code names too, is never entered: TypeOK leaves it out.
TcpStates == {"unused", "listen", "syn_sent", "syn_received", "established",
              "fin_wait_1", "fin_wait_2", "close_wait", "last_ack", "time_wait",
              "closed", "not_accepted", "accepted", "start_close"}

Tcb == [state : TcpStates, callback : Apps \union {NoApp},
        port : Ports \union {NoPort}, remote : Remotes \union {Nobody},
        seqNext : Nat, timer : Timers \union {NoTimer}, rtx : Int,
        rx : Fifos \union {NoFifo}, tx : Fifos \union {NoFifo}]

\* A TCB of zero bytes, as tcp_init and tcp_tcb_free leave it.  Its timer
\* field reads 0, which is a valid handle: that of somebody else's timer.
ZeroTcb == [state |-> "unused", callback |-> NoApp, port |-> NoPort,
            remote |-> Nobody, seqNext |-> 0, timer |-> 0, rtx |-> 0,
            rx |-> NoFifo, tx |-> NoFifo]

\* The timer that arp_init allocates before the TCP ones, once it has fired.  Others,
\* of app/dhcp.c or app/tp.c, may follow it.
ForeignTimer == 0
ForeignEntry == [callback |-> "other", arg |-> NoArg,
                 state |-> "stopped", mode |-> "one_shot"]

CallbackFrame == [at : {"callback"}, sock : Sockets, app : Apps \union {NoApp},
                  event : Events]
IncomingFrame == [at : {"incoming"}, sock : Sockets, listener : Sockets]
DropFrame == [at : {"drop"}, sock : Sockets]
TickFrame == [at : {"tick"}, timer : Timers]
SegmentFrame == [at : {"arm_idle", "acked", "rearm", "text", "received", "fin"},
                 sock : Sockets, len : Nat, fin : BOOLEAN]
Frame == CallbackFrame \union IncomingFrame \union DropFrame \union TickFrame
           \union SegmentFrame

TypeOK ==
  /\ tcb \in [Sockets -> Tcb]
  /\ timers \in [Timers -> [callback : {NoCallback, "tcp_timeout", "other"},
                            arg : Sockets \union {NoArg},
                            state : States, mode : Modes]]
  /\ fifo \in [Fifos -> 0 .. FifoSize \union {Unowned}]
  /\ stack \in Seq(Frame)
  /\ told \in [Sockets -> {"nothing", "opening", "open", "over", "wrong"}]
  /\ finSent \in [Sockets -> BOOLEAN]

Init ==
  /\ tcb = [s \in Sockets |-> ZeroTcb]
  /\ \E taken \in OtherTimers :
       timers = [t \in Timers |-> IF t < taken THEN ForeignEntry ELSE EmptyEntry]
  /\ fifo = [f \in Fifos |-> Unowned]
  /\ stack = <<>>
  /\ told = [s \in Sockets |-> "nothing"]
  /\ finSent = [s \in Sockets |-> FALSE]

-----------------------------------------------------------------------------
(* Lookups.                                                                *)

Least(m, n) == IF m <= n THEN m ELSE n

InUse(s) == tcb[s].state # "unused"

UnusedSockets == {s \in Sockets : ~InUse(s)}

\* tcp_free_port: no TCB in use has the port, closed ones included.
PortFree(port) == \A s \in Sockets : InUse(s) => tcb[s].port # port

FindUnusedPort == Lowest({p \in EphemeralPorts : PortFree(p)})

Connected(port, remote) ==
  {s \in Sockets : /\ tcb[s].state \notin {"unused", "listen", "closed"}
                   /\ tcb[s].port = port /\ tcb[s].remote = remote}
Waiting(port) ==
  {s \in Sockets : tcb[s].state \in {"listen", "closed"} /\ tcb[s].port = port}

NoSocket == -1

\* Mutation: the scan stops at a listening or closed TCB.
Demux_StopsAtListener(port, remote) ==
  IF Waiting(port) # {} THEN Lowest(Waiting(port))
  ELSE IF Connected(port, remote) # {} THEN Lowest(Connected(port, remote))
  ELSE NoSocket

\* tcp_handle_packet: the first connection that matches both ends, otherwise
\* the LAST listening or closed TCB on the port.
Demux(port, remote) ==
  IF Connected(port, remote) # {} THEN Lowest(Connected(port, remote))
  ELSE IF Waiting(port) # {} THEN Highest(Waiting(port))
  ELSE NoSocket

FifoLength(f) == IF f = NoFifo THEN 0 ELSE fifo[f]
FifoSpace(f) == IF f = NoFifo THEN 0 ELSE FifoSize - fifo[f]
Queued(t) == FifoLength(t.tx)

FreeFifos == {f \in Fifos : fifo[f] = Unowned}

-----------------------------------------------------------------------------
(* Pieces shared by the handlers.  Each says what becomes of one variable. *)

\* Where the owner of a socket stands after one more event.
TellNext(old, event) ==
  CASE event = "incoming" -> "opening"
    [] event = "established" -> IF old = "opening" THEN "open" ELSE "wrong"
    [] event \in {"data_received", "data_acked", "idle"} ->
         IF old = "open" THEN "open" ELSE "wrong"
    [] event \in {"error", "timeout", "reset", "closed"} ->
         IF old \in {"opening", "open"} THEN "over" ELSE "wrong"

\* tcb->callback(socket, event), then go on at the frames in below.
Raise(s, app, event, below) ==
  /\ stack' = <<[at |-> "callback", sock |-> s, app |-> app, event |-> event]>> \o below
  /\ told' = [told EXCEPT ![s] = TellNext(@, event)]

GoOn(below) == stack' = below /\ UNCHANGED told

ArmTimer(t) == timers' = Set(timers, t.timer, 1, "one_shot")

\* Mutation: the timer is left running.
TcbClose_LeavesTimer(s, t, event, below) ==
  /\ tcb' = [tcb EXCEPT ![s] = [t EXCEPT !.state = "closed"]]
  /\ UNCHANGED timers
  /\ Raise(s, t.callback, event, below)

\* tcp_tcb_close(tcb, socket, event) on a TCB whose contents are t.
TcbClose(s, t, event, below) ==
  /\ tcb' = [tcb EXCEPT ![s] = [t EXCEPT !.state = "closed"]]
  /\ timers' = Stop(timers, t.timer)
  /\ Raise(s, t.callback, event, below)

\* Mutation: only the receive fifo is freed.
FifosWithout_KeepsTx(t) == [f \in Fifos |-> IF f = t.rx THEN Unowned ELSE fifo[f]]

FifosWithout(t) == [f \in Fifos |-> IF f \in {t.rx, t.tx} THEN Unowned ELSE fifo[f]]

\* Mutation: the timer is only stopped.
TcbFree_KeepsTimer(s) ==
  /\ timers' = Stop(timers, tcb[s].timer)
  /\ fifo' = FifosWithout(tcb[s])
  /\ tcb' = [tcb EXCEPT ![s] = ZeroTcb]
  /\ told' = [told EXCEPT ![s] = "nothing"]
  /\ finSent' = [finSent EXCEPT ![s] = FALSE]

\* tcp_tcb_free(tcb); with the TCB already cleared, timer_free hits timer 0.
TcbFree(s) ==
  /\ timers' = Free(timers, tcb[s].timer)
  /\ fifo' = FifosWithout(tcb[s])
  /\ tcb' = [tcb EXCEPT ![s] = ZeroTcb]
  /\ told' = [told EXCEPT ![s] = "nothing"]
  /\ finSent' = [finSent EXCEPT ![s] = FALSE]

\* tcp_send_packet(tcb, flags, 1): how far seq_next can get.  How much of the
\* queue one call sends depends on the peer's window and segment size.
SentUpTo(t) == t.seqNext .. Queued(t)

\* A FIN goes out only with the last byte of the queue.
FinLeaves(t, upTo) == upTo >= Queued(t)

-----------------------------------------------------------------------------
(* The socket API, called by main code or timers of other modules when no  *)
(* handler runs, or by the owner of a socket inside its callback.          *)

Idle == stack = <<>>

At(label) == stack # <<>> /\ Head(stack).at = label

MayCall(name, s) ==
  \/ /\ Idle
     /\ tcb[s].callback \in Apps
     /\ name \in MainCalls[tcb[s].callback]
  \/ /\ At("callback")
     /\ Head(stack).sock = s
     /\ Head(stack).app \in Apps
     /\ name \in Calls[Head(stack).app][Head(stack).event]

\* The applications start again only when they have no socket left.
tcp_socket_alloc(app) ==
  /\ Idle
  /\ "alloc" \in MainCalls[app]
  /\ \A s \in Sockets : tcb[s].callback # app
  /\ UnusedSockets # {}
  /\ FreeSlots(timers) # {}
  /\ LET s == Lowest(UnusedSockets)
         t == AllocHandle(timers)
     IN  /\ timers' = SetArg(Alloc(timers, "tcp_timeout"), t, s)
         /\ tcb' = [tcb EXCEPT ![s].state = "closed", ![s].callback = app,
                               ![s].timer = t]
  /\ UNCHANGED <<fifo, stack, told, finSent>>

\* The applications listen only on a socket they have just allocated.
tcp_listen(s, port) ==
  /\ Idle /\ MayCall("listen", s)
  /\ tcb[s].port = NoPort
  /\ PortFree(port)
  /\ tcb[s].state = "closed"
  /\ tcb' = [tcb EXCEPT ![s].port = port, ![s].state = "listen"]
  /\ UNCHANGED <<timers, fifo, stack, told, finSent>>

\* tcp_tcb_alloc_fifo: the pair of handles, NoFifo where the pool is empty.
FifoPair ==
  LET rx == IF FreeFifos = {} THEN NoFifo ELSE Lowest(FreeFifos)
      rest == FreeFifos \ {rx}
  IN  <<rx, IF rest = {} THEN NoFifo ELSE Lowest(rest)>>

\* The TCB after tcp_tcb_reset: only these fields survive.
Reset(t) == [ZeroTcb EXCEPT !.state = "closed", !.callback = t.callback,
                            !.timer = t.timer, !.port = t.port,
                            !.rx = t.rx, !.tx = t.tx]

\* With no fifo pair left the call fails, but the port is already taken.
\* The applications connect only a socket they have just allocated.
tcp_connect(s, remote) ==
  LET pair == FifoPair
      t == [tcb[s] EXCEPT !.port = FindUnusedPort, !.rx = pair[1], !.tx = pair[2]]
  IN  /\ Idle /\ MayCall("connect", s)
      /\ tcb[s].state = "closed"
      /\ tcb[s].port = NoPort
      /\ IF NoFifo \in {pair[1], pair[2]}
         THEN /\ tcb' = [tcb EXCEPT ![s] = t]
              /\ UNCHANGED <<timers, fifo, told>>
         ELSE /\ tcb' = [tcb EXCEPT ![s] = [Reset(t) EXCEPT !.remote = remote,
                                                            !.rtx = RtxSyn]]
              /\ fifo' = [fifo EXCEPT ![pair[1]] = 0, ![pair[2]] = 0]
              /\ ArmTimer(t)
              /\ told' = [told EXCEPT ![s] = "opening"]
      /\ finSent' = [finSent EXCEPT ![s] = FALSE]
      /\ UNCHANGED stack

tcp_accept(s) ==
  /\ MayCall("accept", s)
  /\ tcb[s].state = "not_accepted"
  /\ tcb' = [tcb EXCEPT ![s].state = "accepted"]
  /\ UNCHANGED <<timers, fifo, stack, told, finSent>>

\* The applications forget a socket once they have freed it.
tcp_socket_free(s) ==
  /\ MayCall("free", s)
  /\ InUse(s)
  /\ TcbFree(s)
  /\ UNCHANGED stack

tcp_read(s, n) ==
  /\ MayCall("read", s)
  /\ FifoLength(tcb[s].rx) > 0
  /\ fifo' = [fifo EXCEPT ![tcb[s].rx] = @ - Least(n, @)]
  /\ UNCHANGED <<tcb, timers, stack, told, finSent>>

\* Mutation: the length is not cut to the space there is.
tcp_write_Unbounded(s, n) ==
  /\ MayCall("write", s)
  /\ tcb[s].state = "established"
  /\ fifo' = [fifo EXCEPT ![tcb[s].tx] = @ + n]
  /\ tcb' = [tcb EXCEPT ![s].rtx = RtxData]
  /\ ArmTimer(tcb[s])
  /\ UNCHANGED <<stack, told, finSent>>

\* What does not fit is dropped; the return value says so.
tcp_write(s, n) ==
  LET t == tcb[s]
      length == Least(Queued(t) + n, FifoSize)
  IN  /\ MayCall("write", s)
      /\ t.state = "established"
      /\ fifo' = [fifo EXCEPT ![t.tx] = length]
      /\ tcb' = [tcb EXCEPT ![s].rtx = RtxData]
      /\ ArmTimer(t)
      /\ UNCHANGED <<stack, told, finSent>>

CallbackReturn ==
  /\ At("callback")
  /\ stack' = Tail(stack)
  /\ UNCHANGED <<tcb, timers, fifo, told, finSent>>

-----------------------------------------------------------------------------
(* tcp_timeout(timer, tcb).  It is called by the timer tick and, directly, *)
(* by tcp_close.  t is the TCB on entry; below is the caller's frame.      *)

\* The timer_set that ends the function.
Rearmed(s, t, below) ==
  /\ tcb' = [tcb EXCEPT ![s] = t]
  /\ ArmTimer(t)
  /\ GoOn(below)

TimeoutGiveUp(s, t, below) ==
  /\ t.rtx - 1 < 0
  /\ TcbClose(s, [t EXCEPT !.rtx = @ - 1], "timeout", below)
  /\ UNCHANGED <<fifo, finSent>>

\* The SYN of tcp_connect, sent again from syn_sent.  In the closed state a
\* failure is put down to the missing hardware address and tried again.
TimeoutSyn(s, t, below) ==
  /\ t.rtx - 1 >= 0
  /\ t.state \in {"closed", "syn_sent"}
  /\ \E sent \in SendResults :
       IF ~sent /\ t.state = "syn_sent"
       THEN TcbClose(s, [t EXCEPT !.rtx = @ - 1], "error", below)
       ELSE Rearmed(s, [t EXCEPT !.rtx = @ - 1,
                                 !.state = IF sent THEN "syn_sent" ELSE "closed"], below)
  /\ UNCHANGED <<fifo, finSent>>

TimeoutSynAck(s, t, below) ==
  /\ t.rtx - 1 >= 0
  /\ t.state = "syn_received"
  /\ \E sent \in SendResults :
       IF sent THEN Rearmed(s, [t EXCEPT !.rtx = @ - 1], below)
       ELSE TcbClose(s, [t EXCEPT !.rtx = @ - 1], "error", below)
  /\ UNCHANGED <<fifo, finSent>>

\* Data queued: send it again from the start.  When that fails and the
\* hardware address is known the connection is closed, otherwise the timer is
\* left as it is.
TimeoutData(s, t, below) ==
  LET again == [t EXCEPT !.rtx = @ - 1, !.seqNext = 0]
  IN  /\ t.rtx - 1 >= 0
      /\ t.state \in {"established", "start_close"}
      /\ Queued(t) > 0
      /\ \/ /\ TRUE \in SendResults
            /\ \E n \in SentUpTo(again) : Rearmed(s, [again EXCEPT !.seqNext = n], below)
         \/ /\ FALSE \in SendResults
            /\ \/ TcbClose(s, again, "error", below)
               \/ /\ tcb' = [tcb EXCEPT ![s] = again]
                  /\ GoOn(below)
                  /\ UNCHANGED timers
      /\ UNCHANGED <<fifo, finSent>>

\* Mutation: FIN is sent while data waits for its acknowledgment.
TimeoutStartClose_Early(s, t, below) ==
  /\ t.rtx - 1 >= 0
  /\ t.state = "start_close"
  /\ TRUE \in SendResults
  /\ Rearmed(s, [t EXCEPT !.rtx = RtxFin, !.state = "fin_wait_1"], below)
  /\ finSent' = [finSent EXCEPT ![s] = TRUE]
  /\ UNCHANGED fifo

\* Everything acknowledged and tcp_close called: send FIN.
TimeoutStartClose(s, t, below) ==
  /\ t.rtx - 1 >= 0
  /\ t.state = "start_close"
  /\ Queued(t) = 0
  /\ \E sent \in SendResults :
       /\ IF sent
          THEN Rearmed(s, [t EXCEPT !.rtx = RtxFin, !.state = "fin_wait_1"], below)
          ELSE TcbClose(s, [t EXCEPT !.rtx = @ - 1], "error", below)
       /\ finSent' = [finSent EXCEPT ![s] = @ \/ sent]
  /\ UNCHANGED fifo

TimeoutIdle(s, t, below) ==
  /\ t.rtx - 1 >= 0
  /\ t.state = "established"
  /\ Queued(t) = 0
  /\ tcb' = [tcb EXCEPT ![s] = [t EXCEPT !.rtx = @ - 1]]
  /\ Raise(s, t.callback, "idle", below)
  /\ UNCHANGED <<timers, fifo, finSent>>

\* close_wait sends what is queued and FIN with the last of it, and goes to
\* last_ack whether or not the FIN was reached; fin_wait_1 and last_ack repeat.
TimeoutFin(s, t, below) ==
  LET again == [t EXCEPT !.rtx = @ - 1, !.seqNext = 0]
  IN  /\ t.rtx - 1 >= 0
      /\ t.state \in {"close_wait", "fin_wait_1", "last_ack"}
      /\ \/ /\ TRUE \in SendResults
            /\ \E n \in SentUpTo(again) :
                 /\ IF t.state = "close_wait"
                    THEN Rearmed(s, [again EXCEPT !.seqNext = n, !.rtx = 0,
                                                  !.state = "last_ack"], below)
                    ELSE Rearmed(s, [again EXCEPT !.seqNext = n], below)
                 /\ finSent' = [finSent EXCEPT ![s] = @ \/ FinLeaves(t, n)]
         \/ /\ FALSE \in SendResults
            /\ TcbClose(s, again, "error", below)
            /\ UNCHANGED finSent
      /\ UNCHANGED fifo

TimeoutEnd(s, t, below) ==
  /\ t.rtx - 1 >= 0
  /\ t.state \in {"fin_wait_2", "time_wait"}
  /\ TcbClose(s, [t EXCEPT !.rtx = @ - 1],
              IF t.state = "time_wait" THEN "closed" ELSE "timeout", below)
  /\ UNCHANGED <<fifo, finSent>>

tcp_timeout(s, t, below) ==
  \/ TimeoutGiveUp(s, t, below)
  \/ TimeoutSyn(s, t, below)
  \/ TimeoutSynAck(s, t, below)
  \/ TimeoutData(s, t, below)
  \/ TimeoutStartClose(s, t, below)
  \/ TimeoutIdle(s, t, below)
  \/ TimeoutFin(s, t, below)
  \/ TimeoutEnd(s, t, below)

\* timer_tick reaches a running timer of a socket.
TimerExpires(s) ==
  LET t == tcb[s].timer
  IN  /\ Idle
      /\ Running(timers, t)
      /\ timers[t].callback = "tcp_timeout" /\ timers[t].arg = s
      /\ tcp_timeout(s, tcb[s], <<[at |-> "tick", timer |-> t]>>)

\* The timer's callback has returned to timer_tick.
TickEnds ==
  /\ At("tick")
  /\ timers' = AfterCallback(timers, Head(stack).timer)
  /\ stack' = Tail(stack)
  /\ UNCHANGED <<tcb, fifo, told, finSent>>

tcp_close(s) ==
  /\ MayCall("close", s)
  /\ \/ /\ tcb[s].state = "established"
        /\ \/ TimeoutGiveUp(s, [tcb[s] EXCEPT !.state = "start_close"], stack)
           \/ TimeoutData(s, [tcb[s] EXCEPT !.state = "start_close"], stack)
           \/ TimeoutStartClose(s, [tcb[s] EXCEPT !.state = "start_close"], stack)
     \/ /\ tcb[s].state = "listen"
        /\ tcb' = [tcb EXCEPT ![s].state = "closed"]
        /\ UNCHANGED <<timers, fifo, stack, told, finSent>>

-----------------------------------------------------------------------------
(* tcp_handle_packet and tcp_state_machine.  One action per class of       *)
(* segments the code tells apart in a state; what the rest of the function *)
(* needs of the segment is len, its data, and fin, its FIN bit.  Segments  *)
(* that change nothing have no action: one with a bad checksum or length,  *)
(* one that finds no socket or a closed one (answered with RST), a refused *)
(* one at a listener (RST), one out of order (answered with ACK), one      *)
(* without ACK, and one with an old acknowledgment.                        *)

Lengths == 0 .. MaxLen

\* The socket a segment for the port of s, from remote, is handed to is s.
Reached(s, remote) == Idle /\ Demux(tcb[s].port, remote) = s

Resume(label, s, len, fin) == <<[at |-> label, sock |-> s, len |-> len, fin |-> fin]>>

(* LISTEN.                                                                 *)

\* SYN without ACK or RST.  It takes a TCB, a timer and two fifos and asks the
\* owner of the listener about the connection.  With no TCB or no fifos left
\* it is ignored; with no timer left the connection goes on without one.
RcvListenSyn(l, remote) ==
  LET pair == FifoPair
      timer == AllocHandle(timers)
      new == Lowest(UnusedSockets)
  IN  /\ Reached(l, remote)
      /\ tcb[l].state = "listen"
      /\ UnusedSockets # {}
      /\ NoFifo \notin {pair[1], pair[2]}
      /\ tcb' = [tcb EXCEPT ![new] =
                   [ZeroTcb EXCEPT !.state = "not_accepted",
                                   !.callback = tcb[l].callback,
                                   !.port = tcb[l].port, !.remote = remote,
                                   !.timer = timer,
                                   !.rx = pair[1], !.tx = pair[2]]]
      /\ timers' = SetArg(Alloc(timers, "tcp_timeout"), timer, new)
      /\ fifo' = [fifo EXCEPT ![pair[1]] = 0, ![pair[2]] = 0]
      /\ Raise(new, tcb[l].callback, "incoming",
               <<[at |-> "incoming", sock |-> new, listener |-> l]>>)
      /\ UNCHANGED finSent

\* Mutation: the return after tcp_tcb_free is missing.
IncomingRefused_GoesOn(new) ==
  /\ tcb[new].state # "accepted"
  /\ timers' = Set(Free(timers, tcb[new].timer), ZeroTcb.timer, 1, "one_shot")
  /\ fifo' = FifosWithout(tcb[new])
  /\ tcb' = [tcb EXCEPT ![new] = [ZeroTcb EXCEPT !.state = "syn_received"]]
  /\ stack' = Tail(stack)
  /\ UNCHANGED <<told, finSent>>

\* The owner has returned.  A connection it did not accept is refused.
IncomingRefused(new) ==
  /\ tcb[new].state # "accepted"
  /\ TcbFree(new)
  /\ stack' = Tail(stack)

\* Otherwise SYN,ACK is sent.  If that fails the code closes tcb, the listener,
\* and reports the error under the number of the new socket.
IncomingAccepted(new, l) ==
  /\ tcb[new].state = "accepted"
  /\ \/ /\ TRUE \in SendResults
        /\ tcb' = [tcb EXCEPT ![new].state = "syn_received", ![new].rtx = RtxSynAck]
        /\ ArmTimer(tcb[new])
        /\ GoOn(Tail(stack))
     \/ /\ FALSE \in SendResults
        /\ tcb' = [tcb EXCEPT ![l].state = "closed"]
        /\ timers' = Stop(timers, tcb[l].timer)
        /\ Raise(new, tcb[l].callback, "error",
                 <<[at |-> "drop", sock |-> new]>> \o Tail(stack))
  /\ UNCHANGED <<fifo, finSent>>

Incoming ==
  /\ At("incoming")
  /\ \/ IncomingRefused(Head(stack).sock)
     \/ IncomingAccepted(Head(stack).sock, Head(stack).listener)

DropConnection ==
  /\ At("drop")
  /\ TcbFree(Head(stack).sock)
  /\ stack' = Tail(stack)

(* SYN-SENT.  Whatever arrives, the timer is stopped first.                *)

InSynSent(s) == tcb[s].state = "syn_sent" /\ Reached(s, tcb[s].remote)

\* SYN and an ACK of our SYN.
RcvSynSentSynAck(s) ==
  /\ InSynSent(s)
  /\ \E sent \in SendResults :
       IF sent
       THEN /\ tcb' = [tcb EXCEPT ![s].state = "established"]
            /\ timers' = Stop(timers, tcb[s].timer)
            /\ Raise(s, tcb[s].callback, "established", Resume("arm_idle", s, 0, FALSE))
       ELSE TcbClose(s, tcb[s], "error", <<>>)
  /\ UNCHANGED <<fifo, finSent>>

\* SYN alone: a simultaneous open.
RcvSynSentSyn(s) ==
  /\ InSynSent(s)
  /\ \E sent \in SendResults :
       IF sent THEN Rearmed(s, [tcb[s] EXCEPT !.state = "syn_received",
                                              !.rtx = RtxSynAck], <<>>)
       ELSE TcbClose(s, tcb[s], "error", <<>>)
  /\ UNCHANGED <<fifo, finSent>>

\* RST with ACK, whatever it acknowledges.
RcvSynSentReset(s) ==
  /\ InSynSent(s)
  /\ TcbClose(s, tcb[s], "error", <<>>)
  /\ UNCHANGED <<fifo, finSent>>

\* Everything else - an ACK of something else, RST without ACK, ACK without
\* SYN, none of the three - leaves the socket as it is but for its timer.
RcvSynSentOther(s) ==
  /\ InSynSent(s)
  /\ timers' = Stop(timers, tcb[s].timer)
  /\ UNCHANGED <<tcb, fifo, stack, told, finSent>>

(* The other states, a segment in order.                                   *)

DataStates == {"established", "start_close", "fin_wait_1", "fin_wait_2", "close_wait"}

SynchronizedStates == DataStates \union {"syn_received", "last_ack", "time_wait"}

InState(s, states) == tcb[s].state \in states /\ Reached(s, tcb[s].remote)

\* RST or SYN: the connection is over, but not in start_close, which is not
\* among the states the code tests.
RcvReset(s) ==
  /\ InState(s, SynchronizedStates \ {"start_close"})
  /\ TcbClose(s, tcb[s], "reset", <<>>)
  /\ UNCHANGED <<fifo, finSent>>

\* ACK of our SYN,ACK.
RcvSynReceivedAck(s, len, fin) ==
  /\ InState(s, {"syn_received"})
  /\ tcb' = [tcb EXCEPT ![s].state = "established"]
  /\ Raise(s, tcb[s].callback, "established", Resume("arm_idle", s, len, fin))
  /\ UNCHANGED <<timers, fifo, finSent>>

\* An ACK of nothing new - and, in fin_wait_2, of the FIN again, in time_wait
\* of anything: on to the text.
RcvAckNothing(s, len, fin) ==
  /\ InState(s, DataStates \union {"time_wait"})
  /\ GoOn(Resume("text", s, len, fin))
  /\ UNCHANGED <<tcb, timers, fifo, finSent>>

\* Mutation: seq_next is not moved with seq.
RcvAckData_KeepsNext(s, n, len, fin) ==
  /\ InState(s, DataStates)
  /\ n \in 1 .. tcb[s].seqNext
  /\ fifo' = [fifo EXCEPT ![tcb[s].tx] = @ - Least(n, @)]
  /\ tcb' = [tcb EXCEPT ![s].rtx = RtxData]
  /\ Raise(s, tcb[s].callback, "data_acked", Resume("acked", s, len, fin))
  /\ UNCHANGED <<timers, finSent>>

\* An ACK of n of the units in flight.
RcvAckData(s, n, len, fin) ==
  /\ InState(s, DataStates)
  /\ n \in 1 .. tcb[s].seqNext
  /\ fifo' = [fifo EXCEPT ![tcb[s].tx] = @ - Least(n, @)]
  /\ tcb' = [tcb EXCEPT ![s].seqNext = @ - n, ![s].rtx = RtxData]
  /\ Raise(s, tcb[s].callback, "data_acked", Resume("acked", s, len, fin))
  /\ UNCHANGED <<timers, finSent>>

\* An ACK of the FIN, one above tcb->seq.
RcvAckOfFin(s, len, fin) ==
  /\ InState(s, {"fin_wait_1"})
  /\ tcb[s].seqNext = 0
  /\ Rearmed(s, [tcb[s] EXCEPT !.state = "fin_wait_2"], Resume("text", s, len, fin))
  /\ UNCHANGED <<fifo, finSent>>

\* An ACK of something not yet sent: answered with an ACK and with whatever
\* data may be sent, and dropped.
RcvAckBeyond(s) ==
  /\ InState(s, DataStates)
  /\ \/ /\ TRUE \in SendResults
        /\ \E n \in SentUpTo(tcb[s]) : tcb' = [tcb EXCEPT ![s].seqNext = n]
        /\ UNCHANGED <<timers, stack, told>>
     \/ /\ FALSE \in SendResults
        /\ TcbClose(s, tcb[s], "error", <<>>)
  /\ UNCHANGED <<fifo, finSent>>

\* In last_ack, an ACK one above tcb->seq, and nothing queued.
RcvLastAck(s) ==
  /\ InState(s, {"last_ack"})
  /\ Queued(tcb[s]) = 0
  /\ TcbClose(s, tcb[s], "closed", <<>>)
  /\ UNCHANGED <<fifo, finSent>>

-----------------------------------------------------------------------------
(* What tcp_state_machine does after a callback, and the phases it goes    *)
(* through after the acknowledgment.                                       *)

Top == Head(stack)

\* After the established event: timer_set(IDLE), then the text.
ArmIdle ==
  /\ At("arm_idle")
  /\ ArmTimer(tcb[Top.sock])
  /\ GoOn(Resume("text", Top.sock, Top.len, Top.fin) \o Tail(stack))
  /\ UNCHANGED <<tcb, fifo, finSent>>

\* After the data_acked event: send on if there is more, else arm the timer.
MoreToSend(t) == Queued(t) > t.seqNext \/ (t.state = "start_close" /\ Queued(t) > 0)

Acked ==
  LET s == Top.sock
      text == Resume("text", s, Top.len, Top.fin) \o Tail(stack)
  IN  /\ At("acked")
      /\ \/ /\ MoreToSend(tcb[s]) /\ TRUE \in SendResults
            /\ \E n \in SentUpTo(tcb[s]) :
                 Rearmed(s, [tcb[s] EXCEPT !.seqNext = n], text)
         \/ /\ MoreToSend(tcb[s]) /\ FALSE \in SendResults
            /\ TcbClose(s, tcb[s], "error",
                        Resume("rearm", s, Top.len, Top.fin) \o Tail(stack))
         \/ /\ ~MoreToSend(tcb[s])
            /\ Rearmed(s, tcb[s], text)
      /\ UNCHANGED <<fifo, finSent>>

\* The timer_set after the failed send, on whatever the callback has left.
Rearm ==
  /\ At("rearm")
  /\ ArmTimer(tcb[Top.sock])
  /\ GoOn(Resume("text", Top.sock, Top.len, Top.fin) \o Tail(stack))
  /\ UNCHANGED <<tcb, fifo, finSent>>

\* The segment text.  Data that does not fit the rx fifo is not acknowledged,
\* and then the FIN is not looked at.
TextStates == {"established", "start_close", "fin_wait_1", "fin_wait_2"}

TextNone ==
  /\ At("text")
  /\ Top.len = 0 \/ tcb[Top.sock].state \notin TextStates
  /\ GoOn(Resume("fin", Top.sock, 0, Top.fin) \o Tail(stack))
  /\ UNCHANGED <<tcb, timers, fifo, finSent>>

TextNoRoom ==
  /\ At("text")
  /\ Top.len > 0 /\ tcb[Top.sock].state \in TextStates
  /\ FifoSpace(tcb[Top.sock].rx) = 0
  /\ GoOn(Tail(stack))
  /\ UNCHANGED <<tcb, timers, fifo, finSent>>

\* Some of it fits: queue it, acknowledge it (unless FIN follows) together with
\* data of our own, and tell the owner.
TextQueued ==
  LET s == Top.sock
      t == tcb[s]
      n == Least(Top.len, FifoSpace(t.rx))
  IN  /\ At("text")
      /\ Top.len > 0 /\ t.state \in TextStates
      /\ n > 0
      /\ fifo' = [fifo EXCEPT ![t.rx] = @ + n]
      /\ \/ /\ ~Top.fin /\ FALSE \in SendResults
            /\ TcbClose(s, t, "error", Tail(stack))
         \/ /\ Top.fin \/ TRUE \in SendResults
            /\ \E upTo \in IF Top.fin THEN {t.seqNext} ELSE SentUpTo(t) :
                 tcb' = [tcb EXCEPT ![s].seqNext = upTo]
            /\ IF t.state = "established" /\ Queued(t) < 1
               THEN ArmTimer(t) ELSE UNCHANGED timers
            /\ Raise(s, t.callback, "data_received",
                     Resume("received", s, Top.len - n, Top.fin) \o Tail(stack))
      /\ UNCHANGED finSent

\* After the data_received event.
Received ==
  /\ At("received")
  /\ GoOn(IF Top.len > 0 THEN Tail(stack)
          ELSE Resume("fin", Top.sock, 0, Top.fin) \o Tail(stack))
  /\ UNCHANGED <<tcb, timers, fifo, finSent>>

\* The FIN bit.
FinIgnored ==
  /\ At("fin")
  /\ ~Top.fin \/ tcb[Top.sock].state \in {"closed", "listen", "syn_sent"}
  /\ GoOn(Tail(stack))
  /\ UNCHANGED <<tcb, timers, fifo, finSent>>

\* The state after the FIN has been acknowledged.  fin_wait_1 goes to time_wait
\* at once, whether or not our own FIN was acknowledged.
AfterFin(state) ==
  CASE state \in {"syn_received", "established"} -> "close_wait"
    [] state \in {"fin_wait_1", "fin_wait_2", "time_wait"} -> "time_wait"
    [] OTHER -> state

\* Mutation: the fall-through to the time_wait timer is missing.
ArmedByFin_NoTimeWait(state) == state \in {"syn_received", "established"}

\* The states in which the FIN arms the timer.
ArmedByFin(state) ==
  state \in {"syn_received", "established", "fin_wait_1", "fin_wait_2", "time_wait"}

FinTaken ==
  LET s == Top.sock
      t == tcb[s]
      next == AfterFin(t.state)
      turned == IF t.state = "fin_wait_1" THEN [t EXCEPT !.state = "time_wait"] ELSE t
  IN  /\ At("fin")
      /\ Top.fin /\ t.state \notin {"closed", "listen", "syn_sent"}
      /\ \/ /\ TRUE \in SendResults
            /\ \E n \in SentUpTo(t) :
                 tcb' = [tcb EXCEPT ![s] = [t EXCEPT !.state = next, !.seqNext = n]]
            /\ IF ArmedByFin(t.state) THEN ArmTimer(t) ELSE UNCHANGED timers
            /\ GoOn(Tail(stack))
         \/ /\ FALSE \in SendResults
            /\ TcbClose(s, turned, "error", Tail(stack))
      /\ UNCHANGED <<fifo, finSent>>

-----------------------------------------------------------------------------
(* The specification.                                                      *)

Api ==
  \/ \E app \in Apps : tcp_socket_alloc(app)
  \/ \E s \in Sockets :
       \/ \E port \in ListenPorts : tcp_listen(s, port)
       \/ \E remote \in Remotes : tcp_connect(s, remote)
       \/ tcp_accept(s)
       \/ tcp_close(s)
       \/ tcp_socket_free(s)
       \/ \E n \in 1 .. FifoSize : tcp_read(s, n) \/ tcp_write(s, n)

tcp_handle_packet ==
  \E s \in Sockets :
    \/ \E remote \in Remotes : RcvListenSyn(s, remote)
    \/ RcvSynSentSynAck(s)
    \/ RcvSynSentSyn(s)
    \/ RcvSynSentReset(s)
    \/ RcvSynSentOther(s)
    \/ RcvReset(s)
    \/ RcvAckBeyond(s)
    \/ RcvLastAck(s)
    \/ \E len \in Lengths, fin \in BOOLEAN :
         \/ RcvSynReceivedAck(s, len, fin)
         \/ RcvAckNothing(s, len, fin)
         \/ RcvAckOfFin(s, len, fin)
         \/ \E n \in 1 .. FifoSize : RcvAckData(s, n, len, fin)

\* What must happen next once a handler has begun.
HandlerStep ==
  \/ CallbackReturn \/ Incoming \/ DropConnection \/ TickEnds
  \/ ArmIdle \/ Acked \/ Rearm
  \/ TextNone \/ TextNoRoom \/ TextQueued \/ Received
  \/ FinIgnored \/ FinTaken

Next ==
  \/ Api
  \/ tcp_handle_packet
  \/ \E s \in Sockets : TimerExpires(s)
  \/ HandlerStep

Spec == Init /\ [][Next]_vars

\* An interrupt handler that has begun goes on, and the timer tick comes again
\* and again: between two segments there is time for it.
FairSpec ==
  /\ Spec
  /\ WF_vars(HandlerStep)
  /\ \A s \in Sockets : WF_vars(TimerExpires(s))

-----------------------------------------------------------------------------
(* Properties.                                                             *)

\* The timers of the stack belong to the sockets in use, one each, and none is
\* lost: the tick hands a socket's timer to that socket, and a freed socket
\* leaves no timer behind that would be handed a dead TCB.
TimersOwned ==
  /\ \A s \in Sockets :
       InUse(s) /\ tcb[s].timer # NoTimer =>
         /\ timers[tcb[s].timer].callback = "tcp_timeout"
         /\ timers[tcb[s].timer].arg = s
  /\ \A t \in Timers :
       timers[t].callback = "tcp_timeout" => \E s \in Sockets : InUse(s) /\ tcb[s].timer = t

FifosOf(s) == {tcb[s].rx, tcb[s].tx} \ {NoFifo}

\* The fifos in use are exactly those of the sockets, no two sockets share one,
\* no socket uses one for both directions, and a connection has both of its
\* pair: a refused, dropped or freed connection gives its pair back, once.
FifosOwned ==
  /\ {f \in Fifos : fifo[f] # Unowned} = UNION {FifosOf(s) : s \in Sockets}
  /\ \A s \in Sockets :
       /\ FifosOf(s) # {} => tcb[s].rx # tcb[s].tx
       /\ \A r \in Sockets \ {s} : FifosOf(s) \intersect FifosOf(r) = {}
       /\ tcb[s].state \in SynchronizedStates \union {"syn_sent"} => FifosOf(s) # {}

\* Nothing tcp.c does reaches the timer another module owns, although a
\* cleared TCB names it.
ForeignTimerUntouched == timers[ForeignTimer] = ForeignEntry

\* No two connections have the same two ends: a segment has one receiver.
ConnectionsUnique ==
  \A port \in Ports, remote \in Remotes :
    \A s, r \in Connected(port, remote) : s = r

\* The owner of a socket sees the life of a connection in order: incoming or
\* connect, established, data and idle events, then one last event, and none
\* for a socket that is over.
EventOrder == \A s \in Sockets : told[s] # "wrong"

\* seq_next never runs ahead of the queue: tcp_send_packet hands it to fifo_peek
\* as the offset, and fifo_peek does not check it.
PeekInBounds == \A s \in Sockets : tcb[s].seqNext <= Queued(tcb[s])

\* The FIN of an active close comes after all the data, and the data has been
\* acknowledged.
FinIsLast ==
  \A s \in Sockets :
    tcb[s].state \in {"fin_wait_1", "fin_wait_2", "time_wait"} =>
      finSent[s] /\ Queued(tcb[s]) = 0

\* Unless segments keep coming for ever, a connection in time_wait leaves it.
TimeWaitEnds ==
  \A s \in Sockets :
    \/ []<><<tcp_handle_packet>>_vars
    \/ tcb[s].state = "time_wait" ~> tcb[s].state # "time_wait"

(* What a comment of tcp.c says and the code does not do.                  *)

\* tcp.c:317-319, of a SYN,ACK that cannot be sent: "change state to closed,
\* send error event to user and free tcb of this connection".  A handler does
\* that to the connection, and leaves the listener as it is.
ListenerStays ==
  [][\A s \in Sockets : tcb[s].state = "listen" /\ ~Idle => tcb'[s].state = "listen"]_vars
=============================================================================
