# Verification of avr-net

TLA+ models of the network stack for the AVR board in this repository, the TLC
runs that check them on small instances, and theorems about them that TLAPS
proves for every instance.

- [1 Inventory](#1-inventory): the system's parts, their state, operations and hard spots
- [2 Execution model](#2-execution-model)
- [3 Modules](#3-modules): what models what
- [4 Runs](#4-runs): what is checked, at which bounds, under which fairness
- [5 Findings](#5-findings): where the code and its own comments disagree
- [6 Theorems](#6-theorems)
- [7 What is not modelled](#7-what-is-not-modelled)
- [8 Observations](#8-observations): what else the models made visible
- [9 Plan](#9-plan)

`tlc -config X.cfg M` repeats the run of a configuration, `tlapm M.tla` checks the
proofs of a module. `PROJECT.json` lists every run, the source lines behind every
definition, the hazards of the code with the properties that watch them, and for
each property a mutation of the model that breaks it.

## 1 Inventory

Paths are relative to the repository's `src/`.

### Services

| component | state | operations | correct when |
|---|---|---|---|
| timer service, `sys/timer.c` | 10 slots: callback, argument, time, counter, state, mode; the tick count | `timer_alloc`, `timer_set_arg`, `timer_set`, `timer_stop`, `timer_free`; `timer_tick` from the 1 ms interrupt | a timer runs exactly when its owner asked, is never early, and every running timer is counted in every tick |
| fifo pool, `util/fifo.c` | 4 rings of 1500 bytes: buffer, length, two pointers | alloc, clear, free, enqueue, dequeue, peek, skip | each allocated ring is a bounded queue of bytes, and the rings do not touch each other |
| calendar, `sys/rtc.c`, `dev/ds1338.c` | none; the chip's registers | seconds to date, BCD conversion | the date is the calendar's |

### Network

| component | state | operations | correct when |
|---|---|---|---|
| ethernet, `net/ethernet.c`, `net/hal.h` | own address, the one transmit buffer | dispatch by type, send | every frame reaches its protocol |
| arp, `net/arp.c` | 2 entries: pair, wait or empty, with a timeout | `arp_handle_packet`, `arp_get_mac`, `arp_timer_tick` | it answers only what it heard, keeps one entry for an address, asks for what it waits for, and forgets |
| ip, icmp, `net/ip.c`, `net/icmp.c` | own address, mask, gateway | dispatch, route, send; echo reply | the packet sent is the packet the caller built |
| udp, `net/udp.c` | 4 sockets: ports, remote, callback | alloc, free, bind, unbind, send, handle | one receiver for a datagram, ports unique |
| tcp, `net/tcp.c` | 4 TCBs: state, ports, sequence numbers, window, timer, retry count, two fifos, callback | the socket API (alloc, listen, accept, connect, close, free, read, write), the segment handler, the timeout | the state machine of the file's diagram; events to the owner in order; timers and fifos neither lost nor shared; nothing sent that is not queued; FIN last |

### Applications

| component | state | operations | correct when |
|---|---|---|---|
| dhcp client, `app/dhcp.c` | state, transaction id, server, lease, timer, socket | start, stop, the socket's and the timer's callback | one lease from one server, renewed or given up in time |
| tftp server, `app/tftp.c` | state, mode, last block, file, socket | start, the socket's callback | the peer's file is the file, block by block; one transfer at a time; no file left open |
| time client, `app/tp.c` | state, socket, timer | get time, both callbacks | each request ends, its resources returned |
| `app/echod.c`, `app/httpd.c` | one listening socket | the socket's callback | every connection is answered and released |
| `app/netstat.c`, `main.c` | none | printing, initialisation | |

### Storage and devices

| component | state | operations | correct when |
|---|---|---|---|
| sd card, `dev/sd.c` | card state, a cache of one block | initialise, read, insert and remove | a read returns the bytes of the card that is in |
| partition, fat, `sys/partition.c`, `sys/fat.c` | file systems, directory entries, open files with the cluster at hand | mount, look up, open, read, seek, close | the file found is the one named; a read returns its bytes; tables do not fill up |
| i2c, spi, uart, `arch/` | the bus | transfers | the bus is left idle |
| enc28j60, `dev/enc28j60.c` | the pointer to the next packet, bank | receive, send | the ring is read packet by packet, none overwritten before it is read, none left |

### How they interact

Nothing in this firmware waits. Every component is called from one of two interrupt
handlers: the timer tick, which runs timer callbacks (arp ageing, `tcp_timeout`, dhcp,
tp), and the packet interrupt, which runs down the protocols to a socket's callback.
Callbacks call back: a TCP owner is called in the middle of `tcp_state_machine` and
`tcp_timeout` and may read, write, close or free the very socket being handled, and a
timer's callback allocates and arms timers while `timer_tick` scans the table. TCP draws
on three pools that run out independently (TCBs, timers, fifos), and a send may fail for
a reason that has nothing to do with the connection: the ARP table does not know the
hardware address yet.

### What is hard

- *Reentrancy*: a callback in the middle of a handler, and what the handler does with
  the state it finds afterwards (`tcp.c:448`, `tcp.c:500`, `timer.c:74`).
- *Failure in the middle*: a segment that cannot be sent, a pool that is empty after
  two of three resources were taken (`tcp.c:286-330`, `tcp.c:1106-1134`, `dhcp.c:504`),
  a card that is pulled out during a read (`sd.c:384-406`, `fat.c:402`).
- *The network*: lost, repeated, late segments, peers that restart, two sides that close
  at once.
- *Retries and time*: counters that are decremented by calls that are not retries, timers
  that are re-armed from their own callback.
- *Handles of nobody*: a cleared TCB names timer 0, which belongs to another module.
- *Stale data*: answers parsed before they are looked at (`dhcp.c:388`), a cache that does
  not know its block (`sd.c:374`), a file's place moved by old acknowledgments (`tftp.c:250`).
- *Hardware at work meanwhile*: the ethernet chip writes while the driver reads, the card
  comes and goes.
- *Boundaries*: the end of the ring buffer, the end of a month, a cluster.

The list, line by line and with the properties that watch each, is "hazards" in
`PROJECT.json`.

## 2 Execution model

`main.c` initialises everything and enables interrupts; from then on code runs only in
`TIMER0_COMP` (`timer_tick`) and `INT7` (`while(ethernet_handle_packet());`). (A third,
`INT6`, is where `sd_interrupt` belongs; at this commit its call, `sd_init`, `tcp_init` and
the start of the tcp servers are commented out in `main.c`, and the only application main
starts is dhcp. The models describe the modules as they are, called as their interface
and the commented lines call them.) The
handlers do not nest, and each runs to completion. So a step of a model is a whole
handler, or, where a handler calls application code through a pointer, the part of it up
to the call or from the return on. In `Timer` a step is one slot of the scan. In `Tcp` the
variable `stack` is the call stack: a callback frame on top while the owner's code runs,
and under it a frame that says where `tcp.c` goes on. API calls happen when the stack is
empty (main code, another module's timer) or from the callback on top; a segment or a
timer is handled only when the stack is empty. In `Dhcp` and `Tftp` no callback calls back,
and each handler is one step.

What does interleave with a handler is hardware, and where that matters a step is smaller:
in `Storage` it is a command to the card, and the card may leave between any two; in
`Link` it is one group of register accesses, and the chip may write packets in between.

## 3 Modules

| module | models | state and actions |
|---|---|---|
| `Slots` | what the tables of the program share: slots that are free while their callback is null, scanned from 0 | `Lowest` and `Highest` are the first and the last slot a scan finds |
| `TimerPool` | the table of `sys/timer.c` without time, for the modules that use timers | operators on a table: `AllocHandle`, `Alloc`, `SetArg`, `Set`, `Stop`, `Free`, `AfterCallback`, each what the function of `timer.h` does to the table |
| `TimerService` | what `timer.h` promises: a running timer expires, in some order, one at a time | `Call`, `Expire`, `Return` |
| `Timer` | `sys/timer.c`: the counters and `timer_tick`, slot by slot | `cores` is `timer_cores`, `scan` the loop variable (`Idle` outside the interrupt), `firing` whether the callback of slot `scan` is running. `TickBegin`, `TickSkip`, `TickCount`, `TickExpire`, `TickReturn`, `TickEnd` are the loop; the calls of `timer.h` happen between ticks and inside callbacks. `wanted` and `since` are history |
| `FifoQueue` | what `fifo.h` promises: a pool of bounded queues | `queue[f]` a sequence, one action per operation |
| `Fifo` | `util/fifo.c` | `buffer`, `length`, `first`, `last` with offsets for pointers; the copies split at the end of the buffer as the `memcpy` calls are; `result` is the return value and the bytes handed out |
| `Tcp` | `net/tcp.c` with the timers and fifos it holds | `tcb` the table, `timers`, `fifo` (a length for each ring), `stack`; `told` and `finSent` are history. See below |
| `TcpApps` | which calls the callbacks of `echod.c`, `httpd.c` and `tp.c` make | constants for `Tcp` |
| `Arp` | `net/arp.c` | `table`, `timers` (its one timer), `arp_table_insert`, `arp_get_mac`, `arp_timer_tick`; `heard` and `asked` are history |
| `Ip` | the decisions of `net/ip.c`: what is broadcast, what is in the subnet, whose hardware address is needed, what is accepted | operators on a configuration |
| `Udp` | the socket table of `net/udp.c` | operators on a table, each what the function of `udp.h` does to it; `Receivers` and `Delivered` are `udp_handle_packet` |
| `Dhcp` | `app/dhcp.c` on `TimerPool`, `Udp` and `Ip`, with `dhcp_callback` of `main.c` | `client` is `dhcp_client`, `ip` the addresses of `ip.c`, `sockets`, `timers`; `dhcp_start` (three outcomes), `dhcp_stop`, `TimerDiscover`, `TimerRequest`, and `Receive...` by state and type of message; `Others` are the other users of the tables; `sent` and `granted` are history |
| `Fat` | `sys/fat.c`: the chain, directories, paths, open files | operators on the table of open files, and on a disk given by constants |
| `Tftp` | `app/tftp.c` on `Udp` and `Fat`, with clients and a network | `tftpd` is the struct of that name, `sockets`, `files` the open files; one action per message and outcome; `toServer` and `toClient` are the network; `printed` and `disorder` are history |
| `Storage` | `dev/sd.c`, `sys/partition.c`, the mount in `sys/fat.c`, `sdcallback` of `main.c`, and the card | `cache` is the driver's block, `job` what is read and how far; `offset` is that of `struct partition`, `fss`, `fatfs`, `entries`, `tftpd` what the mount leaves; `Insert` and `Pull` the hand at the slot |
| `Link` | the receive side of `dev/enc28j60.c`, `ethernet_handle_packet`, the `INT7` loop, and the chip | `erxwrpt`, `erxrdpt`, `ring` are the chip's, `next_packet_ptr` the driver's; `cpu` the place in the code; `Arrive` is the chip |

`MCTimer`, `MCFifo`, `MCTcp`, `MCArp`, `MCDhcp`, `MCTftp`, `MCStorage` and `MCLink` give the constants the values a `.cfg` cannot
express; the `.cfg` files give the rest.

Two pairs are refinements: `Timer` implements `TimerService` (`ImplementsService`, with
the running timers and the callback under way as the mapping) and `Fifo` implements
`FifoQueue` (`ImplementsQueue`, with the bytes from `first`, `length` of them, as the
queue).

### Tcp

One action per call of `tcp.h`, per case of `tcp_timeout`, and per class of segments
`tcp_state_machine` tells apart in a state; after a callback, one action per place where
the function goes on. A pool that runs out, a segment that cannot be sent and an owner
that refuses are alternatives of the action they happen in.

What is abstracted, and why that keeps the properties:

- *Sequence numbers* are how a segment compares with the TCB: an acknowledgment of
  nothing new, of `n` of the units in flight, of more than was sent, of the FIN; in or
  out of order. `seqNext` is `seq_next - seq`, the number of units sent and not
  acknowledged. The comparison modulo 2^32 is left out.
- *Windows and segment sizes* decide how much of the queue one `tcp_send_packet` call
  sends; `SentUpTo` allows every amount, nothing included.
- *Data* is a number of units. A FIN is taken to leave exactly when the whole queue does
  (`tcp.c:896-900`).
- *Segments that change nothing* have no action: bad checksum, no socket, a closed
  socket, out of order, an old acknowledgment. They are answered or dropped.
- *The retry counter* is an integer; its width (`int8_t`) does not matter between -1 and
  the configured maxima, where it stays.
- `FIFO_MAX_COUNT` is even, as in `fifo_config.h` (an `ASSUME`). With an odd pool the last fifo
  would be taken and at once given back by a failed connect.

What is assumed of applications, and written as guards: an application listens or
connects only on a socket it has just allocated, frees only a socket it still holds, and
starts again only when it holds none. Every application of the repository does so.
Otherwise `Calls` and `MainCalls` over-approximate them: in an event an application may
make each of its calls any number of times, in any order, or none.

The timer table is shared. `OtherTimers` says how many entries, the first ones, other modules
hold; entry 0 is that of `arp.c`.

### Arp

The table is aged by the timer as the timer service really behaves: the re-arming from
the callback is undone when the callback returns, so `arp_timer_tick` happens once. A
received packet is the pair it announces; a lookup either hits, finds the address waited
for, or notes the wait and asks. `heard` collects the pairs announced, `asked` the
addresses requested.

### Ip, Udp and Dhcp

An address has a digit for each byte and a byte of a mask is all ones or all zeros, so that
the bit operations of `ip.c` become choices. Whether `arp_get_mac` knows an address depends
on what others have sent; a send that needs it may succeed or fail.

Every handler of `dhcp.c` is one step, options included: `Parsed` stores what
`dhcp_parse_options` stores, before the state is looked at. The network keeps every message
that has left (`sent`) and delivers any server's answer to any of them at any time: loss,
repetition and delay in one.

What is assumed of callers: `dhcp_start` is called when the client is stopped; the code
tests only the state, and a second call before the first timer event would pass.
`dhcp_stop` may be called at any time, and then frees whatever has the handles of the record,
0 and 0 when the client is not started (section 8). A module that loses a socket or a timer
this way is taken not to touch it again; the `arp.c` that would go on arming handle 0,
which by then is another's, is not modelled.

### Fat and Tftp

A disk is a constant: its table, and the entries of its directories. A file is made of units,
and a unit is its place `<<cluster, offset>>`, so that a wrong seek shows as a wrong place. The walk along the
chain, the end of a cluster and the count in `file_cluster` are those of the code.

The clients follow the protocol: one request each, an acknowledgment for each block, and a
block for each acknowledgment. With `Duplicates` a message that was sent once may arrive any
number of times, in any order with others, so that a request repeated later begins a whole
transfer again. Whether a message leaves is a choice of its own (`SendResults`), as the
handlers look at the result of `udp_send` and not at the network. A writer's request may ask
for mail, of which the server prints no character: the first one ends the transfer
(`tftp.c:424`). `disorder` collects the readers one of whose
acknowledgments was neither of the block just sent nor of the one before.

### Storage

A block is `<<card, number>>`, or `Noise` when it is torn or was never read. A read goes
through `ask` (the cache), `command` and `data`, and the card can be pulled between these,
and another put in; a card that was put in answers no reads until it has been initialised.
The entry of a card's partition is active or not (`Active`); an inactive one leaves
`partition.offset` as it was (`OffsetsAfter`), and so may bytes that are no partition table.
What a read delivered or failed to deliver goes on in the handler that asked: the
initialisation, the two reads of the mount, or a read of the server.

### Link

The ring is the chip's: it refuses a packet for which there is no room before `ERXRDPT`, begins packets at even
addresses, and counts the byte skipped as written. The driver's accesses are steps of their own, so packets
arrive between the two writes of `ERXRDPT` and before the count is lowered. `mistaken` is
history: it becomes true when the second write makes `ERXRDPT` equal to `ERXWRPT`, which tells the
chip that a full ring is empty (section 8).

## 4 Runs

All twelve end with the expected verdict in less than two minutes each.

| run | instance | what it shows |
|---|---|---|
| `timer` | 2 slots, times -1, 0, 1, one callback, any number of calls; 124,200 states | `ArmedAsAsked`: a timer runs exactly when its owner's calls and its own expiry say so. `Punctual`: the counter is the period less the ticks seen. `ImplementsService`. `ArmedIsServed`: while ticks come, every timer its owner armed expires, or is stopped or freed, or is armed again and again for ever |
| `fifo` | 2 rings of 3 bytes; writes of 0 to 4 bytes, reads and skips of 0 to 4; 105,661 states | `PointersAgree`: last is first plus length, modulo the two normal forms the code has for the end. `ImplementsQueue`: every result is the queue's |
| `tcp_apps` | echod and tp, 3 sockets, 4 timers of which others hold one or two, 4 fifos of 2 units; 1,399,139 states | `EventOrder`, `ConnectionsUnique`, `TimersOwned`, `FifosOwned` while sends do not fail |
| `tcp_errors` | one application that uses all of `tcp.h`, 2 sockets, 3 timers, 4 fifos, sends fail at any moment; 44,767 states | `TypeOK`, `ForeignTimerUntouched`, `PeekInBounds`, `FinIsLast`, and `TimeWaitEnds` under fairness |
| `arp` | table of 2, 3 hosts, 2 MACs, 0.0.0.0; 11,255 states up to symmetry | `UniqueEntries`, `PairsAreHeard`, `WaitsAreAsked` |
| `dhcp` | 2 servers with leases that fit and do not fit a timer, 2 sockets, 2 timers (one is arp's), one retry, other users that allocate any port, 68 and 69; 146,664 states | `ResourcesHeld`: one socket and one timer from start to end. `OthersUntouched`: only a stop of a client that is not started changes what others hold. `PortsUnique`. `RenewsWithGrantor`: late offers do not get between the address and its server. `BoundIsArmed`. `SendsBroadcast`: without a lease no message waits for arp |
| `tftp` | 3 readers (a file of 7 units in 4 scattered clusters, a file in a directory that ends with its cluster, a name that is missing), writers of 2 and 3 blocks, repetitions; 155,910 states | `OneWriterInOrder`, `FileHeld`, `InChain`, and `OrderlyBlocks`: each data packet holds the block its number says, for readers that acknowledge in turn |
| `storage` | 2 cards with partitions at different blocks and one whose entry is inactive, 3 blocks, one file system, 3 directory entries; 297,123 states | `FreshBlocks`: no block of an earlier card or of a torn read. `FirstMountRight`: undisturbed, the first mount finds the boot sector of an active partition, and of an inactive one nothing, or the partition table. `HandlersEnd` under fairness |
| `link` | ring of 11 bytes, header of 2, packets of 2 to 4 bytes, at most 3 counted; 458,077 states | `OldestIsIntact`: driver and chip agree on the oldest packet, and it is not overwritten before it is copied. `Served` under fairness. Both until the ring was `mistaken` |
| `tcp_listener`, `dhcp_resend`, `tftp_seek` | the smallest instance, or that of the passing run | the findings below |

*Bounds.* Two timers are one that fires and one in a slot before or after it: the order in
the scan is all that matters, and a callback can free one and allocate another. Times
-1, 0 and 1 are one that is refused, one that is over in the next tick and
one that lasts; the counter is compared with zero only. The calls are not bounded. A ring of three bytes has an inner position,
writes of up to four wrap, overflow and are refused in part; two rings are enough to see
one touch the other. In `tcp_apps` there are three sockets (a listener, its connection
and a client), four timers, of which others hold one, so that sockets run out first, or two,
so that timers do and a connection lives without one (`tcp.c:954`), and
two fifo pairs: each pool runs out first in some behaviour. Two units of data
allow a part of the queue to be acknowledged. Retry counters of 1 are one retry and the
end. One remote endpoint suffices: `ConnectionsUnique` needs two connections with the
*same* one. `MaxLen` in `Tcp` is a bound of the model and has
no counterpart in the code. In `tcp_errors` there is a timer for every socket: a connection without one
stays in `time_wait` for ever (section 8), which `TimeWaitEnds` does not claim to exclude. `since`, the age of a timer in `Timer`, stops counting one
above the period, where nothing depends on it any more.

In `dhcp` two servers are one that grants and one that interferes, and two sockets and
timers let every pool run out before and after `dhcp_start`. In `tftp` two units per cluster and
per block put block boundaries on cluster boundaries and the file's end inside a cluster;
`MaxFileCluster` = 4 bounds the count of clusters that old acknowledgments drive up, one
above what an orderly reader reaches. One socket is enough, as the server has one; two open
files would show a handle that leaks. In `storage` two cards are an old and a new one, and the third has no active partition; block 0 holds the
partition table, and of the others one is the boot sector. In `link` three packets are
one being read, one waiting and one arriving; every alignment of the ring's end occurs, as
sizes with header are 4 to 6 and the ring has 11 bytes. Three packets can fill it to the last byte,
and its last address is even as in `enc28j60.h`, so that `mistaken` does occur. `Numbers` tells packets apart and is
larger than what the ring holds.

*Symmetry* is used in `MCArp` only, for hosts and MACs, which are compared for equality
only; the run checks no liveness property.

*Deadlock* is checked in `timer`, `fifo`, `arp`, `dhcp`, `dhcp_resend`, `storage` and `link`. The TCP
configurations switch it off: with every socket closed, no timer running and no application that starts
again the system rests. So do `tftp` and `tftp_seek`, where every client may be served.

*Fairness.* `Timer` and `Arp` assume that the hardware timer goes on and that the
interrupt handler makes progress (the loop ends, callbacks return). `Tcp` assumes the
same of a handler that has begun (`HandlerStep`) and that a running timer's tick comes
again and again. `Dhcp` assumes only that the tick serves a running timer, `Link` that the
program goes on (the other handlers return, and `INT7` is enabled), `Storage` that a handler
that has begun goes on and that a card that is in and initialised does not refuse commands
for ever (`SF_vars(Commanded)`): the loops of `sd.c` have limits and `fat_fread` tries
again. Nothing is assumed of the network or of applications, except that
`ArmedIsServed` exempts a timer that is armed for ever again, each time with a new counter, and in the
antecedent of `TimeWaitEnds`: segments that keep coming can keep a connection in
`time_wait`, each FIN restarting its timer.

## 5 Findings

Each is a run whose property is what a comment or the README of the repository says, and
whose counterexample is what the code does.

1. `tcp.c:320`: the SYN,ACK of a new connection cannot be sent, and the *listener* is
   closed (`ListenerStays`, of the comment at 317-319).
2. `dhcp.c:482` with `timer.c:74`: the resend is armed in the timer's own callback, which
   `timer_tick` undoes when the callback returns. A lost DISCOVER is never sent again and the
   timeout event of `dhcp.c:475` never comes (`SelectingEnds`, of the comments at 471 and
   475). The give-up branches of both timer cases are modelled and never taken for this
   reason. The same cause ends TCP retransmission (`tcp.c:826`) and the ageing of the ARP
   table (`arp.c:271`) after the first time.
3. `fat.c:482`: `fat_fseek` walks from the first cluster when it goes back, but adds to
   `file_cluster` as it was. After the acknowledgments 1, 2, 1 again and 3 the server sends
   block 4 with the bytes of block 2 (`BlocksAreFile`, of `tftp.c:344`).

## 6 Theorems

TLC checks the instances above; the theorems hold for every value of the constants that
satisfies the `ASSUME`s of the modules (positive table sizes, an even number of fifos, names
that differ from one another). Seven theorems of `Tcp_proofs` have hypotheses more, about the
applications (`FreesLate`, `ClosesLate`, below), which
`RepositoryAppsFreeLate` and `RepositoryAppsCloseLate` discharge for those of `app/`, and
`EventsInOrder` and `ConnectionsApart` that every segment can be sent (`AllSent`, as in the
run `tcp_apps`). Two of `Tftp_proofs` suppose a disk that is sound (`ChainsCover`, `LookupFinds`,
`BlocksFit`, below), as that of the run is: `MCTftp` has it as an `ASSUME`. Apart from that nothing is taken for granted.

| module | theorem | says |
|---|---|---|
| `Timer_proofs` | `TypeCorrect` | `Spec => []TypeOK` |
| | `ArmedCorrect` | `Spec => []ArmedAsAsked` |
| | `PunctualCorrect` | `Spec => []Punctual` |
| | `ServiceImplemented` | `Spec => ImplementsService` |
| `Arp_proofs` | `TypeCorrect` | `Spec => []TypeOK` |
| | `UniqueCorrect`, `PairsCorrect`, `WaitsCorrect` | the three invariants of the table |
| `Fifo_proofs` | `TypeCorrect`, `PointersCorrect` | `Spec => []TypeOK`, `Spec => []PointersAgree` |
| | `QueueImplemented` | `Spec => ImplementsQueue` |
| `Tcp_proofs` | `TypeCorrect` | `Spec => []TypeOK` |
| | `EveryTimerOwned`, `EveryFifoOwned` | `TimersOwned`, `FifosOwned`, of applications that free a socket late |
| | `TimerZeroUntouched`, `PeeksInBounds`, `FinLast` | `ForeignTimerUntouched`, `PeekInBounds`, `FinIsLast`, of the same |
| | `EventsInOrder`, `ConnectionsApart` | `EventOrder`, `ConnectionsUnique`, of those that also close late, when sends do not fail |
| | `RepositoryAppsFreeLate`, `RepositoryAppsCloseLate` | `echod`, `httpd` and `tp` are such applications |
| `Dhcp_proofs` | `TypeCorrect` | `Spec => []TypeOK` |
| | `ResourcesCorrect` | `Spec => []ResourcesHeld` |
| | `PortsCorrect` | `Spec => []PortsUnique` |
| | `GrantorCorrect`, `BoundCorrect`, `BroadcastCorrect` | `RenewsWithGrantor`, `BoundIsArmed`, `SendsBroadcast` |
| | `OthersCorrect` | `Spec => OthersUntouched`; `dhcp_stop` of a client that is not started is exempt |
| `Storage_proofs` | `TypeCorrect`, `FreshCorrect` | `Spec => []TypeOK`, `Spec => []FreshBlocks` |
| | `FirstMountCorrect` | `Spec => []FirstMountRight` |
| `Link_proofs` | `TypeCorrect`, `OldestIntact` | `Spec => []TypeOK`, `Spec => []OldestIsIntact` |
| | `MisledOnlyWhenFull` | `mistaken` becomes true only when the next pointer is 0, `RXSTOP` is even and the ring is full to its last byte |
| `Tftp_proofs` | `TypeCorrect` | `Spec => []TypeOK` |
| | `WriterInOrder`, `OneFileHeld` | `Spec => []OneWriterInOrder`, `Spec => []FileHeld` |
| | `ChainKept` | `Spec => []InChain`, on disks whose chains cover the files |
| | `BlocksInTurn` | `Spec => []OrderlyBlocks`, on those whose lookups find the files and whose files 16 bits can count |

`Timer_proofs`, `Arp_proofs`, `Tcp_proofs` and `Dhcp_proofs` each begin with the lemmas about the timer
table they need: that a scan finds a free slot when there is one, and that no call of `timer.h` takes
the table out of its type (`PoolType`).

*Timer.* `ArmedAsAsked` compares the table with `wanted`, what the owners' calls add up to,
for every timer but the one whose callback is running. That is not inductive: when
the callback returns, that one is compared again. `ArmedInv` adds that the wish of
the firing timer's owner has been spent, so that the slot, which the code stops at that
moment whatever the callback did to it, is one nobody waits for. `Punctual` is an
action property about the step in which a timer fires; `Counted` is the invariant behind
it: a running timer's counter is its period less the ticks that have counted it, where
the tick under way counts only for the slots the scan has passed, give or take the one
tick gained by a timer that an earlier slot armed in the middle of a tick.
The refinement maps the running entries to the abstract ones, a `TickExpire` to
`Expire`, a `TickReturn` to `Return`, every other step of the scan to a stutter;
`SameOperators` shows that the operators of the instance are those of the module.

*Arp.* `TableInv` conjoins the three invariants, uniqueness stated without cardinalities:
each insertion keeps it because the code looks for a match before it looks for
a place, and a wait becomes a pair only with the MAC that was announced.

*Tcp.* `TypeOK` is inductive, but not by inspection. It says that no fifo holds more than
its size, which needs that an acknowledgment takes at most what is there; that
`seqNext` stays a natural number, which needs that an acknowledgment accepted is one of
units in flight; that the socket, timer and fifo handles that are searched for are found
or reported missing; and that `tcp_port_find_unused`, a loop without an end in the code,
ends: there is one candidate port more than there are sockets (`UnusedPortFound`, by the
pigeonhole principle). The proof has one lemma for each operation and each piece the
handlers share (`TcbClose`, `TcbFree`, `Rearmed`, `Raise`), and `TimeoutTyped` serves both
callers of `tcp_timeout`.

*Tcp, who owns what.* `TimersOwned`, `FifosOwned`, `ForeignTimerUntouched`, `PeekInBounds` and
`FinIsLast` follow from one invariant, `HeldInv`, which TLC confirmed on the instance of
`tcp_errors` before it was proved. It says of every socket: its timer is registered for it
and runs only while it is a connection (`TimerHeld`); its fifos are an odd and the next even
one, both in use, or it has none (`PairHeld`); what its state implies of port and fifos
(`StateHeld`); what is in flight is in the queue, and after the FIN the queue is empty
(`QueueHeld`). It says that nothing has two owners and nothing of the stack none. What makes
it inductive is the part about the call stack (`StackHeld`): `tcp.c` goes on after
a callback with a TCB that the callback may have closed or freed. A handler, or the tick, is
the oldest frame, and so is a callback of a last event; every other function that waits waits
for a callback about a connection, which is still one when it returns. For this last part an
application must not free its socket in the middle of a connection: `FreesLate` says that it
frees one only when told `closed`, `reset` or `idle`. With an application that frees on
`established` the function would go on with a cleared TCB, whose handle names timer 0. An odd
`FIFO_MAX_COUNT` breaks the invariant too; this is why its evenness is an assumption.

*Tcp, what the owners are told.* `EventOrder` and `ConnectionsUnique` are proved together,
because a connection can begin with a socket that no segment finds yet: `tcp_connect` leaves
it closed, and its timer makes it one (`tcp.c:706-724`). `ToldInv` says of every socket that
its state fits what its owner was told last (`Fits`); that its timer runs only while the owner
waits for more; and that a closed socket whose owner waits for a connection has its port
alone (`PortAlone`), so that the connection it becomes has no double. A port is taken only
when no socket has it, or by SYN at a listener, which is reached only when no connection has
both ends (`ListenSynTold`). Of the call stack it says what the oldest function finds when it
goes on (`FrameTold`). TLC confirmed it on the instance of `tcp_apps`. Both hypotheses on
top of `HeldInv`'s are needed, and TLC has a behaviour against `EventOrder` without each: a
callback that closes when told `established` returns to code that arms the timer of the
closed socket (`tcp.c:448`; `ClosesLate`); and when the segment that follows an
acknowledgment cannot be sent, `tcp.c:502-505` closes the socket, tells its owner, and arms
the timer all the same: a second later the closed socket sends SYN, and the owner is told
of a connection it no longer has (`AllSent`).

*Fifo.* `RingInv` is `TypeOK` with `PointersAgree`, which knows the two normal forms of the
pointers: `fifo_skip` leaves `first` one past the end where the other operations wrap it.
`CopyOutIsRing` and `CopyInAppends` say of the split copies what sequence of bytes they read
and leave, for every place in the buffer; with `RingPrefix` and `RingSuffix` each call is then
one call of `FifoQueue` on the sequence of bytes from `first`, `length` of them
(`QueueActions`).

*Dhcp.* `HeldInv` says of every slot of the two tables who owns it: `"dhcp"` exactly if the
client runs and the slot is the one in its record (`Held`). Each call of `udp.h` and
`timer.h` has a lemma (`AllocLeads`, `FreeTimerLeads`, ...) that says what it does to the
type, the ports and the owners; each step of the client is then one that keeps both
(`KeptHeld`), gives both back (`FreedHeld`) or takes both (`StartHeld`). `PortsUnique` rests
on `FreeLocalPortOK`, the pigeonhole principle again. `LeaseOK`, on top of it, has
the four facts that make the remaining properties inductive: a leased client's socket is
bound to the grantor, so that an answer that is parsed before it is looked at can only be
the grantor's (`ArrivesFrom`); before the lease the addresses are zero; a bound client's
time is that of its server; and a timer that runs was not armed by its own callback.
The last one, which follows from `timer_tick` stopping a one-shot timer after its callback,
shows that no message is sent a second time (`FirstMessage`). It is also the reason why
`OthersUntouched` holds of the timer cases: were the resend to work, the client that gives up would go on and
arm timer 0 of `arp.c` (`dhcp.c:504-508`). What `dhcp_stop` does to others in a client that is not
started is the exemption the property names.

*Storage.* `FreshInv` needs two facts beyond `FreshBlocks`: whatever the cache holds is
called block 0, so only a reader of block 0 is served from it; and a transfer under
way is of the card that was initialised, or the card has been pulled since it was asked
for. `FirstMountRight` speaks of the end of the mount; `MountInv`, which TLC confirmed on the run's
instance first, follows it there while nothing has been disturbed: the cache is empty or has block
0 of the card that is in, every read before the first mount ends is one of block 0, and once the
MBR was read the next read is of the boot sector it names, or still of block 0 if its entry is
inactive, into a free entry of `fat_fss`.

*Link.* Addresses run around the ring, so `LinkInv` speaks of distances from `Base`, the first
byte the chip must leave alone: the start of the packet being read until the first write of `ERXRDPT`,
the next pointer from then on. Seen from there the packets that are not freed lie one behind the other
and `ERXWRPT` behind them (`Laid`); each packet's next pointer is the start of the next, the last
one's is `ERXWRPT` (`Chained`, which needs that the chip's rounding and the pointer it writes
agree at both ends of the ring, `TakenEnds`); and the chip is stopped at `Base` or one byte
before it (`Fenced`). The chip's free space is then never more than the way left to `Base` (`RoomUpTo`),
so what it writes overlaps nothing (`NoOverlap`). TLC confirmed `LinkInv` on rings of 11 to 15 bytes. `Fenced` is
what fails when the two writes and a full ring meet: `OldestIntact` holds up to there,
and `MisledOnlyWhenFull` says when that can be, for the ring of `enc28j60.h` as for any other: the next
pointer is 0, `RXSTOP` is even, and no byte is free. So while one byte of the ring stays free, the
chip is never misled, and with an odd `RXSTOP_INIT` not at all.

*Tftp, the server.* `IInv` says of the server, its socket, the open files and what is printed
(`ServerOK`): one socket has port 69, and it is the server's; exactly the file being sent is open, and
its offset is not behind its end; and while a writer is heard, the socket is bound to it and
everything printed is its own, numbered up to the last block (`WriterBound`), because `udp.c:228`
lets no one else through (`Arrival`). All ways out of a transfer go through `tftpd_reset` (`ResetOK`).

*Tftp, the file.* What `Fat` computes is given by recursive functions: a lookup, a chain, a read, a
seek. `Recursion` shows, once, that a function given by its first value and a step exists, and
`Induction` that a set of numbers with 0 and closed under successor is all of them, from the least
counterexample (`NatMin`); the induction theorems of the library take an operator and cannot be used here. With them
`Steps`, `Chained`, `Reading` and `Listed` are known value by value. `InChain` is about
the file while it is open; the invariant needs to know where the place comes from. `InPlace` says
that the reader bound to the socket is the one whose file is open, and that the cluster at hand is the
k-th of that file for some k that is inside it, not above `fileCluster` and not ahead of the offset
(`AtPlace`). The inequalities matter: after an old acknowledgment `fat_fseek` counts `fileCluster` up
from the wrong end, so that it is no longer equal to k, but never falls below it, and a seek that
goes on from the cluster at hand stays in the chain, too far back (`SeekReachable`). That is finding 3 of section 5 seen
from its harmless side. A read walks on only while the offset is below the size, so that
a chain that covers the file is long enough (`ReadOnePlace`).

*Tftp, what is sent.* For a reader whose acknowledgments are in turn, `Orderly` makes those
inequalities equalities: the file stands behind the block sent last, in its cluster, and the count is that
cluster's number (`BehindBlock`). The acknowledgment of that block or of the one before leads on or to the same cluster, never back, so
that `fat_fseek` counts right (`SeekBlock`); a block lies in one cluster (`BlockInCluster`),
so that the read is of consecutive units (`ReadBlock`). The hypotheses, all about the disk and not
about the server: `ChainsCover`, the chain of a file has clusters for its size, which the code never checks;
`LookupFinds`, the path leads to the file on the disk, which the code guarantees for the first
cluster of a directory only (section 8), and which the run evaluates on its disk; `BlocksFit`,
clusters are whole blocks and no file is longer than 2^16 - 512 bytes, or the offset
of `tftp.c:250` wraps when its last block is acknowledged. The bound `MaxFileCluster` is any number
in the theorems.

*Only model-checked*: liveness. Liveness under fairness and `ENABLED` are out of the prover's reach.

## 7 What is not modelled

- *Contents of packets*: parsing, building, checksums. The sum of `net.c` is a loop over
  bytes that a unit test reaches.
- *TCP segments*: `tcp_send_packet`'s loop with windows, segment sizes and 32-bit
  sequence numbers; `Tcp` allows every amount it could send.
- *Transmission*: the transmit buffer of the chip and the one shared by all protocols.
- *Undefined behaviour of C*: unaligned and overlapping copies. Reads of what a failed
  read left uninitialised are modelled, as `Noise`, in `Storage`.
- *`rtc.c`, `ds1338.c`, `i2c.c`*: a pure conversion, and register access that only the
  initialisation uses. `spi.c`, `uart.c`, `exmem.c`: register access.
- *`tp.c`'s own state, `icmp.c`, `netstat.c`, debugging output.*
- *Of `fat.c`*: `fat_cd` and the public directory calls, which have no caller that main
  starts; `SEEK_CUR` and `SEEK_END`.
- *Requests with an invalid mode*, which `tftp.c` refuses without a change of state. `netascii`
  is handled as `octet` is.
- *What a module does with a handle it lost* to a stray `dhcp_stop` (section 3).

## 8 Observations

What follows was met while modelling, is part of the models, and has no comment or test that
says otherwise.

- *timer*: `timer_set` resets the counter, so a timer that is armed again at least once per
  period is never served (`timer.c:107-120`).
- *tcp*: a connection accepted when no timer is left (`tcp.c:954`) is not refused and never
  leaves `time_wait`; with `OtherTimers` = {2} in `MCTcpErrors.cfg` TLC shows it against
  `TimeWaitEnds`. A failed send closes a connection and then arms its timer, whose expiry sends SYN
  from a closed socket (`tcp.c:500`); a closed TCB on the listener's port gets the
  listener's segments, and `httpd.c` never frees one (`tcp.c:1151`); `close_wait` goes to
  `last_ack` although the FIN did not leave (`tcp.c:785`).
- *dhcp*: `dhcp_stop` of a client that is not started or has been refused frees
  socket 0 and timer 0, whoever has them: the latter is `arp.c`'s (`dhcp.c:702-711`). A refusal while rebinding frees the client but leaves the expired address
  configured (`dhcp.c:420-432`). A lease of more than 2^31 ms is not timed (`dhcp.c:438`): `BoundIsArmed`
  exempts it.
- *tftp*: without timeouts a reader that vanishes keeps the server sending for ever, and
  requests of others are ignored; a request for a missing file leaves the socket bound to
  its sender, and then only that sender is heard (`Ignored`, `RrqNotFound`). A file whose size is a
  multiple of 512 has no short last block. A gap in the blocks of a writer is accepted
  (`tftp.c:409`). `acked_block*TFTP_BLOCK_SIZE` is 16 bits wide, so files beyond 64 KiB begin
  again; with `WordModulus` = 4 the model shows it too (and `BlocksFit`, the hypothesis of
  `BlocksInTurn`, is false).
- *fat*: the place in a directory is not reset when its cluster changes (`fat.c:519-540`), so
  only one cluster of a directory is listed as it is. Of the markers for the end of a chain,
  0xfff9 to 0xffff are taken for clusters.
- *storage*: `sd_read_block` records every block as block 0 (`sd.c:374`). Other blocks are
  therefore never served from the cache, and block 0 may be served from any block:
  `FreshBlocks` exempts it, and `FirstMountRight` holds for the first mount only. A card whose
  first partition is marked inactive, as many are, makes `partition_open` return before it
  stores the offset (`partition.c:39`); `main.c:116` does not look at the result, and the partition table
  is read as a boot sector. A mount of which a
  read fails keeps its entry of `fat_fss`, and each mount one of
  `fat_dir_entries`; the second `tftpd_init` finds port 69 taken, and the server loses its
  socket. A file read from a card that has gone spins with interrupts off (`fat.c:402`).
- *link*: the driver writes an even address to `ERXRDPT` first (346-347), which the comment at 350
  warns of, and the one before it only then (351-359). Between the two the chip may fill the ring to
  the byte before the first. If that is the ring's last byte, which happens when the next pointer
  is 0 and only because `ENC28J60_RXSTOP_INIT` is even (0x19fe), the second write makes `ERXRDPT` equal
  to `ERXWRPT`: the chip takes the full ring for an empty one and writes over packets that are
  still counted. TLC finds it in the instance of `link` (`mistaken`); with an odd end it cannot happen. A packet of exactly the buffer's size is terminated
  one byte behind it. `enc28j60_send_packet` does not wait for the packet before (285).

## 9 Plan

Done, in this order: timer service, fifo pool, TCP core, ARP, with their type theorems,
all invariants of the timer, the fifos, ARP and TCP; UDP and DHCP, with all their safety properties as theorems;
FAT and TFTP, with theirs; the card, the cache and the mount, with the theorems about what readers get and what the first mount finds;
the receive ring, with what it keeps intact as a theorem.

Next, by weight:

1. `TcpOutput`: `tcp_send_packet`'s loop with real window, segment size and comparisons of
   a small width; the amounts it sends are within what `SentUpTo` allows, and it ends.
2. The lookup of `Fat` against the tree of directories, as a theorem for directories of one cluster,
   to discharge `LookupFinds` there.
3. Transmission in `Link`; the calendar conversion against a reference calendar; `tp.c`.
