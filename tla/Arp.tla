--------------------------------- MODULE Arp ---------------------------------
(***************************************************************************)
(* The address table of net/arp.c: who fills it (every ARP packet for us   *)
(* and every IP packet, through arp_table_insert), who asks it             *)
(* (ip_send_packet, through arp_get_mac) and the timer that ages it.       *)
(* Handlers run to completion and call no application code, so each is one *)
(* step.  The timer is slot arp_timer of the table of sys/timer.c.         *)
(***************************************************************************)
EXTENDS TimerPool, FiniteSets

CONSTANTS
  TableSize,      (* ARP_TABLE_SIZE                                        *)
  EntryTimeout,   (* ARP_TABLE_ENTRY_TIMEOUT, in ticks of the arp timer    *)
  ReqTime,        (* ARP_TABLE_ENTRY_REQ_TIME                              *)
  IpAddrs,        (* The IP addresses of other hosts.                      *)
  ZeroIp,         (* 0.0.0.0: what the cleared table holds, and the source *)
                  (* of a host that has no address yet.                    *)
  Macs, ZeroMac   (* Ethernet addresses; six bytes of zero.                *)

ASSUME TableAssumption == TableSize \in Nat \ {0}
ASSUME TimeoutsAssumption == EntryTimeout \in Nat \ {0} /\ ReqTime \in 0 .. EntryTimeout
ASSUME AddressesAssumption == ZeroIp \notin IpAddrs /\ ZeroMac \notin Macs

VARIABLES
  table,   (* arp_table                                                    *)
  timers   (* the timer table, in which arp_init takes the first slot      *)

\* History, read by the properties and by no guard.
VARIABLES
  heard,   (* <<ip, mac>>: packets the insert was called with              *)
  asked    (* the addresses a request has been broadcast for               *)

vars == <<table, timers, heard, asked>>

Entries == 0 .. TableSize - 1
Senders == IpAddrs \union {ZeroIp}

Entry == [status : {"request", "timeout", "empty"}, ip : Senders,
          mac : Macs \union {ZeroMac}, timeout : 0 .. EntryTimeout]

TypeOK ==
  /\ table \in [Entries -> Entry]
  /\ timers \in [Timers -> [callback : {NoCallback, "arp_timer_tick"}, arg : {NoArg},
                            state : States, mode : Modes]]
  /\ heard \subseteq Senders \X Macs
  /\ asked \subseteq IpAddrs

arp_timer == AllocHandle(EmptyPool)

\* arp_init.  Zero is the code of "request", so the cleared table asks for
\* 0.0.0.0 in every entry.
Init ==
  /\ table = [e \in Entries |-> [status |-> "request", ip |-> ZeroIp,
                                 mac |-> ZeroMac, timeout |-> 0]]
  /\ timers = Set(Alloc(EmptyPool, "arp_timer_tick"), arp_timer, 1, "one_shot")
  /\ heard = {}
  /\ asked = {}

-----------------------------------------------------------------------------
\* The entry that knows, or waits for, ip.  arp_get_mac and arp_table_insert
\* both stop at the first.
Matches(ip) == {e \in Entries : table[e].ip = ip /\ table[e].status # "empty"}

EmptyEntries == {e \in Entries : table[e].status = "empty"}

\* The first entry with the least timeout, when that is below the default.
Replaceable ==
  {e \in Entries : /\ table[e].timeout < EntryTimeout
                   /\ \A f \in Entries : table[e].timeout <= table[f].timeout}

\* Mutation: the scan stops at an entry with timeout 0 (arp.c:236-238).
Inserted_StopsAtZero(ip, mac) ==
  LET pair == [status |-> "timeout", ip |-> ip, mac |-> mac, timeout |-> EntryTimeout]
      zero == {e \in Entries : table[e].timeout = 0}
      known == {e \in Matches(ip) : \A z \in zero : e < z}
  IN  IF known # {} THEN [table EXCEPT ![Lowest(known)] = pair]
      ELSE IF Replaceable # {} THEN [table EXCEPT ![Lowest(Replaceable)] = pair]
      ELSE table

\* Mutation: a replaced entry keeps its MAC.
Inserted_KeepsMac(ip, mac) ==
  LET known == Matches(ip)
      slot == IF known # {} THEN known ELSE Replaceable
  IN  IF slot = {} THEN table
      ELSE [table EXCEPT ![Lowest(slot)] =
              [status |-> "timeout", ip |-> ip, timeout |-> EntryTimeout,
               mac |-> IF @.status = "request" THEN mac ELSE @.mac]]

\* Mutation: the default time is one more than the type of the table.
Inserted_OneMore(ip, mac) ==
  LET slot == IF Matches(ip) # {} THEN Matches(ip) ELSE Replaceable
  IN  IF slot = {} THEN table
      ELSE [table EXCEPT ![Lowest(slot)] =
              [status |-> "timeout", ip |-> ip, timeout |-> EntryTimeout + 1, mac |-> mac]]

\* arp_table_insert: a known pair is refreshed but its MAC stays; a waited-for
\* one is filled in; otherwise the pair replaces the oldest entry, unless all
\* are fresh.
Inserted(ip, mac) ==
  LET pair == [status |-> "timeout", ip |-> ip, mac |-> mac, timeout |-> EntryTimeout]
      known == Matches(ip)
  IN  IF known # {}
      THEN IF table[Lowest(known)].status = "timeout"
           THEN [table EXCEPT ![Lowest(known)].timeout = EntryTimeout]
           ELSE [table EXCEPT ![Lowest(known)] = pair]
      ELSE IF Replaceable # {} THEN [table EXCEPT ![Lowest(Replaceable)] = pair]
      ELSE table

arp_table_insert(ip, mac) ==
  /\ table' = Inserted(ip, mac)
  /\ heard' = heard \union {<<ip, mac>>}
  /\ UNCHANGED <<timers, asked>>

\* arp_get_mac finds a MAC, and the entry is fresh again.
GetMacHit(ip) ==
  /\ Matches(ip) # {}
  /\ table[Lowest(Matches(ip))].status = "timeout"
  /\ table' = [table EXCEPT ![Lowest(Matches(ip))].timeout = EntryTimeout]
  /\ UNCHANGED <<timers, heard, asked>>

\* Mutation: the request is sent only when it cannot be noted.
GetMacMiss_Silent(ip) ==
  /\ Matches(ip) = {}
  /\ table' = IF EmptyEntries = {} THEN table
              ELSE [table EXCEPT ![Highest(EmptyEntries)].ip = ip,
                                 ![Highest(EmptyEntries)].status = "request",
                                 ![Highest(EmptyEntries)].timeout = ReqTime]
  /\ asked' = IF EmptyEntries = {} THEN asked \union {ip} ELSE asked
  /\ UNCHANGED <<timers, heard>>

\* It finds nothing: it broadcasts a request, and notes it if an entry is empty.
\* (When a request is already noted it does nothing, and has no action.)
GetMacMiss(ip) ==
  /\ Matches(ip) = {}
  /\ table' = IF EmptyEntries = {} THEN table
              ELSE [table EXCEPT ![Highest(EmptyEntries)].ip = ip,
                                 ![Highest(EmptyEntries)].status = "request",
                                 ![Highest(EmptyEntries)].timeout = ReqTime]
  /\ asked' = asked \union {ip}
  /\ UNCHANGED <<timers, heard>>

arp_get_mac(ip) == GetMacHit(ip) \/ GetMacMiss(ip)

\* One entry, one tick older.
Aged(entry) ==
  IF entry.status = "empty" THEN entry
  ELSE IF entry.timeout > 0 THEN [entry EXCEPT !.timeout = @ - 1]
  ELSE [entry EXCEPT !.status = "empty"]

\* timer_tick calls it when the timer has run out, and does to the timer what
\* AfterCallback says once it has returned.
arp_timer_tick ==
  /\ Running(timers, arp_timer)
  /\ table' = [e \in Entries |-> Aged(table[e])]
  /\ timers' = AfterCallback(Set(timers, arp_timer, 1, "one_shot"), arp_timer)
  /\ UNCHANGED <<heard, asked>>

Packet == \E ip \in Senders, mac \in Macs : arp_table_insert(ip, mac)
Ask == \E ip \in IpAddrs : arp_get_mac(ip)

Next == Packet \/ Ask \/ arp_timer_tick

Spec == Init /\ [][Next]_vars

-----------------------------------------------------------------------------
(* Properties.                                                             *)

\* The table has at most one entry for an address, so that the hit does not
\* depend on which entry the scan meets first: an insert, a request and an aged
\* entry that is reused never leave a second one behind.
UniqueEntries ==
  \A ip \in IpAddrs : Cardinality(Matches(ip)) <= 1

\* The MAC an entry answers with came in a packet from that entry's address.
\* An entry is reused for another address by two different functions, which do
\* not both write all of it.
PairsAreHeard ==
  \A e \in Entries :
    table[e].status = "timeout" => <<table[e].ip, table[e].mac>> \in heard

\* An entry waits only for an address that was asked for on the wire: otherwise
\* arp_get_mac would stay silent, for it does not repeat a noted request.
WaitsAreAsked ==
  \A e \in Entries :
    table[e].status = "request" => table[e].ip \in asked \union {ZeroIp}
=============================================================================
