------------------------------- MODULE Arp_proofs -------------------------------
(***************************************************************************)
(* Theorems about module Arp, for every size of the table, every set of    *)
(* hosts and all timeouts.                                                 *)
(***************************************************************************)
EXTENDS Arp, FiniteSets, FiniteSetTheorems, TLAPS

-----------------------------------------------------------------------------
(* The timer table: a free slot is found when there is one, and no call of *)
(* timer.h takes the table out of its type.                                *)

\* The scan of a table for the first slot that fits finds one, if there is one: a
\* finite set of numbers that is not empty has a least element.
LEMMA LeastExists ==
  ASSUME NEW S \in SUBSET Int, IsFiniteSet(S), S # {}
  PROVE  \E n \in S : \A m \in S : n <= m
<1> DEFINE Below(n) == {m \in S : m < n}
           Sets == {Below(n) : n \in S}
<1>1. \A n \in S : Below(n) \in FiniteSubsetsOf(S)
  BY FS_Subset DEF FiniteSubsetsOf
<1>2. Sets \subseteq FiniteSubsetsOf(S) /\ Sets # {}
  BY <1>1
<1>3. IsWellFoundedOn(StrictSubsetOrdering(S), FiniteSubsetsOf(S))
  BY FS_StrictSubsetOrderingWellFounded
<1> HIDE DEF Sets
<1>4. PICK x \in Sets : \A y \in Sets : <<y, x>> \notin StrictSubsetOrdering(S)
  BY <1>2, <1>3, WFMin
<1> USE DEF Sets
<1>5. PICK n \in S : x = Below(n)
  BY <1>4
<1>6. ASSUME NEW m \in S, ~(n <= m)
      PROVE  FALSE
  <2>1. m \in Int /\ n \in Int /\ m < n
    BY <1>6
  <2>2. Below(m) \subseteq Below(n)
    <3>1. \A k \in S : k < m => k < n
      BY <2>1
    <3>2. QED
      BY <3>1
  <2>3. m \in Below(n) /\ m \notin Below(m)
    BY <2>1
  <2>4. <<Below(m), x>> \in StrictSubsetOrdering(S)
    BY <1>5, <2>2, <2>3 DEF StrictSubsetOrdering
  <2>5. QED
    BY <1>4, <2>4
<1>7. QED
  BY <1>6

\* And so does a scan that goes on to the end: it has a greatest.
LEMMA GreatestExists ==
  ASSUME NEW S \in SUBSET Int, IsFiniteSet(S), S # {}
  PROVE  \E n \in S : \A m \in S : m <= n
<1> DEFINE Above(n) == {m \in S : m > n}
           Sets == {Above(n) : n \in S}
<1>1. \A n \in S : Above(n) \in FiniteSubsetsOf(S)
  BY FS_Subset DEF FiniteSubsetsOf
<1>2. Sets \subseteq FiniteSubsetsOf(S) /\ Sets # {}
  BY <1>1
<1>3. IsWellFoundedOn(StrictSubsetOrdering(S), FiniteSubsetsOf(S))
  BY FS_StrictSubsetOrderingWellFounded
<1> HIDE DEF Sets
<1>4. PICK x \in Sets : \A y \in Sets : <<y, x>> \notin StrictSubsetOrdering(S)
  BY <1>2, <1>3, WFMin
<1> USE DEF Sets
<1>5. PICK n \in S : x = Above(n)
  BY <1>4
<1>6. ASSUME NEW m \in S, ~(m <= n)
      PROVE  FALSE
  <2>1. m \in Int /\ n \in Int /\ m > n
    BY <1>6
  <2>2. Above(m) \subseteq Above(n)
    <3>1. \A k \in S : k > m => k > n
      BY <2>1
    <3>2. QED
      BY <3>1
  <2>3. m \in Above(n) /\ m \notin Above(m)
    BY <2>1
  <2>4. <<Above(m), x>> \in StrictSubsetOrdering(S)
    BY <1>5, <2>2, <2>3 DEF StrictSubsetOrdering
  <2>5. QED
    BY <1>4, <2>4
<1>7. QED
  BY <1>6

\* timer_alloc finds the first free slot, or there is none (timer.c:142-144).
LEMMA AllocHandleFree ==
  ASSUME NEW pool
  PROVE  /\ FreeSlots(pool) = {} => AllocHandle(pool) = NoTimer
         /\ FreeSlots(pool) # {} =>
              /\ AllocHandle(pool) \in FreeSlots(pool)
              /\ AllocHandle(pool) \in Timers
<1>1. IsFiniteSet(FreeSlots(pool)) /\ FreeSlots(pool) \in SUBSET Int
  <2>1. IsFiniteSet(Timers) /\ Timers \in SUBSET Int
    BY FS_Interval, TimerMaxAssumption DEF Timers
  <2>2. FreeSlots(pool) \in SUBSET Timers
    BY DEF FreeSlots
  <2>3. QED
    BY <2>1, <2>2, FS_Subset
<1>2. ASSUME FreeSlots(pool) # {}
      PROVE  AllocHandle(pool) \in FreeSlots(pool)
  <2>1. \E t \in FreeSlots(pool) : \A u \in FreeSlots(pool) : t <= u
    BY <1>1, <1>2, LeastExists
  <2>2. QED
    BY <1>2, <2>1 DEF AllocHandle, Lowest
<1>3. QED
  BY <1>2 DEF AllocHandle, FreeSlots

\* timer_init leaves a table of its type.
LEMMA EmptyPoolType ==
  ASSUME NEW C, NEW A
  PROVE  EmptyPool \in PoolType(C, A)
BY DEF EmptyPool, EmptyEntry, PoolType, States, Modes

\* timer_alloc keeps the type of the table, whether it finds a slot or not.
LEMMA AllocType ==
  ASSUME NEW C, NEW A, NEW pool \in PoolType(C, A), NEW c \in C
  PROVE  Alloc(pool, c) \in PoolType(C, A)
BY AllocHandleFree DEF Alloc, PoolType, States

\* So does timer_set, whatever handle it is given.
LEMMA SetType ==
  ASSUME NEW C, NEW A, NEW pool \in PoolType(C, A), NEW t, NEW ms, NEW m \in Modes
  PROVE  Set(pool, t, ms, m) \in PoolType(C, A)
BY DEF Set, Valid, PoolType, States

\* So does the return of a callback to timer_tick (timer.c:67-75).
LEMMA AfterCallbackType ==
  ASSUME NEW C, NEW A, NEW pool \in PoolType(C, A), NEW t
  PROVE  AfterCallback(pool, t) \in PoolType(C, A)
BY DEF AfterCallback, PoolType, States


-----------------------------------------------------------------------------
(* The table of addresses.                                                 *)


\* The first and the last entry of a kind exist when there is one of the kind.
LEMMA EntryFound ==
  ASSUME NEW S \in SUBSET Entries, S # {}
  PROVE  Lowest(S) \in S /\ Highest(S) \in S
<1>1. IsFiniteSet(S) /\ S \in SUBSET Int
  <2>1. IsFiniteSet(Entries) /\ Entries \in SUBSET Int
    BY FS_Interval, TableAssumption DEF Entries
  <2>2. QED
    BY <2>1, FS_Subset
<1>2. \E n \in S : \A m \in S : n <= m
  BY <1>1, LeastExists
<1>3. \E n \in S : \A m \in S : m <= n
  BY <1>1, GreatestExists
<1>4. QED
  BY <1>2, <1>3 DEF Lowest, Highest

\* The only entry arp_table_insert writes: what it holds afterwards.
LEMMA InsertedEntry ==
  ASSUME TypeOK, NEW ip, NEW mac
  PROVE  \/ Inserted(ip, mac) = table /\ Matches(ip) = {}
         \/ \E e \in Matches(ip) :
              /\ table[e].status = "timeout"
              /\ Inserted(ip, mac) = [table EXCEPT ![e].timeout = EntryTimeout]
         \/ \E e \in Entries :
              /\ e \in Matches(ip) \/ Matches(ip) = {}
              /\ Inserted(ip, mac) =
                   [table EXCEPT ![e] = [status |-> "timeout", ip |-> ip, mac |-> mac,
                                         timeout |-> EntryTimeout]]
<1>1. Matches(ip) \in SUBSET Entries /\ Replaceable \in SUBSET Entries
  BY DEF Matches, Replaceable
<1>2. CASE Matches(ip) # {}
  <2>1. Lowest(Matches(ip)) \in Matches(ip)
    BY <1>1, <1>2, EntryFound
  <2>2. QED
    BY <1>1, <1>2, <2>1 DEF Inserted
<1>3. CASE Matches(ip) = {} /\ Replaceable # {}
  <2>1. Lowest(Replaceable) \in Entries
    BY <1>1, <1>3, EntryFound
  <2>2. QED
    BY <1>3, <2>1 DEF Inserted
<1>4. CASE Matches(ip) = {} /\ Replaceable = {}
  BY <1>4 DEF Inserted
<1>5. QED
  BY <1>2, <1>3, <1>4

ArpPool == PoolType({"arp_timer_tick"}, {NoArg})

\* Arming the timer of the table, for 1 ms, and only once (arp.c:112, 271).
LEMMA ArmedType ==
  ASSUME NEW pool \in ArpPool
  PROVE  Set(pool, arp_timer, 1, "one_shot") \in ArpPool
<1>1. "one_shot" \in Modes
  BY DEF Modes
<1>2. QED
  BY <1>1, SetType DEF ArpPool

\* Times the table may hold.
LEMMA TimesTyped == EntryTimeout \in 0 .. EntryTimeout /\ ReqTime \in 0 .. EntryTimeout
BY TimeoutsAssumption

\* Every handler of arp.c keeps the table in its type: a replaced entry, a noted
\* request and an aged one hold times the code can count down (arp.c:199-305).
THEOREM TypeCorrect == Spec => []TypeOK
<1>1. Init => TypeOK
  <2> SUFFICES ASSUME Init PROVE TypeOK
    OBVIOUS
  <2>1. table \in [Entries -> Entry]
    BY TimeoutsAssumption DEF Init, Entry, Senders
  <2>2. timers \in ArpPool
    <3>1. EmptyPool \in ArpPool
      BY EmptyPoolType DEF ArpPool
    <3>2. Alloc(EmptyPool, "arp_timer_tick") \in ArpPool
      BY <3>1, AllocType DEF ArpPool
    <3>3. QED
      BY <3>2, ArmedType DEF Init
  <2>3. QED
    BY <2>1, <2>2 DEF Init, TypeOK, ArpPool, PoolType
<1>2. ASSUME TypeOK, [Next]_vars
      PROVE  TypeOK'
  <2> USE <1>2
  <2>1. ASSUME NEW ip \in Senders, NEW mac \in Macs, arp_table_insert(ip, mac)
        PROVE  TypeOK'
    <3>1. table' \in [Entries -> Entry]
      <4>1. /\ [status |-> "timeout", ip |-> ip, mac |-> mac, timeout |-> EntryTimeout]
                  \in Entry
            /\ \A e \in Entries : [table[e] EXCEPT !.timeout = EntryTimeout] \in Entry
        BY TimesTyped DEF TypeOK, Entry
      <4>2. Matches(ip) \subseteq Entries
        BY DEF Matches
      <4>3. \A e \in Entries : [table EXCEPT ![e].timeout = EntryTimeout] =
                                [table EXCEPT ![e] = [table[e] EXCEPT !.timeout = EntryTimeout]]
        OBVIOUS
      <4>4. ASSUME NEW e \in Entries, NEW entry \in Entry, table' = [table EXCEPT ![e] = entry]
            PROVE  table' \in [Entries -> Entry]
        BY <4>4 DEF TypeOK
      <4>5. CASE table' = table
        BY <4>5 DEF TypeOK
      <4>6. QED
        BY <2>1, <4>1, <4>2, <4>3, <4>4, <4>5, InsertedEntry DEF arp_table_insert
    <3>2. QED
      BY <2>1, <3>1 DEF arp_table_insert, TypeOK
  <2>2. ASSUME NEW ip \in IpAddrs, GetMacHit(ip)
        PROVE  TypeOK'
    <3>1. table' \in [Entries -> Entry]
      <4>1. \A e \in Entries : [table[e] EXCEPT !.timeout = EntryTimeout] \in Entry
        BY TimesTyped DEF TypeOK, Entry
      <4>2. QED
        BY <2>2, <4>1 DEF GetMacHit, TypeOK
    <3>2. QED
      BY <2>2, <3>1 DEF GetMacHit, TypeOK
  <2>3. ASSUME NEW ip \in IpAddrs, GetMacMiss(ip)
        PROVE  TypeOK'
    <3>1. table' \in [Entries -> Entry]
      <4> DEFINE noted(e) == [table[e] EXCEPT !.ip = ip, !.status = "request",
                                              !.timeout = ReqTime]
      <4>1. \A e \in Entries : noted(e) \in Entry
        BY TimesTyped DEF TypeOK, Entry, Senders
      <4>2. CASE EmptyEntries = {}
        BY <2>3, <4>2 DEF GetMacMiss, TypeOK
      <4>3. CASE EmptyEntries # {}
        <5>1. table' = [table EXCEPT ![Highest(EmptyEntries)] =
                                       noted(Highest(EmptyEntries))]
          <6>1. Highest(EmptyEntries) \in Entries
            BY <4>3, EntryFound DEF EmptyEntries
          <6>2. QED
            BY <2>3, <4>3, <6>1 DEF GetMacMiss, TypeOK, Entry
        <5> HIDE DEF noted
        <5>2. QED
          BY <4>1, <5>1 DEF TypeOK
      <4>4. QED
        BY <4>2, <4>3
    <3>2. QED
      BY <2>3, <3>1 DEF GetMacMiss, TypeOK
  <2>4. CASE arp_timer_tick
    <3>1. table' \in [Entries -> Entry]
      <4>1. ASSUME NEW e \in Entries
            PROVE  Aged(table[e]) \in Entry
        BY TimeoutsAssumption DEF Aged, TypeOK, Entry
      <4>2. QED
        BY <2>4, <4>1 DEF arp_timer_tick
    <3>2. timers' \in ArpPool
      <4>1. timers \in ArpPool
        BY DEF TypeOK, ArpPool, PoolType
      <4>2. QED
        BY <2>4, <4>1, ArmedType, AfterCallbackType DEF arp_timer_tick, ArpPool
    <3>3. QED
      BY <2>4, <3>1, <3>2 DEF arp_timer_tick, TypeOK, ArpPool, PoolType
  <2>5. CASE UNCHANGED vars
    BY <2>5 DEF vars, TypeOK
  <2>6. QED
    BY <2>1, <2>2, <2>3, <2>4, <2>5 DEF Next, Packet, Ask, arp_get_mac
<1>3. QED
  BY <1>1, <1>2, PTL DEF Spec

-----------------------------------------------------------------------------
(* What the table says.                                                    *)

\* No two entries for one address: UniqueEntries without the counting.
OneEach ==
  \A e, f \in Entries :
    /\ table[e].ip = table[f].ip /\ table[e].ip \in IpAddrs
    /\ table[e].status # "empty" /\ table[f].status # "empty"
    => e = f

TableInv == OneEach /\ PairsAreHeard /\ WaitsAreAsked

LEMMA TableStep == TypeOK /\ TableInv /\ [Next]_vars => TableInv'
<1> SUFFICES ASSUME TypeOK, TableInv, [Next]_vars
             PROVE  TableInv'
  OBVIOUS
<1> USE DEF TypeOK, TableInv, OneEach, PairsAreHeard, WaitsAreAsked
<1>1. ASSUME NEW ip \in Senders, NEW mac \in Macs, arp_table_insert(ip, mac)
      PROVE  TableInv'
  <2>1. heard' = heard \union {<<ip, mac>>} /\ UNCHANGED asked
    BY <1>1 DEF arp_table_insert
  <2>2. CASE table' = table
    BY <2>1, <2>2
  <2>3. ASSUME NEW e \in Matches(ip), table[e].status = "timeout",
               table' = [table EXCEPT ![e].timeout = EntryTimeout]
        PROVE  TableInv'
    <3>1. \A f \in Entries : /\ table'[f].status = table[f].status
                            /\ table'[f].ip = table[f].ip
                            /\ table'[f].mac = table[f].mac
      BY <2>3 DEF Entry, Matches
    <3>2. QED
      BY <2>1, <3>1
  <2>4. ASSUME NEW e \in Entries, e \in Matches(ip) \/ Matches(ip) = {},
               table' = [table EXCEPT ![e] = [status |-> "timeout", ip |-> ip, mac |-> mac,
                                              timeout |-> EntryTimeout]]
        PROVE  TableInv'
    <3>1. \A f \in Entries \ {e} : table'[f] = table[f]
      BY <2>4
    <3>2. table'[e].status = "timeout" /\ table'[e].ip = ip /\ table'[e].mac = mac
      BY <2>4
    <3>3. \A f \in Entries \ {e} :
            ip \in IpAddrs /\ table[f].ip = ip => table[f].status = "empty"
      BY <2>4 DEF Matches
    <3>4. OneEach'
      BY <3>1, <3>2, <3>3
    <3>5. PairsAreHeard' /\ WaitsAreAsked'
      BY <2>1, <3>1, <3>2
    <3>6. QED
      BY <3>4, <3>5
  <2>5. QED
    BY <1>1, <2>2, <2>3, <2>4, InsertedEntry DEF arp_table_insert
<1>2. ASSUME NEW ip \in IpAddrs, GetMacHit(ip)
      PROVE  TableInv'
  <2>1. \A f \in Entries : /\ table'[f].status = table[f].status
                          /\ table'[f].ip = table[f].ip
                          /\ table'[f].mac = table[f].mac
    BY <1>2 DEF GetMacHit, Entry
  <2>2. QED
    BY <1>2, <2>1 DEF GetMacHit
<1>3. ASSUME NEW ip \in IpAddrs, GetMacMiss(ip)
      PROVE  TableInv'
  <2>1. asked' = asked \union {ip} /\ UNCHANGED heard
    BY <1>3 DEF GetMacMiss
  <2>2. CASE EmptyEntries = {}
    BY <1>3, <2>1, <2>2 DEF GetMacMiss
  <2>3. CASE EmptyEntries # {}
    <3> DEFINE e == Highest(EmptyEntries)
    <3>1. e \in Entries
      BY <2>3, EntryFound DEF EmptyEntries
    <3>2. \A f \in Entries \ {e} : table'[f] = table[f]
      BY <1>3, <2>3 DEF GetMacMiss
    <3>3. table'[e].status = "request" /\ table'[e].ip = ip
      BY <1>3, <2>3, <3>1 DEF GetMacMiss, Entry
    <3>4. \A f \in Entries : table[f].ip = ip => table[f].status = "empty"
      BY <1>3 DEF GetMacMiss, Matches
    <3> HIDE DEF e
    <3>5. OneEach'
      BY <3>1, <3>2, <3>3, <3>4
    <3>6. PairsAreHeard' /\ WaitsAreAsked'
      BY <2>1, <3>1, <3>2, <3>3
    <3>7. QED
      BY <3>5, <3>6
  <2>4. QED
    BY <2>2, <2>3
<1>4. CASE arp_timer_tick
  <2>1. \A f \in Entries : /\ table'[f].status \in {table[f].status, "empty"}
                          /\ table'[f].ip = table[f].ip
                          /\ table'[f].mac = table[f].mac
    BY <1>4 DEF arp_timer_tick, Aged, Entry
  <2>2. QED
    BY <1>4, <2>1 DEF arp_timer_tick
<1>5. CASE UNCHANGED vars
  BY <1>5 DEF vars
<1>6. QED
  BY <1>1, <1>2, <1>3, <1>4, <1>5 DEF Next, Packet, Ask, arp_get_mac

LEMMA TableCorrect == Spec => []TableInv
<1>1. Init => TableInv
  BY AddressesAssumption DEF Init, TableInv, OneEach, PairsAreHeard, WaitsAreAsked
<1>2. QED
  BY <1>1, TypeCorrect, TableStep, PTL DEF Spec

\* The table never has two entries for an address, whichever entry an insert, a
\* request or the reuse of an aged entry chooses (arp.c:199-305).
THEOREM UniqueCorrect == Spec => []UniqueEntries
<1>1. TypeOK /\ TableInv => UniqueEntries
  <2> SUFFICES ASSUME TableInv, NEW ip \in IpAddrs
               PROVE  Cardinality(Matches(ip)) <= 1
    BY DEF UniqueEntries
  <2>1. CASE Matches(ip) = {}
    BY <2>1, FS_EmptySet
  <2>2. CASE Matches(ip) # {}
    <3>1. PICK e : e \in Matches(ip)
      BY <2>2
    <3>2. Matches(ip) = {e}
      BY <3>1 DEF Matches, TableInv, OneEach
    <3>3. QED
      BY <3>2, FS_Singleton
  <2>3. QED
    BY <2>1, <2>2
<1>2. QED
  BY <1>1, TypeCorrect, TableCorrect, PTL

\* What arp_get_mac answers was heard from that address (arp.c:286-304).
THEOREM PairsCorrect == Spec => []PairsAreHeard
<1>1. TableInv => PairsAreHeard
  BY DEF TableInv
<1>2. QED
  BY <1>1, TableCorrect, PTL

\* What the table waits for was asked for on the wire (arp.c:305-340).
THEOREM WaitsCorrect == Spec => []WaitsAreAsked
<1>1. TableInv => WaitsAreAsked
  BY DEF TableInv
<1>2. QED
  BY <1>1, TableCorrect, PTL
=============================================================================
