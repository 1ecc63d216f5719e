----------------------------- MODULE Storage_proofs -----------------------------
(***************************************************************************)
(* For every set of cards and blocks: a reader whose card stayed in gets   *)
(* the block it asked for, and the first mount that nothing disturbs finds *)
(* the file system of the card, if its partition is active.  What the      *)
(* first needs of the driver is that the cache never calls a block         *)
(* anything but block 0, and that a transfer under way is one of the card  *)
(* that was initialised, or of a card that has been pulled since; what the *)
(* second needs is how far the mount has come with every block it reads.   *)
(***************************************************************************)
EXTENDS Storage, FiniteSetTheorems, TLAPS

\* The read under way has the form it must have, and was asked for by a handler.
JobOK ==
  /\ job \in [for : Jobs, step : {"power", "ask", "command", "data"}, want : Blocks]
  /\ job.step # "ask" => job.for # "none"

\* Between the command and the end of the transfer the card was there, or has left.
TransferOK == job.step = "data" => ready \/ pulled

\* Whatever the cache holds, it is called block 0 (sd.c:374).
CacheOK == \E bytes : cache \in [valid : BOOLEAN, addr : {0}, block : {bytes}]

FreshInv == JobOK /\ TransferOK /\ CacheOK /\ FreshBlocks

\* The mount will look at a block.
OffsetOK == offset \in Blocks

\* The handler that has begun goes on to another read, or ends: in both cases no
\* transfer is under way (main.c:114-122).
LEMMA MountEndsJob ==
  ASSUME NEW fs, MountEnds(fs)
  PROVE  job' = Idle
BY DEF MountEnds

LEMMA IdleOK == Idle \in [for : Jobs, step : {"ask"}, want : Blocks]
BY StorageAssumption DEF Idle, Jobs

\* Where the partition record makes the mount look is a block.
LEMMA OffsetsInBlocks ==
  ASSUME OffsetOK, NEW bytes
  PROVE  OffsetsAfter(bytes) \subseteq Blocks
BY StorageAssumption DEF OffsetsAfter, OffsetOK

LEMMA AskingOK ==
  ASSUME NEW for \in Jobs, NEW b \in Blocks
  PROVE  Asking(for, b) \in [for : Jobs, step : {"ask"}, want : Blocks]
BY DEF Asking

LEMMA MbrReadJob ==
  ASSUME OffsetOK, NEW bytes, MbrRead(bytes)
  PROVE  job' \in [for : Jobs, step : {"ask"}, want : Blocks]
<1> DEFINE table == FatClose(fss, fatfs)
<1>1. CASE FreeFss(table) = {}
  <2>1. MountEnds(None)
    BY <1>1 DEF MbrRead
  <2>2. QED
    BY <2>1, MountEndsJob, IdleOK
<1>2. CASE FreeFss(table) # {}
  <2>1. job' = Asking("header", offset') /\ offset' \in OffsetsAfter(bytes)
    BY <1>2 DEF MbrRead
  <2>2. offset' \in Blocks /\ "header" \in Jobs
    BY <2>1, OffsetsInBlocks DEF Jobs
  <2>3. QED
    BY <2>1, <2>2, AskingOK
<1>3. QED
  BY <1>1, <1>2

LEMMA HeaderReadJob ==
  ASSUME NEW bytes, HeaderRead(bytes)
  PROVE  job' \in [for : Jobs, step : {"ask"}, want : Blocks]
<1>1. PICK ok \in Accepted(bytes) : MountEnds(IF ok THEN fatfs ELSE None)
  BY DEF HeaderRead
<1>2. QED
  BY <1>1, MountEndsJob, IdleOK

\* A job that asks satisfies the two invariants of jobs.
LEMMA AskingIsOK ==
  ASSUME job' \in [for : Jobs, step : {"ask"}, want : Blocks]
  PROVE  JobOK' /\ TransferOK'
BY DEF JobOK, TransferOK

\* What a read has delivered is remembered in served, and the next read asked for.
LEMMA DeliverOK ==
  ASSUME JobOK, OffsetOK, job.for # "none", NEW bytes, Deliver(bytes),
         job.want # 0 /\ ~pulled => bytes = <<slot, job.want>>
  PROVE  JobOK' /\ TransferOK' /\ FreshBlocks'
<1>1. job' \in [for : Jobs, step : {"ask"}, want : Blocks]
  <2>1. job.for \in {"init", "mbr", "header", "file"}
    BY DEF JobOK, Jobs
  <2>2. CASE job.for = "init"
    <3>1. job' = Asking("mbr", 0)
      BY <2>2 DEF Deliver
    <3>2. "mbr" \in Jobs /\ 0 \in Blocks
      BY StorageAssumption DEF Jobs
    <3>3. QED
      BY <3>1, <3>2, AskingOK
  <2>3. CASE job.for = "mbr"
    <3>1. MbrRead(bytes)
      BY <2>3 DEF Deliver
    <3>2. QED
      BY <3>1, MbrReadJob
  <2>4. CASE job.for = "header"
    <3>1. HeaderRead(bytes)
      BY <2>4 DEF Deliver
    <3>2. QED
      BY <3>1, HeaderReadJob
  <2>5. CASE job.for = "file"
    <3>1. job' = Idle
      BY <2>5 DEF Deliver
    <3>2. QED
      BY <3>1, IdleOK
  <2>6. QED
    BY <2>1, <2>2, <2>3, <2>4, <2>5
<1>2. JobOK' /\ TransferOK'
  BY <1>1, AskingIsOK
<1>3. served' = [asked |-> job.want, got |-> bytes, card |-> IF pulled THEN NoCard ELSE slot]
  BY DEF Deliver
<1>4. FreshBlocks'
  BY <1>3 DEF FreshBlocks
<1>5. QED
  BY <1>2, <1>4

\* A read that failed leaves what was served before, and is asked for again or given up.
LEMMA FailOK ==
  ASSUME JobOK, OffsetOK, job.for # "none", FreshBlocks, Fail
  PROVE  JobOK' /\ TransferOK' /\ FreshBlocks'
<1>1. job' \in [for : Jobs, step : {"ask"}, want : Blocks] /\ served' = served
  <2>1. job.for \in {"init", "mbr", "header", "file"}
    BY DEF JobOK, Jobs
  <2>2. CASE job.for = "init"
    <3>1. job' = Idle /\ served' = served
      BY <2>2 DEF Fail
    <3>2. QED
      BY <3>1, IdleOK
  <2>3. CASE job.for = "mbr"
    <3>1. MbrRead(Noise) /\ served' = served
      BY <2>3 DEF Fail
    <3>2. QED
      BY <3>1, MbrReadJob
  <2>4. CASE job.for = "header"
    <3>1. HeaderRead(Noise) /\ served' = served
      BY <2>4 DEF Fail
    <3>2. QED
      BY <3>1, HeaderReadJob
  <2>5. CASE job.for = "file"
    <3>1. job' \in {Idle, [job EXCEPT !.step = "ask"]} /\ served' = served
      BY <2>5 DEF Fail
    <3>2. [job EXCEPT !.step = "ask"] \in [for : Jobs, step : {"ask"}, want : Blocks]
      BY DEF JobOK
    <3>3. QED
      BY <3>1, <3>2, IdleOK
  <2>6. QED
    BY <2>1, <2>2, <2>3, <2>4, <2>5
<1>2. JobOK' /\ TransferOK'
  BY <1>1, AskingIsOK
<1>3. QED
  BY <1>1, <1>2 DEF FreshBlocks

\* Only a mount moves the offset, and to a block.
LEMMA OffsetStep ==
  ASSUME FreshInv, OffsetOK, [Next]_vars
  PROVE  OffsetOK'
<1> USE DEF OffsetOK
<1>0. JobOK
  BY DEF FreshInv
<1>1. ASSUME NEW bytes, MbrRead(bytes) PROVE offset' \in Blocks
  <2>1. offset' \in OffsetsAfter(bytes)
    BY <1>1 DEF MbrRead
  <2>2. QED
    BY <2>1, OffsetsInBlocks
<1>2. ASSUME NEW bytes, HeaderRead(bytes) PROVE offset' = offset
  BY <1>2 DEF HeaderRead
<1>3. job.for # "none" => job.for \in {"init", "mbr", "header", "file"}
  BY <1>0 DEF JobOK, Jobs
<1>4. ASSUME NEW bytes, Deliver(bytes), job.for # "none" PROVE offset' \in Blocks
  <2>1. CASE job.for \in {"init", "file"}
    BY <1>4, <2>1 DEF Deliver, mount
  <2>2. CASE job.for = "mbr"
    BY <1>1, <1>4, <2>2 DEF Deliver
  <2>3. CASE job.for = "header"
    BY <1>2, <1>4, <2>3 DEF Deliver
  <2>4. QED
    BY <1>3, <1>4, <2>1, <2>2, <2>3
<1>5. ASSUME Fail, job.for # "none" PROVE offset' \in Blocks
  <2>1. CASE job.for \in {"init", "file"}
    BY <1>5, <2>1 DEF Fail, mount
  <2>2. CASE job.for = "mbr"
    BY <1>1, <1>5, <2>2 DEF Fail
  <2>3. CASE job.for = "header"
    BY <1>2, <1>5, <2>3 DEF Fail
  <2>4. QED
    BY <1>3, <1>5, <2>1, <2>2, <2>3
<1>8. CASE Hit \/ Transferred
  <2>1. /\ job.for # "none"
        /\ Deliver(cache.block) \/ Deliver(IF ready THEN <<slot, job.want>> ELSE Noise)
    BY <1>0, <1>8 DEF Hit, Transferred, JobOK
  <2>2. QED
    BY <1>4, <2>1
<1>9. CASE NotInserted \/ ReadFails
  <2>1. job.for # "none" /\ Fail
    BY <1>0, <1>9 DEF NotInserted, ReadFails, JobOK
  <2>2. QED
    BY <1>5, <2>1
<1>6. CASE CardAnswers \/ CardSilent \/ Miss \/ Commanded \/ SdInterrupt \/ Pull
  BY <1>6 DEF CardAnswers, CardSilent, Miss, Commanded, SdInterrupt, Pull, mount
<1>7. CASE (\E c \in Cards : Insert(c)) \/ (\E b \in Blocks : FileRead(b)) \/ UNCHANGED vars
  BY <1>7 DEF Insert, FileRead, vars, mount
<1>10. QED
  BY <1>6, <1>7, <1>8, <1>9 DEF Next, Handler

LEMMA FreshInit ==
  ASSUME Init
  PROVE  FreshInv
<1>1. JobOK /\ TransferOK
  <2>1. job = Idle
    BY DEF Init
  <2>2. QED
    BY <2>1, IdleOK DEF JobOK, TransferOK
<1>2. CacheOK
  BY DEF Init, CacheOK
<1>3. FreshBlocks
  BY DEF Init, FreshBlocks
<1>4. QED
  BY <1>1, <1>2, <1>3 DEF FreshInv

\* A step that leaves the job, the cache and what was served alone can only pull the
\* card, and then remembers it.
LEMMA JobUntouched ==
  ASSUME FreshInv, UNCHANGED <<job, cache, served>>,
         ready \/ pulled => ready' \/ pulled'
  PROVE  FreshInv'
<1>1. JobOK'
  BY DEF FreshInv, JobOK
<1>2. TransferOK'
  BY Zenon DEF FreshInv, TransferOK
<1>3. CacheOK'
  BY DEF FreshInv, CacheOK
<1>4. FreshBlocks'
  BY DEF FreshInv, FreshBlocks
<1>5. QED
  BY <1>1, <1>2, <1>3, <1>4 DEF FreshInv

\* A step to a job that transfers nothing leaves the invariant standing.
LEMMA JobMoves ==
  ASSUME FreshInv, UNCHANGED <<cache, served>>,
         job' \in [for : Jobs, step : {"power", "ask", "command"}, want : Blocks],
         job'.step # "ask" => job'.for # "none"
  PROVE  FreshInv'
<1>1. JobOK'
  BY DEF JobOK
<1>2. TransferOK'
  BY DEF TransferOK
<1>3. CacheOK'
  BY DEF FreshInv, CacheOK
<1>4. FreshBlocks'
  BY DEF FreshInv, FreshBlocks
<1>5. QED
  BY <1>1, <1>2, <1>3, <1>4 DEF FreshInv

LEMMA FreshStep ==
  ASSUME FreshInv, OffsetOK, [Next]_vars
  PROVE  FreshInv'
<1>0. JobOK /\ TransferOK /\ CacheOK /\ FreshBlocks
  BY DEF FreshInv
<1>1. ASSUME NEW c \in Cards, Insert(c) PROVE FreshInv'
  <2>1. UNCHANGED <<job, cache, served>> /\ ready' = ready /\ pulled' = pulled
    BY <1>1 DEF Insert
  <2>2. ready \/ pulled => ready' \/ pulled'
    BY <2>1, Zenon
  <2>3. QED
    BY <2>1, <2>2, JobUntouched
<1>2. CASE Pull
  <2>1. UNCHANGED <<job, cache, served>> /\ pulled' = TRUE
    BY <1>2 DEF Pull, mount
  <2>2. ready \/ pulled => ready' \/ pulled'
    BY <2>1, Zenon
  <2>3. QED
    BY <2>1, <2>2, JobUntouched
<1>3. CASE SdInterrupt
  <2>1. /\ UNCHANGED <<cache, served>>
        /\ job' = IF slot = NoCard THEN Idle
                  ELSE [Idle EXCEPT !.for = "init", !.step = "power"]
    BY <1>3 DEF SdInterrupt
  <2>2. Idle \in [for : Jobs, step : {"ask"}, want : Blocks] /\ "init" \in Jobs
    BY IdleOK DEF Jobs
  <2>3. /\ job' \in [for : Jobs, step : {"power", "ask", "command"}, want : Blocks]
        /\ job'.step # "ask" => job'.for # "none"
    BY <2>1, <2>2
  <2>4. QED
    BY <2>1, <2>3, JobMoves
<1>4. CASE CardAnswers
  <2>1. UNCHANGED <<cache, served>> /\ job' = Asking("init", 0)
    BY <1>4 DEF CardAnswers
  <2>2. "init" \in Jobs /\ 0 \in Blocks
    BY StorageAssumption DEF Jobs
  <2>3. job' \in [for : Jobs, step : {"ask"}, want : Blocks]
    BY <2>1, <2>2, AskingOK
  <2>4. QED
    BY <2>1, <2>3, JobMoves
<1>5. CASE CardSilent
  <2>1. UNCHANGED <<cache, served>> /\ job' = Idle
    BY <1>5 DEF CardSilent
  <2>2. QED
    BY <2>1, IdleOK, JobMoves
<1>6. CASE NotInserted
  <2>1. job.for # "none" /\ Fail /\ cache' = cache
    BY <1>6 DEF NotInserted
  <2>2. JobOK' /\ TransferOK' /\ FreshBlocks'
    BY <1>0, <2>1, FailOK
  <2>3. QED
    BY <1>0, <2>1, <2>2 DEF FreshInv, CacheOK
\* The cache can only be hit for block 0, of which nothing is promised.
<1>7. CASE Hit
  <2>1. job.for # "none" /\ Deliver(cache.block) /\ cache' = cache
    BY <1>7 DEF Hit
  <2>2. job.want = 0
    BY <1>0, <1>7 DEF Hit, Cached, CacheOK
  <2>3. JobOK' /\ TransferOK' /\ FreshBlocks'
    BY <1>0, <2>1, <2>2, DeliverOK
  <2>4. QED
    BY <1>0, <2>1, <2>3 DEF FreshInv, CacheOK
<1>8. CASE Miss
  <2>1. /\ UNCHANGED <<cache, served>> /\ job.for # "none"
        /\ job' = [job EXCEPT !.step = "command"]
    BY <1>8 DEF Miss
  <2>2. /\ job' \in [for : Jobs, step : {"power", "ask", "command"}, want : Blocks]
        /\ job'.for # "none"
    BY <1>0, <2>1 DEF JobOK
  <2>3. QED
    BY <2>1, <2>2, JobMoves
<1>9. CASE Commanded
  <2>1. /\ UNCHANGED <<cache, served>> /\ job.for # "none"
        /\ job' = [job EXCEPT !.step = "data"]
    BY <1>0, <1>9 DEF Commanded, JobOK
  <2>2. JobOK'
    BY <1>0, <2>1 DEF JobOK
  <2>3. ready' \/ pulled'
    BY <1>9, Zenon DEF Commanded, card
  <2>4. TransferOK'
    BY <2>3, Zenon DEF TransferOK
  <2>5. CacheOK' /\ FreshBlocks'
    BY <1>0, <2>1 DEF CacheOK, FreshBlocks
  <2>6. QED
    BY <2>2, <2>4, <2>5 DEF FreshInv
<1>10. CASE ReadFails
  <2>1. Fail /\ cache' = [cache EXCEPT !.valid = FALSE]
    BY <1>10 DEF ReadFails
  <2>2. job.for # "none"
    BY <1>0, <1>10 DEF ReadFails, JobOK
  <2>3. JobOK' /\ TransferOK' /\ FreshBlocks'
    BY <1>0, <2>1, <2>2, FailOK
  <2>4. CacheOK'
    <3>1. PICK bytes : cache \in [valid : BOOLEAN, addr : {0}, block : {bytes}]
      BY <1>0 DEF CacheOK
    <3>2. cache' \in [valid : BOOLEAN, addr : {0}, block : {bytes}]
      BY <2>1, <3>1
    <3>3. QED
      BY <3>2 DEF CacheOK
  <2>5. QED
    BY <2>3, <2>4 DEF FreshInv
\* Either the card was there to the end, or somebody has pulled it.
<1>11. CASE Transferred
  <2> DEFINE bytes == IF ready THEN <<slot, job.want>> ELSE Noise
  <2>1. job.step = "data" /\ cache' = CacheAfter(bytes) /\ Deliver(bytes)
    BY <1>11 DEF Transferred
  <2>2. job.for # "none"
    BY <1>0, <2>1 DEF JobOK
  <2>3. ready \/ pulled
    BY <1>0, <2>1, Zenon DEF TransferOK
  <2>4. job.want # 0 /\ ~pulled => bytes = <<slot, job.want>>
    BY <2>3, Zenon
  <2>5. CacheOK'
    BY <2>1 DEF CacheAfter, CacheOK
  <2> HIDE DEF bytes
  <2>6. JobOK' /\ TransferOK' /\ FreshBlocks'
    BY <1>0, <2>1, <2>2, <2>4, DeliverOK
  <2>7. QED
    BY <2>5, <2>6 DEF FreshInv
<1>12. ASSUME NEW b \in Blocks, FileRead(b) PROVE FreshInv'
  <2>1. UNCHANGED <<cache, served>> /\ job' = Asking("file", b)
    BY <1>12 DEF FileRead
  <2>2. "file" \in Jobs
    BY DEF Jobs
  <2>3. job' \in [for : Jobs, step : {"ask"}, want : Blocks]
    BY <2>1, <2>2, AskingOK
  <2>4. QED
    BY <2>1, <2>3, JobMoves
<1>13. CASE UNCHANGED vars
  <2>1. UNCHANGED <<job, cache, served>> /\ ready' = ready /\ pulled' = pulled
    BY <1>13 DEF vars, card
  <2>2. ready \/ pulled => ready' \/ pulled'
    BY <2>1, Zenon
  <2>3. QED
    BY <2>1, <2>2, JobUntouched
<1>14. QED
  BY <1>1, <1>2, <1>3, <1>4, <1>5, <1>6, <1>7, <1>8, <1>9, <1>10, <1>11, <1>12, <1>13
     DEF Next, Handler

\* For every set of cards, every number of blocks, and however cards are pulled, put
\* in and made to fail: a reader whose card stayed in gets the block it asked for
\* (sd_read_block and the single block of the cache, sd.c:363-382).
THEOREM FreshCorrect == Spec => []FreshBlocks
<1>1. Init => FreshInv /\ OffsetOK
  BY FreshInit, StorageAssumption DEF Init, OffsetOK
<1>2. FreshInv /\ OffsetOK /\ [Next]_vars => FreshInv' /\ OffsetOK'
  BY FreshStep, OffsetStep
<1>3. FreshInv => FreshBlocks
  BY DEF FreshInv
<1>4. QED
  BY <1>1, <1>2, <1>3, PTL DEF Spec

-----------------------------------------------------------------------------
(* The tables keep their types.                                            *)

CardTyped ==
  /\ slot \in Cards \union {NoCard} /\ edge \in BOOLEAN
  /\ ready \in BOOLEAN /\ (ready => slot # NoCard)
ReadTyped ==
  /\ cache \in [valid : BOOLEAN, addr : Blocks, block : Bytes]
  /\ pulled \in BOOLEAN /\ calm \in BOOLEAN
  /\ served \in [asked : Blocks, got : Bytes, card : Cards \union {NoCard}]
MountTyped ==
  /\ offset \in Blocks
  /\ fss \in [Fss -> [used : BOOLEAN, header : Bytes]]
  /\ fatfs \in Fss \union {None} /\ (fatfs # None => fss[fatfs].used)
  /\ entries \subseteq Entries
  /\ tftpd \in [bound : BOOLEAN, socket : {0, None}, wd : entries \union {None}]
  /\ mounts \in 0 .. 2

LEMMA TypeParts == JobOK => (TypeOK <=> CardTyped /\ ReadTyped /\ MountTyped)
BY DEF JobOK, TypeOK, CardTyped, ReadTyped, MountTyped

\* A scan of a table finds the first slot that fits: of the sets of smaller slots
\* that fit, one is minimal.
LEMMA LowestFound ==
  ASSUME NEW S \in SUBSET Int, IsFiniteSet(S), S # {}
  PROVE  Lowest(S) \in S
<1> DEFINE Below(n) == {m \in S : m < n}
           Belows == {Below(n) : n \in S}
<1>1. Belows \subseteq FiniteSubsetsOf(S) /\ Belows # {}
  <2>1. \A n \in S : Below(n) \in FiniteSubsetsOf(S)
    BY FS_Subset DEF FiniteSubsetsOf
  <2>2. QED
    BY <2>1
<1>2. PICK B \in Belows : \A C \in Belows : <<C, B>> \notin StrictSubsetOrdering(S)
  <2> HIDE DEF Belows
  <2>1. QED
    BY <1>1, FS_StrictSubsetOrderingWellFounded, WFMin
<1>3. PICK n \in S : B = Below(n)
  OBVIOUS
<1>4. ASSUME NEW m \in S, m < n PROVE FALSE
  <2>1. m \in Int /\ n \in Int /\ ~(m < m) /\ \A k \in S : k < m => k < n
    BY <1>4
  <2>2. Below(m) \subseteq B /\ m \in B /\ m \notin Below(m) /\ B \subseteq S
    BY <1>3, <1>4, <2>1, Zenon
  <2>3. <<Below(m), B>> \in StrictSubsetOrdering(S)
    BY <2>2 DEF StrictSubsetOrdering
  <2>4. QED
    BY <1>2, <2>3
<1>5. \A m \in S : n <= m
  BY <1>4
<1>6. QED
  BY <1>5 DEF Lowest

LEMMA LowestSlot ==
  ASSUME NEW n \in Nat, NEW S \in SUBSET (0 .. n - 1), S # {}
  PROVE  Lowest(S) \in S
<1>1. IsFiniteSet(0 .. n - 1) /\ 0 .. n - 1 \in SUBSET Int
  BY FS_Interval
<1>2. IsFiniteSet(S) /\ S \in SUBSET Int
  BY <1>1, FS_Subset
<1>3. QED
  BY <1>2, LowestFound

LEMMA MountEndsTyped ==
  ASSUME MountTyped, NEW fs \in Fss \union {None}, MountEnds(fs)
  PROVE  /\ fatfs' = fs /\ entries' \subseteq Entries
         /\ tftpd' \in [bound : BOOLEAN, socket : {0, None}, wd : entries' \union {None}]
<1> DEFINE free == Entries \ entries
           root == IF fs = None \/ free = {} THEN None ELSE Lowest(free)
<1>1. root # None => root \in Entries
  <2>1. FAT_MAX_DIRENT \in Nat /\ free \in SUBSET (0 .. FAT_MAX_DIRENT - 1)
    BY StorageAssumption DEF Entries
  <2>2. free # {} => Lowest(free) \in free
    BY <2>1, LowestSlot
  <2>3. QED
    BY <2>2
<1>2. /\ fatfs' = fs
      /\ entries' = IF root = None THEN entries ELSE entries \union {root}
      /\ tftpd' = IF tftpd.bound THEN [tftpd EXCEPT !.socket = None]
                  ELSE [bound |-> TRUE, socket |-> 0, wd |-> root]
  BY Zenon DEF MountEnds
<1> HIDE DEF root
<1>3. entries' \subseteq Entries
  BY <1>1, <1>2 DEF MountTyped
<1>4. root \in entries' \union {None} /\ entries \subseteq entries'
  BY <1>2
<1>5. tftpd \in [bound : BOOLEAN, socket : {0, None}, wd : entries' \union {None}]
  BY <1>4 DEF MountTyped
<1>6. tftpd' \in [bound : BOOLEAN, socket : {0, None}, wd : entries' \union {None}]
  BY <1>2, <1>4, <1>5
<1>7. QED
  BY <1>2, <1>3, <1>6

LEMMA FssFound ==
  ASSUME NEW table, FreeFss(table) # {}
  PROVE  Lowest(FreeFss(table)) \in FreeFss(table) /\ Lowest(FreeFss(table)) \in Fss
<1>1. /\ FAT_MAX_FS \in Nat /\ FreeFss(table) \in SUBSET (0 .. FAT_MAX_FS - 1)
      /\ FreeFss(table) \subseteq Fss
  BY StorageAssumption DEF FreeFss, Fss
<1>2. QED
  BY <1>1, LowestSlot

LEMMA MbrReadTyped ==
  ASSUME MountTyped, NEW bytes \in Bytes, MbrRead(bytes)
  PROVE  MountTyped'
<1> DEFINE table == FatClose(fss, fatfs)
<1>1. table \in [Fss -> [used : BOOLEAN, header : Bytes]]
  BY DEF FatClose, MountTyped
<1>2. mounts' \in 0 .. 2 /\ offset' \in Blocks
  <2>1. OffsetsAfter(bytes) \subseteq Blocks
    BY OffsetsInBlocks DEF MountTyped, OffsetOK
  <2>2. QED
    BY <2>1 DEF MbrRead
<1>3. CASE FreeFss(table) = {}
  <2>1. fss' = table /\ MountEnds(None)
    BY <1>3 DEF MbrRead
  <2>2. /\ fatfs' = None /\ entries' \subseteq Entries
        /\ tftpd' \in [bound : BOOLEAN, socket : {0, None}, wd : entries' \union {None}]
    BY <2>1, MountEndsTyped
  <2>3. QED
    BY <1>1, <1>2, <2>1, <2>2 DEF MountTyped
<1>4. CASE FreeFss(table) # {}
  <2>1. PICK f \in Fss : f = Lowest(FreeFss(table))
    BY <1>4, FssFound
  <2>2. /\ fss' = [table EXCEPT ![f].used = TRUE] /\ fatfs' = f
        /\ UNCHANGED <<entries, tftpd>>
    BY <1>4, <2>1, Zenon DEF MbrRead
  <2> HIDE DEF table
  <2>3. fss' \in [Fss -> [used : BOOLEAN, header : Bytes]] /\ fss'[f].used
    BY <1>1, <2>2
  <2>4. QED
    BY <1>2, <2>2, <2>3 DEF MountTyped
<1>5. QED
  BY <1>3, <1>4

LEMMA HeaderReadTyped ==
  ASSUME MountTyped, NEW bytes \in Bytes, HeaderRead(bytes)
  PROVE  MountTyped'
<1>1. PICK ok \in Accepted(bytes) :
        /\ fss' = IF ok THEN [fss EXCEPT ![fatfs].header = bytes] ELSE fss
        /\ MountEnds(IF ok THEN fatfs ELSE None)
  BY DEF HeaderRead
<1>2. UNCHANGED <<offset, mounts>>
  BY DEF HeaderRead
<1> DEFINE fs == IF ok THEN fatfs ELSE None
<1>3. fs \in Fss \union {None}
  BY DEF MountTyped
<1>4. /\ fatfs' = fs /\ entries' \subseteq Entries
      /\ tftpd' \in [bound : BOOLEAN, socket : {0, None}, wd : entries' \union {None}]
  BY <1>1, <1>3, MountEndsTyped
<1>5. /\ fss' \in [Fss -> [used : BOOLEAN, header : Bytes]]
      /\ \A f \in Fss : fss'[f].used = fss[f].used
  BY <1>1 DEF MountTyped
<1>6. fatfs' # None => fss'[fatfs'].used
  BY <1>4, <1>5 DEF MountTyped
<1>7. QED
  BY <1>2, <1>3, <1>4, <1>5, <1>6 DEF MountTyped

\* A read delivers to whoever has asked for it, or fails.
LEMMA DeliverTyped ==
  ASSUME JobOK, TypeOK, job.for # "none", NEW bytes \in Bytes, Deliver(bytes)
  PROVE  /\ MountTyped' /\ pulled' \in BOOLEAN
         /\ served' \in [asked : Blocks, got : Bytes, card : Cards \union {NoCard}]
<1>1. MountTyped /\ CardTyped
  BY TypeParts
<1>2. /\ served' = [asked |-> job.want, got |-> bytes, card |-> IF pulled THEN NoCard ELSE slot]
      /\ pulled' = FALSE
  BY DEF Deliver
<1>3. served' \in [asked : Blocks, got : Bytes, card : Cards \union {NoCard}]
  BY <1>1, <1>2 DEF JobOK, CardTyped
<1>4. CASE job.for \in {"init", "file"}
  <2>1. UNCHANGED mount
    BY <1>4 DEF Deliver
  <2>2. QED
    BY <1>1, <1>2, <1>3, <2>1 DEF mount, MountTyped
<1>5. CASE job.for = "mbr"
  BY <1>1, <1>2, <1>3, <1>5, MbrReadTyped DEF Deliver
<1>6. CASE job.for = "header"
  BY <1>1, <1>2, <1>3, <1>6, HeaderReadTyped DEF Deliver
<1>7. job.for \in {"init", "mbr", "header", "file"}
  BY DEF JobOK, Jobs
<1>8. QED
  BY <1>4, <1>5, <1>6, <1>7

LEMMA FailTyped ==
  ASSUME JobOK, TypeOK, job.for # "none", Fail
  PROVE  MountTyped' /\ pulled' \in BOOLEAN /\ calm' \in BOOLEAN /\ served' = served
<1>1. MountTyped /\ pulled \in BOOLEAN /\ Noise \in Bytes
  BY TypeParts DEF TypeOK, Bytes
<1>2. calm' = FALSE
  BY DEF Fail
<1>3. CASE job.for \in {"init", "file"}
  <2>1. UNCHANGED <<mount, pulled, served>>
    BY <1>3 DEF Fail
  <2>2. QED
    BY <1>1, <1>2, <2>1 DEF mount, MountTyped
<1>4. CASE job.for = "mbr"
  <2>1. MbrRead(Noise) /\ pulled' = FALSE /\ served' = served
    BY <1>4 DEF Fail
  <2>2. QED
    BY <1>1, <1>2, <2>1, MbrReadTyped
<1>5. CASE job.for = "header"
  <2>1. HeaderRead(Noise) /\ pulled' = pulled /\ served' = served
    BY <1>5 DEF Fail
  <2>2. QED
    BY <1>1, <1>2, <2>1, HeaderReadTyped
<1>6. job.for \in {"init", "mbr", "header", "file"}
  BY DEF JobOK, Jobs
<1>7. QED
  BY <1>3, <1>4, <1>5, <1>6

LEMMA TypeInit == Init => TypeOK
<1> SUFFICES ASSUME Init PROVE TypeOK
  OBVIOUS
<1>1. CardTyped
  BY StorageAssumption DEF Init, CardTyped
<1>2. ReadTyped
  BY StorageAssumption DEF Init, ReadTyped, Bytes
<1>3. MountTyped
  BY StorageAssumption DEF Init, MountTyped, Bytes
<1>4. JobOK
  BY FreshInit DEF FreshInv
<1>5. QED
  BY <1>1, <1>2, <1>3, <1>4, TypeParts

LEMMA TypeStep ==
  ASSUME FreshInv, TypeOK, [Next]_vars
  PROVE  TypeOK'
<1>1. JobOK /\ JobOK' /\ CardTyped /\ ReadTyped /\ MountTyped
  <2>1. JobOK /\ FreshInv'
    BY FreshStep DEF FreshInv, TypeOK, OffsetOK
  <2>2. QED
    BY <2>1, TypeParts DEF FreshInv
<1> SUFFICES CardTyped' /\ ReadTyped' /\ MountTyped'
  <2>1. TypeOK' <=> CardTyped' /\ ReadTyped' /\ MountTyped'
    BY <1>1 DEF JobOK, TypeOK, CardTyped, ReadTyped, MountTyped
  <2>2. QED
    BY <2>1
<1>2. UNCHANGED card => CardTyped'
  BY <1>1 DEF card, CardTyped
<1>3. UNCHANGED mount => MountTyped'
  BY <1>1 DEF mount, MountTyped
<1>4. ASSUME NEW c \in Cards, Insert(c) PROVE CardTyped' /\ ReadTyped' /\ MountTyped'
  <2>1. CardTyped' /\ ReadTyped'
    BY <1>1, <1>4, StorageAssumption DEF Insert, CardTyped, ReadTyped
  <2>2. QED
    BY <1>3, <1>4, <2>1 DEF Insert
<1>5. CASE Pull
  <2>1. CardTyped' /\ ReadTyped'
    BY <1>1, <1>5 DEF Pull, CardTyped, ReadTyped
  <2>2. QED
    BY <1>3, <1>5, <2>1 DEF Pull
<1>6. CASE SdInterrupt \/ CardAnswers \/ CardSilent \/ Miss \/ Commanded
           \/ (\E b \in Blocks : FileRead(b))
  <2>1. CardTyped'
    <3>1. CASE SdInterrupt
      BY <1>1, <3>1 DEF SdInterrupt, CardTyped
    <3>2. CASE CardAnswers
      BY <1>1, <3>2 DEF CardAnswers, CardTyped
    <3>3. CASE CardSilent \/ Miss \/ Commanded \/ (\E b \in Blocks : FileRead(b))
      BY <1>2, <3>3 DEF CardSilent, Miss, Commanded, FileRead
    <3>4. QED
      BY <1>6, <3>1, <3>2, <3>3
  <2>2. ReadTyped' /\ UNCHANGED mount
    BY <1>1, <1>6 DEF SdInterrupt, CardAnswers, CardSilent, Miss, Commanded, FileRead, ReadTyped
  <2>3. QED
    BY <1>3, <2>1, <2>2
<1>7. CASE NotInserted
  <2>1. Fail /\ job.for # "none" /\ UNCHANGED <<card, cache>>
    BY <1>7 DEF NotInserted
  <2>2. MountTyped' /\ pulled' \in BOOLEAN /\ calm' \in BOOLEAN /\ served' = served
    BY <1>1, <2>1, FailTyped
  <2>3. QED
    BY <1>1, <1>2, <2>1, <2>2 DEF ReadTyped
<1>8. CASE Hit
  <2>1. job.for # "none" /\ Deliver(cache.block) /\ UNCHANGED <<card, cache, calm>>
    BY <1>8 DEF Hit
  <2>2. cache.block \in Bytes
    BY <1>1 DEF ReadTyped
  <2>3. /\ MountTyped' /\ pulled' \in BOOLEAN
        /\ served' \in [asked : Blocks, got : Bytes, card : Cards \union {NoCard}]
    BY <1>1, <2>1, <2>2, DeliverTyped
  <2>4. QED
    BY <1>1, <1>2, <2>1, <2>3 DEF ReadTyped
<1>9. CASE ReadFails
  <2>1. Fail /\ cache' = [cache EXCEPT !.valid = FALSE] /\ UNCHANGED card
    BY <1>9 DEF ReadFails
  <2>2. job.for # "none"
    BY <1>1, <1>9 DEF ReadFails, JobOK
  <2>3. MountTyped' /\ pulled' \in BOOLEAN /\ calm' \in BOOLEAN /\ served' = served
    BY <1>1, <2>1, <2>2, FailTyped
  <2>4. QED
    BY <1>1, <1>2, <2>1, <2>3 DEF ReadTyped
<1>10. CASE Transferred
  <2>1. PICK bytes : /\ bytes = IF ready THEN <<slot, job.want>> ELSE Noise
                     /\ cache' = CacheAfter(bytes) /\ Deliver(bytes)
                     /\ UNCHANGED <<card, calm>> /\ job.step = "data"
    BY <1>10 DEF Transferred
  <2>2. bytes \in Bytes /\ job.for # "none"
    <3>1. ready => slot \in Cards
      BY <1>1 DEF CardTyped
    <3>2. QED
      BY <1>1, <2>1, <3>1 DEF JobOK, Bytes
  <2>3. /\ MountTyped' /\ pulled' \in BOOLEAN
        /\ served' \in [asked : Blocks, got : Bytes, card : Cards \union {NoCard}]
    BY <1>1, <2>1, <2>2, DeliverTyped
  <2>4. cache' \in [valid : BOOLEAN, addr : Blocks, block : Bytes]
    BY <2>1, <2>2, StorageAssumption DEF CacheAfter
  <2>5. QED
    BY <1>1, <1>2, <2>1, <2>3, <2>4 DEF ReadTyped
<1>11. CASE UNCHANGED vars
  <2>1. UNCHANGED <<card, mount, cache, pulled, served, calm>>
    BY <1>11 DEF vars
  <2>2. QED
    BY <1>1, <1>2, <1>3, <2>1 DEF ReadTyped
<1>12. QED
  BY <1>4, <1>5, <1>6, <1>7, <1>8, <1>9, <1>10, <1>11 DEF Next, Handler

\* Whatever is pulled out or fails in the middle of a mount, the entries of fat_fss
\* and of the directory table that main.c and the server point to are in use, and an
\* initialised card is in the slot.
THEOREM TypeCorrect == Spec => []TypeOK
<1>1. Init => FreshInv /\ TypeOK
  BY FreshInit, TypeInit
<1>2. FreshInv /\ TypeOK /\ [Next]_vars => FreshInv' /\ TypeOK'
  BY FreshStep, TypeStep DEF TypeOK, OffsetOK
<1>3. QED
  BY <1>1, <1>2, PTL DEF Spec

-----------------------------------------------------------------------------
(* The first mount, as long as no card was pulled and none failed.         *)

\* The block at which the first mount of a card looks.
FirstBlock(c) == IF c \in Active THEN Boot[c] ELSE 0

MountRight ==
  IF slot \in Active THEN fatfs # None /\ fss[fatfs].header = <<slot, Boot[slot]>>
  ELSE fatfs = None \/ fss[fatfs].header = <<slot, 0>>

\* Once it has answered, the card is there to be read.
CardThere ==
  /\ job.step = "power" => job.for = "init"
  /\ job.for # "none" => slot # NoCard
  /\ job.for # "none" /\ job.step # "power" => ready
  /\ mounts # 0 => ready

\* Until the mount nothing but block 0 is read, and the cache holds nothing else.
BeforeMount ==
  mounts = 0 =>
    /\ fatfs = None /\ offset = 0 /\ \A f \in Fss : ~fss[f].used
    /\ ~tftpd.bound
    /\ job.for \in {"none", "init", "mbr"} /\ job.want = 0
    /\ cache.valid => ready /\ cache.block = <<slot, 0>>

\* The mount is on its way to the block it will take for the boot sector, with nothing
\* but the MBR in the cache, or has read it.
FirstMount ==
  mounts = 1 =>
    IF job.for = "header"
    THEN /\ fatfs # None /\ job.want = FirstBlock(slot)
         /\ cache.valid => cache.block = <<slot, 0>>
    ELSE MountRight

CalmInv == CardThere /\ BeforeMount /\ FirstMount
MountInv == calm => CalmInv

\* partition_open has the MBR of the card that is in, and fat_open looks where it says.
LEMMA FirstMbr ==
  ASSUME TypeOK, CalmInv, mounts = 0, ready, MbrRead(<<slot, 0>>)
  PROVE  mounts' = 1 /\ fatfs' \in Fss /\ job' = Asking("header", FirstBlock(slot))
<1>1. slot \in Cards
  BY DEF TypeOK
<1>2. mounts' = 1 /\ offset' \in OffsetsAfter(<<slot, 0>>)
  BY DEF MbrRead
<1>3. offset' = FirstBlock(slot)
  <2>1. offset = 0
    BY DEF CalmInv, BeforeMount
  <2>2. OffsetsAfter(<<slot, 0>>) = {FirstBlock(slot)}
    BY <1>1, <2>1 DEF OffsetsAfter, FirstBlock
  <2>3. QED
    BY <1>2, <2>2
<1>4. FatClose(fss, fatfs) = fss
  BY DEF CalmInv, BeforeMount, FatClose
<1>5. FreeFss(fss) # {}
  <2>1. 0 \in Fss
    BY StorageAssumption DEF Fss
  <2>2. QED
    BY <2>1 DEF CalmInv, BeforeMount, FreeFss
<1>6. /\ fatfs' = Lowest(FreeFss(fss))
      /\ job' = Asking("header", offset')
  BY <1>4, <1>5, Zenon DEF MbrRead
<1>7. QED
  BY <1>2, <1>3, <1>5, <1>6, FssFound

\* What a read delivers is what the reader needs.
LEMMA CalmDeliver ==
  ASSUME TypeOK, JobOK, CalmInv, ready, job.for # "none", NEW bytes, Deliver(bytes),
         UNCHANGED card,
         mounts = 0 => bytes = <<slot, 0>> /\ (cache'.valid => cache'.block = <<slot, 0>>),
         mounts = 1 /\ job.for = "header" => bytes = <<slot, FirstBlock(slot)>>
  PROVE  CalmInv'
<1>0. ready' /\ slot' = slot /\ slot \in Cards /\ slot # NoCard
  BY StorageAssumption DEF card, TypeOK
<1>1. CASE job.for = "init"
  <2>1. job' = Asking("mbr", 0) /\ UNCHANGED mount
    BY <1>1 DEF Deliver
  <2>2. job'.for = "mbr" /\ job'.step = "ask" /\ job'.want = 0
    BY <2>1 DEF Asking
  <2>3. QED
    BY <1>0, <1>1, <2>1, <2>2 DEF mount, CalmInv, CardThere, BeforeMount, FirstMount, MountRight
<1>2. CASE job.for = "mbr"
  <2>1. MbrRead(bytes)
    BY <1>2 DEF Deliver
  <2>2. job'.step = "ask"
    BY <2>1, MbrReadJob DEF TypeOK, OffsetOK
  <2>3. CardThere'
    BY <1>0, <2>2, Zenon DEF CardThere
  <2>4. CASE mounts = 0
    <3>1. mounts' = 1 /\ fatfs' \in Fss /\ job' = Asking("header", FirstBlock(slot))
      BY <2>1, <2>4, FirstMbr
    <3>2. job'.for = "header" /\ job'.want = FirstBlock(slot) /\ fatfs' # None
      BY <3>1, StorageAssumption DEF Asking, Fss, None
    <3>3. QED
      BY <1>0, <2>3, <2>4, <3>1, <3>2 DEF CalmInv, BeforeMount, FirstMount, FirstBlock
  <2>5. CASE mounts # 0
    <3>1. mounts' = 2
      BY <2>1, <2>5 DEF MbrRead
    <3>2. QED
      BY <2>3, <3>1 DEF CalmInv, BeforeMount, FirstMount
  <2>6. QED
    BY <2>4, <2>5
<1>3. CASE job.for = "header"
  <2>1. HeaderRead(bytes) /\ mounts # 0
    BY <1>3 DEF Deliver, CalmInv, BeforeMount
  <2>2. PICK ok \in Accepted(bytes) :
          /\ fss' = IF ok THEN [fss EXCEPT ![fatfs].header = bytes] ELSE fss
          /\ MountEnds(IF ok THEN fatfs ELSE None)
    BY <2>1 DEF HeaderRead
  <2>3. job' = Idle /\ mounts' = mounts /\ fatfs' = IF ok THEN fatfs ELSE None
    BY <2>1, <2>2 DEF HeaderRead, MountEnds
  <2>4. CardThere' /\ BeforeMount'
    BY <1>0, <2>1, <2>3 DEF CardThere, BeforeMount, Idle
  <2>5. CASE mounts = 1
    <3>1. bytes = <<slot, FirstBlock(slot)>> /\ fatfs \in Fss /\ fatfs # None
      BY <1>3, <2>5 DEF CalmInv, FirstMount, TypeOK
    <3>2. ASSUME ok PROVE MountRight'
      <4>1. fss' = [fss EXCEPT ![fatfs].header = bytes] /\ fatfs' = fatfs
        BY <2>2, <2>3, <3>2
      <4>2. fss'[fatfs].header = bytes
        BY <3>1, <4>1 DEF TypeOK
      <4>3. fatfs' # None /\ fss'[fatfs'].header = <<slot', FirstBlock(slot)>>
        BY <1>0, <3>1, <4>1, <4>2
      <4>4. QED
        BY <1>0, <4>1, <4>3 DEF MountRight, FirstBlock
    <3>3. ASSUME ~ok PROVE MountRight'
      <4>1. slot \notin Active
        BY <1>0, <2>2, <3>1, <3>3 DEF Accepted, FirstBlock
      <4>2. fatfs' = None
        BY <2>3, <3>3
      <4>3. QED
        BY <1>0, <4>1, <4>2 DEF MountRight
    <3>4. MountRight'
      BY <3>2, <3>3
    <3>5. QED
      BY <2>3, <2>4, <3>4 DEF CalmInv, FirstMount, Idle
  <2>6. CASE mounts # 1
    BY <2>3, <2>4, <2>6 DEF CalmInv, FirstMount
  <2>7. QED
    BY <2>5, <2>6
<1>4. CASE job.for = "file"
  <2>1. job' = Idle /\ UNCHANGED mount /\ mounts # 0
    BY <1>4 DEF Deliver, CalmInv, BeforeMount
  <2>2. QED
    BY <1>0, <1>4, <2>1 DEF Idle, mount, CalmInv, CardThere, BeforeMount, FirstMount, MountRight
<1>5. job.for \in {"init", "mbr", "header", "file"}
  BY DEF JobOK, Jobs
<1>6. QED
  BY <1>1, <1>2, <1>3, <1>4, <1>5

LEMMA MountStep ==
  ASSUME FreshInv, TypeOK, MountInv, [Next]_vars
  PROVE  MountInv'
<1> SUFFICES ASSUME calm' PROVE CalmInv'
  BY DEF MountInv
<1>0. /\ JobOK /\ (calm => CalmInv) /\ (ready => slot \in Cards /\ slot # NoCard)
      /\ cache.addr = 0
  BY StorageAssumption DEF FreshInv, CacheOK, MountInv, TypeOK
<1>1. ASSUME NEW c \in Cards, Insert(c) PROVE CalmInv'
  <2>1. /\ slot = NoCard /\ slot' = c /\ UNCHANGED <<ready, cache, job, mount, calm>>
    BY <1>1 DEF Insert
  <2>2. ~ready /\ job.for = "none" /\ mounts = 0 /\ CalmInv
    BY <1>0, <2>1 DEF CalmInv, CardThere
  <2>3. QED
    BY <2>1, <2>2 DEF mount, CalmInv, CardThere, BeforeMount, FirstMount
<1>2. CASE SdInterrupt
  <2>1. /\ job = Idle /\ UNCHANGED <<slot, ready, cache, mount, calm>>
        /\ job' = IF slot = NoCard THEN Idle ELSE [Idle EXCEPT !.for = "init", !.step = "power"]
    BY <1>2 DEF SdInterrupt
  <2>2. \/ job'.for = "none" /\ job'.want = 0 /\ job'.step = "ask"
        \/ job'.for = "init" /\ job'.want = 0 /\ job'.step = "power" /\ slot # NoCard
    BY <2>1 DEF Idle
  <2>3. CalmInv /\ job.for = "none"
    BY <1>0, <2>1 DEF Idle
  <2>4. QED
    BY <2>1, <2>2, <2>3 DEF mount, CalmInv, CardThere, BeforeMount, FirstMount, MountRight
<1>3. CASE CardAnswers
  <2>1. /\ job.step = "power" /\ slot # NoCard /\ ready' = TRUE /\ job' = Asking("init", 0)
        /\ UNCHANGED <<slot, cache, mount, calm>>
    BY <1>3 DEF CardAnswers
  <2>2. job'.for = "init" /\ job'.step = "ask" /\ job'.want = 0
    BY <2>1 DEF Asking
  <2>3. CalmInv /\ job.for = "init"
    BY <1>0, <2>1 DEF CalmInv, CardThere
  <2>4. QED
    BY <2>1, <2>2, <2>3 DEF mount, CalmInv, CardThere, BeforeMount, FirstMount, MountRight
<1>4. CASE Miss \/ Commanded
  <2>1. /\ UNCHANGED <<card, cache, mount, calm>> /\ job.step # "power" /\ job.for # "none"
        /\ \/ job' = [job EXCEPT !.step = "command"]
           \/ job' = [job EXCEPT !.step = "data"]
    BY <1>0, <1>4 DEF Miss, Commanded, JobOK
  <2>2. /\ job'.for = job.for /\ job'.want = job.want /\ job'.step # "power"
    BY <1>0, <2>1 DEF JobOK
  <2>3. CalmInv
    BY <1>0, <2>1
  <2>4. QED
    BY <2>1, <2>2, <2>3 DEF card, mount, CalmInv, CardThere, BeforeMount, FirstMount, MountRight
<1>5. CASE Hit
  <2>1. /\ job.step = "ask" /\ job.for # "none" /\ Cached /\ Deliver(cache.block)
        /\ UNCHANGED <<card, cache, calm>>
    BY <1>5 DEF Hit
  <2>2. CalmInv /\ ready
    BY <1>0, <2>1 DEF CalmInv, CardThere
  <2>3. job.want = 0 /\ cache.valid
    BY <1>0, <2>1 DEF Cached
  <2>4. mounts = 1 /\ job.for = "header" => cache.block = <<slot, FirstBlock(slot)>>
    BY <2>2, <2>3 DEF CalmInv, FirstMount
  <2>5. mounts = 0 => cache.block = <<slot, 0>> /\ cache' = cache
    BY <2>1, <2>2, <2>3 DEF CalmInv, BeforeMount
  <2>6. QED
    BY <1>0, <2>1, <2>2, <2>4, <2>5, CalmDeliver
<1>6. CASE Transferred
  <2>1. PICK bytes : /\ bytes = IF ready THEN <<slot, job.want>> ELSE Noise
                     /\ cache' = CacheAfter(bytes) /\ Deliver(bytes)
                     /\ UNCHANGED <<card, calm>> /\ job.step = "data"
    BY <1>6 DEF Transferred
  <2>2. CalmInv /\ job.for # "none"
    BY <1>0, <2>1 DEF JobOK
  <2>3. ready /\ bytes = <<slot, job.want>> /\ cache'.block = bytes
    BY <2>1, <2>2 DEF CalmInv, CardThere, CacheAfter
  <2>4. mounts = 0 => job.want = 0
    BY <2>2 DEF CalmInv, BeforeMount
  <2>5. mounts = 1 /\ job.for = "header" => job.want = FirstBlock(slot)
    BY <2>2 DEF CalmInv, FirstMount
  <2>6. QED
    BY <1>0, <2>1, <2>2, <2>3, <2>4, <2>5, CalmDeliver
<1>7. ASSUME NEW b \in Blocks, FileRead(b) PROVE CalmInv'
  <2>1. /\ job = Idle /\ tftpd.bound /\ job' = Asking("file", b)
        /\ UNCHANGED <<card, cache, mount, calm>>
    BY <1>7 DEF FileRead
  <2>2. CalmInv /\ mounts # 0 /\ job.for = "none" /\ job'.for = "file" /\ job'.step = "ask"
    BY <1>0, <2>1 DEF CalmInv, BeforeMount, Idle, Asking
  <2>3. ready /\ slot # NoCard
    BY <1>0, <2>2 DEF CalmInv, CardThere
  <2>4. QED
    BY <2>1, <2>2, <2>3 DEF card, mount, CalmInv, CardThere, BeforeMount, FirstMount, MountRight
\* A card that is pulled, does not answer or fails ends the calm.
<1>8. CASE Pull \/ CardSilent \/ NotInserted \/ ReadFails
  <2>1. calm' = FALSE
    BY <1>8, Zenon DEF Pull, CardSilent, NotInserted, ReadFails, Fail
  <2>2. QED
    BY <2>1
<1>9. CASE UNCHANGED vars
  <2>1. UNCHANGED <<card, cache, job, mount, calm>>
    BY <1>9 DEF vars
  <2>2. CalmInv
    BY <1>0, <2>1
  <2>3. QED
    BY <2>1, <2>2 DEF card, mount, CalmInv, CardThere, BeforeMount, FirstMount, MountRight
<1>10. QED
  BY <1>1, <1>2, <1>3, <1>4, <1>5, <1>6, <1>7, <1>8, <1>9 DEF Next, Handler

\* For every set of cards with their partitions anywhere: the first card that is put
\* in is mounted with its own boot sector, although the reads of its MBR and of its
\* boot sector go through a cache that calls both of them block 0 (sd.c:363-382,
\* main.c:114-122), and with its MBR at most if its partition is inactive
\* (partition.c:39-41).
THEOREM FirstMountCorrect == Spec => []FirstMountRight
<1>1. Init => FreshInv /\ TypeOK /\ MountInv
  <2>1. Init => MountInv
    BY DEF Init, MountInv, CalmInv, CardThere, BeforeMount, FirstMount, Idle
  <2>2. QED
    BY <2>1, FreshInit, TypeInit
<1>2. FreshInv /\ TypeOK /\ MountInv /\ [Next]_vars => FreshInv' /\ TypeOK' /\ MountInv'
  BY FreshStep, TypeStep, MountStep DEF TypeOK, OffsetOK
<1>3. MountInv => FirstMountRight
  BY DEF MountInv, CalmInv, FirstMount, MountRight, FirstMountRight, Idle
<1>4. QED
  BY <1>1, <1>2, <1>3, PTL DEF Spec
=============================================================================
