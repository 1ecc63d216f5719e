------------------------------ MODULE Storage ------------------------------
(***************************************************************************)
(* The card in its slot, the driver dev/sd.c with its cache of one block,  *)
(* and what the callback in main.c does when a card has been initialised:  *)
(* sys/partition.c, the mount of sys/fat.c, and tftpd_init.  The handlers  *)
(* run one at a time, with interrupts off, and the card may be pulled out  *)
(* or pushed in between any two of their steps.  A block of a card is      *)
(* known as <<card, number>>.                                              *)
(***************************************************************************)
EXTENDS Slots, FiniteSets

CONSTANTS
  Cards, NoCard,
  Blocks,           (* The numbers of the blocks.  Block 0 holds the MBR.  *)
  Boot,             (* The block where the partition of a card begins.     *)
  Active,           (* The cards whose partition is not marked inactive.   *)
  Noise,            (* Bytes of no block: torn, or never written.          *)
  FAT_MAX_FS, FAT_MAX_DIRENT

ASSUME StorageAssumption ==
  /\ NoCard \notin Cards /\ 0 \in Blocks
  /\ Boot \in [Cards -> Blocks \ {0}] /\ Active \subseteq Cards
  /\ FAT_MAX_FS \in Nat \ {0} /\ FAT_MAX_DIRENT \in Nat \ {0}

None    == -1    \* NULL, and the socket of a server that has none
Fss     == 0 .. FAT_MAX_FS - 1
Entries == 0 .. FAT_MAX_DIRENT - 1
Bytes   == (Cards \X Blocks) \union {Noise}

VARIABLES
  slot,       (* The card in the slot.                                     *)
  ready,      (* It has been initialised since it was put in.              *)
  edge,       (* INT6 is pending: the detect pin has changed.              *)
  cache,      (* sd.block_state, sd.block_addr, sd.block                   *)
  job,        (* What is being read, and for which handler.                *)
  offset,     (* partition.offset, the block where the mount will look.    *)
  fss,        (* fat_fss                                                   *)
  fatfs,      (* The pointers of main.c.                                   *)
  entries,    (* The entries of fat_dir_entries in use.                    *)
  tftpd       (* Its socket, whether port 69 is taken, and its directory.  *)

\* History, read by no guard.
VARIABLES
  pulled,     (* The card has been pulled since this block was asked for.  *)
  served,     (* What a reader got last: the block it asked for, what it   *)
              (* got, and the card that was in all the time, if one was.   *)
  calm,       (* No card was ever pulled, and none ever failed.            *)
  mounts      (* How often a mount has begun, up to 2.                     *)

card  == <<slot, ready, edge>>
mount == <<offset, fss, fatfs, entries, tftpd, mounts>>
vars  == <<card, cache, job, mount, pulled, served, calm>>

Jobs == {"none", "init", "mbr", "header", "file"}

TypeOK ==
  /\ slot \in Cards \union {NoCard} /\ edge \in BOOLEAN
  /\ ready \in BOOLEAN /\ (ready => slot # NoCard)
  /\ cache \in [valid : BOOLEAN, addr : Blocks, block : Bytes]
  /\ job \in [for : Jobs, step : {"power", "ask", "command", "data"}, want : Blocks]
  /\ offset \in Blocks
  /\ fss \in [Fss -> [used : BOOLEAN, header : Bytes]]
  /\ fatfs \in Fss \union {None} /\ (fatfs # None => fss[fatfs].used)
  /\ entries \subseteq Entries
  /\ tftpd \in [bound : BOOLEAN, socket : {0, None}, wd : entries \union {None}]
  /\ pulled \in BOOLEAN /\ calm \in BOOLEAN /\ mounts \in 0 .. 2
  /\ served \in [asked : Blocks, got : Bytes, card : Cards \union {NoCard}]

Idle == [for |-> "none", step |-> "ask", want |-> 0]

Asking(for, block) == [for |-> for, step |-> "ask", want |-> block]

Init ==
  /\ slot \in Cards \union {NoCard} /\ ready = FALSE
  /\ edge = (slot # NoCard)
  /\ cache = [valid |-> FALSE, addr |-> 0, block |-> Noise]
  /\ job = Idle
  /\ offset = 0
  /\ fss = [f \in Fss |-> [used |-> FALSE, header |-> Noise]]
  /\ fatfs = None /\ entries = {}
  /\ tftpd = [bound |-> FALSE, socket |-> 0, wd |-> None]
  /\ pulled = FALSE /\ calm = TRUE /\ mounts = 0
  /\ served = [asked |-> 0, got |-> Noise, card |-> NoCard]

-----------------------------------------------------------------------------
(* The card.                                                               *)

Insert(c) ==
  /\ slot = NoCard
  /\ slot' = c /\ edge' = TRUE
  /\ UNCHANGED <<ready, cache, job, mount, pulled, served, calm>>

Pull ==
  /\ slot # NoCard
  /\ slot' = NoCard /\ ready' = FALSE /\ edge' = TRUE
  /\ pulled' = TRUE /\ calm' = FALSE
  /\ UNCHANGED <<cache, job, mount, served>>

-----------------------------------------------------------------------------
(* The mount.                                                              *)

\* Mutation: the offset of the entry is not taken over.
OffsetsAfter_Zero(bytes) == {0}

\* What partition_open makes of partition.offset, from the bytes of an MBR or from
\* others: an inactive entry leaves what was there before, and so may bytes of no MBR,
\* a read that failed among them, whose buffer is not initialised.
OffsetsAfter(bytes) ==
  IF \E c \in Cards : bytes = <<c, 0>>
  THEN {IF c \in Active THEN Boot[c] ELSE offset : c \in {d \in Cards : bytes = <<d, 0>>}}
  ELSE Blocks

\* Whether fat_read_header accepts a block: any but a boot sector may do or not.
Accepted(bytes) == IF \E c \in Cards : bytes = <<c, Boot[c]>> THEN {TRUE} ELSE BOOLEAN

FreeFss(table) == {f \in Fss : ~table[f].used}

FatClose(table, f) == IF f = None THEN table ELSE [table EXCEPT ![f].used = FALSE]

\* Mutation: the entry is released as soon as the server has got it.
MountEnds_Releases(fs) ==
  LET free == Entries \ entries
  IN  /\ fatfs' = fs
      /\ tftpd' = IF tftpd.bound THEN [tftpd EXCEPT !.socket = None]
                  ELSE [bound |-> TRUE, socket |-> 0,
                        wd |-> IF fs = None \/ free = {} THEN None ELSE Lowest(free)]
      /\ job' = Idle
      /\ UNCHANGED entries

\* fat_get_dir_entry(fatfs, "/") and tftpd_init, the end of the callback.  The port
\* of the server is never given back, so no call of tftpd_init but the first succeeds.
MountEnds(fs) ==
  LET free == Entries \ entries
      root == IF fs = None \/ free = {} THEN None ELSE Lowest(free)
  IN  /\ fatfs' = fs
      /\ entries' = IF root = None THEN entries ELSE entries \union {root}
      /\ tftpd' = IF tftpd.bound THEN [tftpd EXCEPT !.socket = None]
                  ELSE [bound |-> TRUE, socket |-> 0, wd |-> root]
      /\ job' = Idle

\* partition_open has returned, and main.c does not look what: fat_close, and fat_open up to
\* its read.  An entry whose header could not be read stays in use.
MbrRead(bytes) ==
  LET table == FatClose(fss, fatfs)
  IN  /\ mounts' = IF mounts = 0 THEN 1 ELSE 2
      /\ offset' \in OffsetsAfter(bytes)
      /\ IF FreeFss(table) = {}
         THEN fss' = table /\ MountEnds(None)
         ELSE LET f == Lowest(FreeFss(table))
              IN  /\ fss' = [table EXCEPT ![f].used = TRUE]
                  /\ fatfs' = f
                  /\ job' = Asking("header", offset')
                  /\ UNCHANGED <<entries, tftpd>>

HeaderRead(bytes) ==
  /\ \E ok \in Accepted(bytes) :
       /\ fss' = IF ok THEN [fss EXCEPT ![fatfs].header = bytes] ELSE fss
       /\ MountEnds(IF ok THEN fatfs ELSE None)
  /\ UNCHANGED <<offset, mounts>>

-----------------------------------------------------------------------------
(* The driver.                                                             *)

\* sd_interrupt.  That the card is gone is only printed.
SdInterrupt ==
  /\ edge /\ job = Idle
  /\ edge' = FALSE
  /\ job' = IF slot = NoCard THEN Idle ELSE [Idle EXCEPT !.for = "init", !.step = "power"]
  /\ UNCHANGED <<slot, ready, cache, mount, pulled, served, calm>>

\* sd_init_card up to its read of block 0.  The results of the reads of the card's
\* registers are not looked at.
CardAnswers ==
  /\ job.step = "power" /\ slot # NoCard
  /\ ready' = TRUE
  /\ job' = Asking("init", 0)
  /\ pulled' = FALSE
  /\ UNCHANGED <<slot, edge, cache, mount, served, calm>>

\* The loops give up, and the error event is reported.
CardSilent ==
  /\ job.step = "power"
  /\ job' = Idle
  /\ calm' = FALSE
  /\ UNCHANGED <<card, cache, mount, pulled, served>>

\* Mutation: the cache remembers the number of its block.
CacheAfter_Numbered(bytes) == [valid |-> TRUE, addr |-> job.want, block |-> bytes]

\* sd_read_block after a read that succeeded.  The number is not recorded.
CacheAfter(bytes) == [valid |-> TRUE, addr |-> 0, block |-> bytes]

\* What a read has delivered goes to the one who asked.
Deliver(bytes) ==
  /\ served' = [asked |-> job.want, got |-> bytes, card |-> IF pulled THEN NoCard ELSE slot]
  /\ pulled' = FALSE
  /\ CASE job.for = "init"   -> job' = Asking("mbr", 0) /\ UNCHANGED mount
       [] job.for = "mbr"    -> MbrRead(bytes)
       [] job.for = "header" -> HeaderRead(bytes)
       [] job.for = "file"   -> job' = Idle /\ UNCHANGED mount

\* Mutation: a read that failed is tried again.
Fail_Again ==
  /\ calm' = FALSE
  /\ job' = [job EXCEPT !.step = "ask"]
  /\ UNCHANGED <<mount, pulled, served>>

\* A read has failed.  partition_open and fat_read_header go on with what their
\* buffers held.  Of the reads of the server, those of the table and of directories
\* go on too, and the loop of fat_fread adds 0 to what it has, and asks again.
Fail ==
  /\ calm' = FALSE
  /\ CASE job.for = "init"   -> job' = Idle /\ UNCHANGED <<mount, pulled, served>>
       [] job.for = "mbr"    -> MbrRead(Noise) /\ pulled' = FALSE /\ UNCHANGED served
       [] job.for = "header" -> HeaderRead(Noise) /\ UNCHANGED <<pulled, served>>
       [] job.for = "file"   -> /\ job' \in {Idle, [job EXCEPT !.step = "ask"]}
                                /\ UNCHANGED <<mount, pulled, served>>

Cached == cache.valid /\ cache.addr = job.want

\* sd_read looks at the pin first; sd_init_card has done so long before.
NotInserted ==
  /\ job.step = "ask" /\ job.for \in {"mbr", "header", "file"} /\ slot = NoCard
  /\ Fail
  /\ UNCHANGED <<card, cache>>

Hit ==
  /\ job.step = "ask" /\ job.for # "none"
  /\ Cached /\ (job.for = "init" \/ slot # NoCard)
  /\ Deliver(cache.block)
  /\ UNCHANGED <<card, cache, calm>>

\* sd_read_block: _sd_read begins, if the card is there.
Miss ==
  /\ job.step = "ask" /\ job.for # "none"
  /\ ~Cached /\ slot # NoCard
  /\ job' = [job EXCEPT !.step = "command"]
  /\ UNCHANGED <<card, cache, mount, pulled, served, calm>>

Commanded ==
  /\ job.step = "command" /\ ready
  /\ job' = [job EXCEPT !.step = "data"]
  /\ UNCHANGED <<card, cache, mount, pulled, served, calm>>

\* The card is gone, or refuses the command, or its token does not come.
ReadFails ==
  /\ \/ job.step = "command"
     \/ job.step = "ask" /\ job.for = "init" /\ ~Cached /\ slot = NoCard
  /\ cache' = [cache EXCEPT !.valid = FALSE]
  /\ Fail
  /\ UNCHANGED card

\* spi_read_block takes what the bus carries; the checksum is not looked at.
Transferred ==
  /\ job.step = "data"
  /\ LET bytes == IF ready THEN <<slot, job.want>> ELSE Noise
     IN  cache' = CacheAfter(bytes) /\ Deliver(bytes)
  /\ UNCHANGED <<card, calm>>

-----------------------------------------------------------------------------
\* The TFTP server, while it hears anything, reads a block of a file, of a directory
\* or of the table.  A header that is none may lead anywhere.
FileRead(b) ==
  /\ job = Idle
  /\ tftpd.bound /\ tftpd.socket # None /\ tftpd.wd # None
  /\ b # 0 \/ \A f \in Fss : \A c \in Cards : fss[f].header # <<c, Boot[c]>>
  /\ job' = Asking("file", b)
  /\ pulled' = FALSE
  /\ UNCHANGED <<card, cache, mount, served, calm>>

Handler ==
  \/ CardAnswers \/ CardSilent
  \/ NotInserted \/ Hit \/ Miss
  \/ Commanded \/ ReadFails \/ Transferred

Next ==
  \/ \E c \in Cards : Insert(c)
  \/ Pull
  \/ SdInterrupt \/ Handler
  \/ \E b \in Blocks : FileRead(b)

Spec == Init /\ [][Next]_vars

\* A handler that has begun goes on.  A card that is in and initialised may refuse a
\* command now and then, and not for ever.
FairSpec == Spec /\ WF_vars(Handler) /\ SF_vars(Commanded)

-----------------------------------------------------------------------------
(* Properties.                                                             *)

\* A reader whose card stayed in gets the block it has asked for, of that card, and
\* nothing an earlier card or a torn transfer has left in the cache.  Block 0 is the
\* exception: sd_read_block calls every block it caches block 0 (sd.c:374).
FreshBlocks ==
  served.asked # 0 /\ served.card # NoCard => served.got = <<served.card, served.asked>>

\* As long as no card was pulled and none failed, the first mount finds the boot
\* sector through the MBR, past a cache that both reads go through.  On a card whose
\* entry is inactive, as many cards are sold, it does not: main.c:116 goes on, the
\* offset is still 0, and what is mounted, if anything, is the MBR.
FirstMountRight ==
  calm /\ mounts = 1 /\ job = Idle =>
    IF slot \in Active THEN fatfs # None /\ fss[fatfs].header = <<slot, Boot[slot]>>
    ELSE fatfs = None \/ fss[fatfs].header = <<slot, 0>>

\* Every handler returns, whatever the card does in the middle of it, the mount with
\* its three reads too.  Only a file that is being read from a card that has gone
\* holds the program, and for ever: fat_fread asks again and again (fat.c:402), with
\* interrupts off, so that a card put back is never initialised.
HandlersEnd ==
  (job # Idle) ~> (job = Idle \/ (job.for = "file" /\ ~ready))
=============================================================================
