-------------------------------- MODULE Tftp --------------------------------
(***************************************************************************)
(* The TFTP server of app/tftp.c with its socket (net/udp.c) and its file  *)
(* (sys/fat.c), and the clients, which follow the protocol: a reader       *)
(* acknowledges each block it gets, a writer sends each block when the one *)
(* before has been acknowledged.  The network loses, delays and reorders,  *)
(* and repeats when Duplicates is TRUE: then what was sent once may arrive *)
(* any number of times, which is also what clients that time out cause.    *)
(***************************************************************************)
EXTENDS Udp, Fat, FiniteSets

CONSTANTS
  BlockSize,      (* 512, in units of the file system                      *)
  WordModulus,    (* 2^16: acked_block * TFTP_BLOCK_SIZE is an unsigned int*)
  Files,          (* What is on the disk: paths, and [first, size] of each.*)
  Readers,        (* Clients, by their ports, each for one transfer: the   *)
  Writers,        (* paths that readers ask for, the blocks of the writers.*)
  Client,         (* The address of the clients.                           *)
  ServerConfig,   (* The addresses of ip.c.                                *)
  Duplicates,
  MaxFileCluster  (* Bound on the count of clusters of an open file, which *)
                  (* old acknowledgments drive up; in C it wraps at 2^16.  *)

ASSUME TftpAssumption ==
  /\ BlockSize \in Nat \ {0} /\ WordModulus \in Nat \ {0}
  /\ DOMAIN Readers \intersect DOMAIN Writers = {}
  /\ \A p \in DOMAIN Readers \union DOMAIN Writers : p \in Nat \ {0}
  /\ \A p \in DOMAIN Readers : Len(Readers[p]) \in Nat
  /\ \A p \in DOMAIN Writers : Writers[p] \in Nat \ {0}
  /\ Client \in Addresses \ {ZeroIp} /\ ServerConfig \in Configs
  /\ Duplicates \in BOOLEAN /\ MaxFileCluster \in Nat

TFTP_UDP_PORT == 69
Ports == DOMAIN Readers \union DOMAIN Writers

VARIABLES
  tftpd,      (* struct tftp                                               *)
  sockets,    (* udp_sockets                                               *)
  files,      (* fat_files                                                 *)
  toServer,   (* Messages on their way, [type, from, block, last].         *)
  toClient,   (* Messages on their way, [type, to, block, data].           *)
  got,        (* For each client, the blocks it has got, or has sent.      *)
  done        (* The readers that have got a short block, the last one.    *)

\* History, read by no guard.
VARIABLES
  printed,    (* The data blocks of the transfer under way, <<from, block>>*)
  disorder    (* The readers one of whose acknowledgments was not in turn. *)

vars == <<tftpd, sockets, files, toServer, toClient, got, done, printed, disorder>>

\* ack_waiting is named in the code and never entered.
TftpStates == {"listening", "receiving", "sending"}

TypeOK ==
  /\ tftpd \in [socket : UdpSockets, file : Handles \union {NoFile}, state : TftpStates,
                mode : {"none", "octet", "mail"}, lastBlock : Nat]
  /\ sockets \in [UdpSockets -> [callback : {NoCallback, "tftpd"}, portLocal : {0, TFTP_UDP_PORT},
                                 portRemote : Ports \union {0}, ipRemote : {Client, ZeroIp}]]
  /\ \A f \in Handles :
       /\ files[f].fs \in BOOLEAN /\ files[f].offset \in 0 .. files[f].size
       /\ files[f].clusterOffset \in 0 .. ClusterSize
  /\ got \in [Ports -> Nat]
  /\ \A m \in toServer : m.from \in Ports /\ m.type \in {"RRQ", "WRQ", "DATA", "ACK", "ERROR"}
  /\ \A m \in toClient : m.to \in Ports /\ m.type \in {"DATA", "ACK", "ERROR"}
  /\ disorder \subseteq DOMAIN Readers /\ done \subseteq DOMAIN Readers

Request(p) == [type |-> IF p \in DOMAIN Readers THEN "RRQ" ELSE "WRQ",
               from |-> p, block |-> 0, last |-> FALSE]

\* tftpd_init, and the requests of the clients.
Init ==
  /\ sockets = SocketAlloc(NoSockets, TFTP_UDP_PORT, "tftpd")
  /\ tftpd = [socket |-> SocketFor(NoSockets, TFTP_UDP_PORT), file |-> NoFile,
              state |-> "listening", mode |-> "none", lastBlock |-> 0]
  /\ files = NoFiles
  /\ toServer = {Request(p) : p \in Ports}
  /\ toClient = {}
  /\ got = [p \in Ports |-> 0]
  /\ done = {}
  /\ printed = <<>>
  /\ disorder = {}

-----------------------------------------------------------------------------
(* Sending.  The remote end is the one the socket is bound to, which is    *)
(* the sender of the packet that is being handled.                         *)

\* Mutation: the file stays open.
Reset_KeepsFile(t, u, fs) ==
  [tftpd   |-> [t EXCEPT !.state = "listening", !.mode = "none", !.lastBlock = 0],
   files   |-> fs,
   sockets |-> UnbindRemote(u, t.socket)]

\* tftpd_reset.  The handle is not cleared, and may be closed again later.
Reset(t, u, fs) ==
  [tftpd   |-> [t EXCEPT !.state = "listening", !.mode = "none", !.lastBlock = 0],
   files   |-> FileClose(fs, t.file),
   sockets |-> UnbindRemote(u, t.socket)]

\* What udp_send may return: the arp table knows the client, or does not.
SendResults(u) ==
  {UdpLeaves(u, tftpd.socket, ServerConfig, known) :
     known \in SUBSET {ArpTarget(ServerConfig, Client)}}

\* The message is under way if udp_send says that it left.
Sent(u, type, block, data, left) ==
  LET reply == [type |-> type, to |-> u[tftpd.socket].portRemote,
                block |-> block, data |-> data]
  IN  toClient' = IF left THEN toClient \union {reply} ELSE toClient

\* A caller that does not look at the result.
Send(u, type, block, data) == \E left \in SendResults(u) : Sent(u, type, block, data, left)

Becomes(r) == tftpd' = r.tftpd /\ files' = r.files /\ sockets' = r.sockets

\* tftpd_send_block, and what its callers do when nothing was left to read.
SendBlock(t, u, fs, ended) ==
  LET read == FileRead(fs[t.file], BlockSize)
      after == [fs EXCEPT ![t.file] = read.file]
  IN  IF Len(read.data) = 0
      THEN /\ Becomes(IF ended = "reset" THEN Reset(t, u, after)
                      ELSE [tftpd |-> t, files |-> after, sockets |-> u])
           /\ UNCHANGED toClient
      ELSE /\ Becomes([tftpd |-> t, files |-> after, sockets |-> u])
           /\ Send(u, "DATA", t.lastBlock, read.data)

-----------------------------------------------------------------------------
(* tftpd_callback, by message and state.  Each handler gets the table of   *)
(* sockets as udp_handle_packet leaves it.                                 *)

RrqFound(m, u) ==
  /\ m.type = "RRQ" /\ tftpd.state = "listening"
  /\ LET f == FileFor(files, Readers[m.from])
         t == [tftpd EXCEPT !.mode = "octet", !.file = f, !.state = "sending", !.lastBlock = 1]
     IN  f # NoFile /\ SendBlock(t, u, FileOpen(files, Readers[m.from]), "stay")
  /\ UNCHANGED <<printed, disorder>>

\* The server listens on, but its socket stays bound to this client.
RrqNotFound(m, u) ==
  /\ m.type = "RRQ" /\ tftpd.state = "listening"
  /\ FileFor(files, Readers[m.from]) = NoFile
  /\ tftpd' = [tftpd EXCEPT !.mode = "octet", !.file = NoFile]
  /\ sockets' = u
  /\ Send(u, "ERROR", 0, <<>>)
  /\ UNCHANGED <<files, printed, disorder>>

\* tftpd_handle_wrq takes no name into account, and any mode.  It listens on when
\* the acknowledgment cannot be sent.  (netascii is handled as octet is.)
Wrq(m, u) ==
  /\ m.type = "WRQ" /\ tftpd.state = "listening"
  /\ \E left \in SendResults(u), mode \in {"octet", "mail"} :
       /\ Sent(u, "ACK", 0, <<>>, left)
       /\ tftpd' = [tftpd EXCEPT !.mode = mode, !.state = IF left THEN "receiving" ELSE @]
  /\ sockets' = u
  /\ printed' = <<>>
  /\ UNCHANGED <<files, disorder>>

\* Mutation: the same block again is taken for a new one.
DataTaken_Again(m) == tftpd.state = "receiving" /\ m.block >= tftpd.lastBlock

\* The conditions under which tftpd_handle_data begins to print the block.
DataTaken(m) == tftpd.state = "receiving" /\ m.block > tftpd.lastBlock

\* Of a mail only an empty block is printed, which the last one may be.
Data(m, u) ==
  /\ m.type = "DATA" /\ DataTaken(m) /\ (tftpd.mode = "mail" => m.last)
  /\ \E left \in SendResults(u) :
       /\ Sent(u, "ACK", m.block, <<>>, left)
       /\ IF ~left \/ m.last THEN Becomes(Reset(tftpd, u, files))
          ELSE /\ tftpd' = [tftpd EXCEPT !.lastBlock = m.block]
               /\ sockets' = u
               /\ UNCHANGED files
  /\ printed' = Append(printed, <<m.from, m.block>>)
  /\ UNCHANGED disorder

\* Any other data packet ends whatever is going on, a transfer to a reader too, and
\* the first character of a mail ends that.
DataRefused(m, u) ==
  /\ m.type = "DATA" /\ (DataTaken(m) => tftpd.mode = "mail")
  /\ Becomes(Reset(tftpd, u, files))
  /\ UNCHANGED <<toClient, printed, disorder>>

\* An acknowledgment of the block that was sent last, or the one before it again.
InTurn(m) == m.block \in {tftpd.lastBlock - 1, tftpd.lastBlock}

\* Mutation: the block sent is the one after the last sent, wherever the file is.
Ack_NoSeek(m, u) ==
  /\ m.type = "ACK" /\ tftpd.state = "sending"
  /\ LET t == [tftpd EXCEPT !.lastBlock = m.block + 1]
     IN  SendBlock(t, u, files, "reset")
  /\ disorder' = IF InTurn(m) THEN disorder ELSE disorder \union {m.from}
  /\ UNCHANGED printed

\* tftpd_handle_ack: the file is set behind the block that was acknowledged.
Ack(m, u) ==
  /\ m.type = "ACK" /\ tftpd.state = "sending"
  /\ LET offset == (m.block * BlockSize) % WordModulus
         t == [tftpd EXCEPT !.lastBlock = m.block + 1]
         file == FileSeek(files[t.file], offset)
     IN  /\ file.fileCluster <= MaxFileCluster
         /\ SendBlock(t, u, [files EXCEPT ![t.file] = file], "reset")
  /\ disorder' = IF InTurn(m) THEN disorder ELSE disorder \union {m.from}
  /\ UNCHANGED printed

\* tftpd_handle_error gives up a transfer from a writer, and no other.
Error(m, u) ==
  /\ m.type = "ERROR" /\ tftpd.state = "receiving"
  /\ Becomes(Reset(tftpd, u, files))
  /\ UNCHANGED <<toClient, printed, disorder>>

\* A message the state has no use for: the socket is bound to its sender all the same.
Ignored(m, u) ==
  /\ \/ m.type \in {"RRQ", "WRQ"} /\ tftpd.state # "listening"
     \/ m.type = "ACK" /\ tftpd.state # "sending"
     \/ m.type = "ERROR" /\ tftpd.state # "receiving"
  /\ sockets' = u
  /\ UNCHANGED <<tftpd, files, toClient, printed, disorder>>

tftpd_callback(m, u) ==
  \/ RrqFound(m, u) \/ RrqNotFound(m, u) \/ Wrq(m, u)
  \/ Data(m, u) \/ DataRefused(m, u)
  \/ Ack(m, u) \/ Error(m, u) \/ Ignored(m, u)

\* A message arrives.  One that finds no socket is lost, with no action.
Receive ==
  \E m \in toServer :
    LET to == Receivers(sockets, Client, m.from, TFTP_UDP_PORT)
    IN  /\ to # {}
        /\ tftpd_callback(m, Delivered(sockets, Lowest(to), Client, m.from))
        /\ toServer' = IF Duplicates THEN toServer ELSE toServer \ {m}
        /\ UNCHANGED <<got, done>>

-----------------------------------------------------------------------------
(* The clients.                                                            *)

Answer(p, type, block) ==
  [type |-> type, from |-> p, block |-> block,
   last |-> type = "DATA" /\ block = Writers[p]]

\* A reader acknowledges the next block, and those it has again.
ReaderGets(m) ==
  /\ m.type = "DATA" /\ m.to \in DOMAIN Readers
  /\ IF m.block = got[m.to] + 1 /\ m.to \notin done
     THEN /\ got' = [got EXCEPT ![m.to] = m.block]
          /\ done' = IF Len(m.data) < BlockSize THEN done \union {m.to} ELSE done
     ELSE m.block <= got[m.to] /\ UNCHANGED <<got, done>>
  /\ toServer' = toServer \union {Answer(m.to, "ACK", m.block)}

\* A writer goes on with the next block, and sends nothing after the last.
WriterGets(m) ==
  /\ m.type = "ACK" /\ m.to \in DOMAIN Writers
  /\ m.block = got[m.to] /\ m.block < Writers[m.to]
  /\ got' = [got EXCEPT ![m.to] = m.block + 1]
  /\ UNCHANGED done
  /\ toServer' = toServer \union {Answer(m.to, "DATA", m.block + 1)}

Deliver ==
  /\ \E m \in toClient :
       /\ ReaderGets(m) \/ WriterGets(m)
       /\ toClient' = IF Duplicates THEN toClient ELSE toClient \ {m}
  /\ UNCHANGED <<tftpd, sockets, files, printed, disorder>>

\* A writer gives up and says so.  (From a reader the server would ignore it.)
GiveUp(p) ==
  /\ p \in DOMAIN Writers /\ got[p] > 0
  /\ toServer' = toServer \union {Answer(p, "ERROR", 0)}
  /\ UNCHANGED <<tftpd, sockets, files, toClient, got, done, printed, disorder>>

Next == Receive \/ Deliver \/ \E p \in Ports : GiveUp(p)

Spec == Init /\ [][Next]_vars

-----------------------------------------------------------------------------
(* What the theorems about the data take for granted of the disk.          *)

\* The chains of the files that readers ask for cover them.
ChainsCover ==
  \A p \in DOMAIN Readers : Covered(Lookup(Readers[p]).first, Lookup(Readers[p]).size)

\* The lookup finds what is on the disk.
LookupFinds ==
  \A p \in DOMAIN Readers :
    LET entry == Lookup(Readers[p])
    IN  entry # NoEntry => /\ Readers[p] \in DOMAIN Files
                           /\ Files[Readers[p]].first = entry.first
                           /\ Files[Readers[p]].size = entry.size

\* A cluster is a whole number of blocks, and the offset behind the last block of a
\* file fits into the unsigned int of tftp.c:250.
BlocksFit ==
  /\ ClusterSize % BlockSize = 0
  /\ \A p \in DOMAIN Readers : Lookup(Readers[p]).size + BlockSize <= WordModulus

-----------------------------------------------------------------------------
(* Properties.                                                             *)

\* The blocks of one transfer from a writer are printed in order and once each,
\* and all come from one writer, whatever is repeated and delayed: the socket
\* belongs to the writer from its request on (udp.c:249), and a block is taken
\* only when its number is above the last (tftp.c:409).
OneWriterInOrder ==
  \A i, j \in DOMAIN printed :
    i < j => printed[i][1] = printed[j][1] /\ printed[i][2] < printed[j][2]

\* The server holds one file while it sends, and none otherwise: no way out of a
\* transfer leaves an entry of fat_files behind, and none closes the file too early.
FileHeld ==
  {f \in Handles : files[f].fs} = IF tftpd.state = "sending" THEN {tftpd.file} ELSE {}

\* The cluster at hand belongs to the file, wherever the acknowledgments have sent
\* fat_fseek and fat_fread, at the end of the chain too.
InChain ==
  \A f \in Handles :
    files[f].fs => \E i \in DOMAIN Chain(files[f].first) :
                     files[f].current = Chain(files[f].first)[i]

\* What block n of the file a reader has asked for holds.
Block(p, n) ==
  LET file == Files[Readers[p]]
      from == (n - 1) * BlockSize
      to == IF from + BlockSize < file.size THEN from + BlockSize ELSE file.size
  IN  Contents(file.first, from, to)

IsBlockOfFile(m) == m.type = "DATA" => m.data = Block(m.to, m.block)

\* As long as acknowledgments come in turn, each once or more often, every data
\* packet holds the block of the requested file that its number says: the lookup
\* finds the file, each seek the place, each read crosses the clusters.
OrderlyBlocks == \A m \in toClient : m.to \notin disorder => IsBlockOfFile(m)

\* tftp.c:344, "Sends subsequent block read from file".
BlocksAreFile == \A m \in toClient : IsBlockOfFile(m)
=============================================================================
