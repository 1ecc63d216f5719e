--------------------------------- MODULE Fat ---------------------------------
(***************************************************************************)
(* The read-only file system of sys/fat.c: the cluster chain, directories, *)
(* path lookup, and open files, as operators on the tables of the module.  *)
(* The disk does not change and its contents are not bytes: a file is made *)
(* of units, each known by its place <<cluster, offset>>, and a directory  *)
(* of entries [kind, name, first, size].                                   *)
(***************************************************************************)
EXTENDS Slots, Sequences

CONSTANTS
  ClusterCount,       (* The data clusters are numbered from 2.            *)
  ClusterSize,        (* Units in a cluster.                               *)
  DirSize,            (* Directory entries in a cluster.                   *)
  FatTable,           (* The file allocation table: a marker or a cluster. *)
  Root,               (* The entries of the root directory.                *)
  Directories,        (* What the data clusters hold, read as directories. *)
  FAT_MAX_FILE

Clusters == 2 .. ClusterCount + 1

\* The markers of the table.  The end of a chain is 0xfff8 to 0xffff; the code
\* knows the first of these only, and takes the others for numbers.
ClusterFree     == 0
ClusterReserved == ClusterCount + 2
ClusterBad      == ClusterCount + 3
ClusterLast     == ClusterCount + 4
ClusterEnd      == ClusterCount + 5
Markers == {ClusterFree, ClusterReserved, ClusterBad, ClusterLast, ClusterEnd}

Kinds == {"free", "lfn", "volume", "dir", "file"}

ASSUME FatAssumption ==
  /\ ClusterCount \in Nat \ {0} /\ ClusterSize \in Nat \ {0} /\ DirSize \in Nat \ {0}
  /\ FAT_MAX_FILE \in Nat \ {0}
  /\ FatTable \in [Clusters -> Clusters \union Markers]
  /\ Len(Root) \in Nat /\ DOMAIN Root = 1 .. Len(Root)
  /\ \A c \in Clusters : DOMAIN Directories[c] = 1 .. DirSize
  /\ \A d \in {Root} \union {Directories[c] : c \in Clusters} :
       \A i \in DOMAIN d :
         d[i].kind \in Kinds /\ d[i].first \in Nat /\ d[i].size \in Nat

\* fat_get_next_cluster.  1 is its "none"; so it answers for the root directory,
\* number 0.  (Outside the table it would read what lies behind it.)
NextCluster(c) ==
  IF c \notin Clusters THEN 1
  ELSE IF FatTable[c] \in {ClusterFree, ClusterReserved, ClusterBad, ClusterLast}
  THEN 1 ELSE FatTable[c]

-----------------------------------------------------------------------------
(* Directories.                                                            *)

NoEntry   == [kind |-> "none", name |-> <<>>, first |-> 0, size |-> 0]
RootEntry == [kind |-> "volume", name |-> <<>>, first |-> 0, size |-> 0]

\* The entry at a place counted from the start of a cluster.  Behind the end of
\* the cluster lies the next one of the disk.
EntryAt(c, i) ==
  IF c = 0 THEN Root[i + 1]
  ELSE LET d == c + i \div DirSize
       IN  IF d \in Clusters THEN Directories[d][(i % DirSize) + 1] ELSE NoEntry

\* fat_read_dir, one turn of its loop: the cluster an entry is read from, and the
\* place of the next.  The place is not reset when the cluster changes.
Turn(place) ==
  LET size == IF place.cluster = 0 THEN Len(Root) ELSE DirSize
  IN  [cluster |-> IF place.index >= size THEN NextCluster(place.cluster)
                   ELSE place.cluster,
       index |-> place.index + 1]

\* fat_read_dir_entry_from_offset
Shown(entry) == entry.kind \in {"dir", "file"}

\* The entries of the directory that begins in cluster first, in the order in
\* which fat_read_dir returns them.  No directory is longer than the disk.
Listing(first) ==
  LET place[n \in Nat] ==
        IF n = 0 THEN [cluster |-> first, index |-> 0] ELSE Turn(place[n - 1])
      list[n \in Nat] ==
        IF n = 0 THEN <<>>
        ELSE IF place[n].cluster = 1 THEN list[n - 1]
        ELSE LET entry == EntryAt(place[n].cluster, place[n - 1].index)
             IN  IF Shown(entry) THEN Append(list[n - 1], entry) ELSE list[n - 1]
  IN  list[Len(Root) + (DirSize + 1) * ClusterCount]

\* _fat_dir_open and the loop of _fat_get_dir_entry over one directory.
Find(entry, name) ==
  LET list == Listing(entry.first)
      named == {i \in DOMAIN list : list[i].name = name}
  IN  IF entry.kind \notin {"dir", "volume"} \/ named = {} THEN NoEntry
      ELSE list[Lowest(named)]

\* _fat_get_dir_entry: a path is a sequence of names, from the root directory.
Lookup(path) ==
  LET at[n \in Nat] == IF n = 0 THEN RootEntry ELSE Find(at[n - 1], path[n])
  IN  at[Len(path)]

-----------------------------------------------------------------------------
(* Open files.                                                             *)

Handles == 0 .. FAT_MAX_FILE - 1
NoFile  == -1    \* NULL

\* An entry of fat_files, cleared.  fs tells whether it is in use.
ClosedFile == [fs |-> FALSE, first |-> 0, size |-> 0, current |-> 0,
               offset |-> 0, clusterOffset |-> 0, fileCluster |-> 0]

NoFiles == [f \in Handles |-> ClosedFile]

FreeHandles(files) == {f \in Handles : ~files[f].fs}

\* The handle fat_fopen returns.  Only what has no entry cannot be opened.
FileFor(files, path) ==
  IF Lookup(path) = NoEntry \/ FreeHandles(files) = {} THEN NoFile
  ELSE Lowest(FreeHandles(files))

\* _fat_file_open
FileOpen(files, path) ==
  IF FileFor(files, path) = NoFile THEN files
  ELSE [files EXCEPT ![FileFor(files, path)] =
          [ClosedFile EXCEPT !.fs = TRUE, !.first = Lookup(path).first,
                             !.size = Lookup(path).size, !.current = Lookup(path).first]]

\* fat_fclose, which takes NULL.
FileClose(files, f) == IF f \in Handles THEN [files EXCEPT ![f] = ClosedFile] ELSE files

\* fat_fread, a unit of its loop: on to the next cluster, if this one is finished.
ReadOne(r) ==
  LET ended == r.file.clusterOffset >= ClusterSize
      file == IF ended
              THEN [r.file EXCEPT !.clusterOffset = 0, !.fileCluster = @ + 1,
                                  !.current = NextCluster(@)]
              ELSE r.file
  IN  IF r.failed THEN r
      ELSE IF ended /\ file.current < 2 THEN [file |-> file, data |-> <<>>, failed |-> TRUE]
      ELSE [file |-> [file EXCEPT !.clusterOffset = @ + 1, !.offset = @ + 1],
            data |-> Append(r.data, <<file.current, file.clusterOffset>>),
            failed |-> FALSE]

\* Mutation: the size of the file does not limit a read.
FileRead_Whole(file, size) ==
  LET read[n \in Nat] ==
        IF n = 0 THEN [file |-> file, data |-> <<>>, failed |-> FALSE]
        ELSE ReadOne(read[n - 1])
  IN  IF file.offset >= file.size
      THEN [file |-> [file EXCEPT !.offset = file.size], data |-> <<>>, failed |-> FALSE]
      ELSE read[size]

\* fat_fread: what it hands out, and the file it leaves.  A chain that ends too
\* early makes it return 0, whatever it has read.
FileRead(file, size) ==
  LET left == IF file.offset >= file.size THEN 0 ELSE file.size - file.offset
      read[n \in Nat] ==
        IF n = 0 THEN [file |-> file, data |-> <<>>, failed |-> FALSE]
        ELSE ReadOne(read[n - 1])
  IN  IF left = 0
      THEN [file |-> [file EXCEPT !.offset = file.size], data |-> <<>>, failed |-> FALSE]
      ELSE read[IF size < left THEN size ELSE left]

\* Mutation: on from the cluster at hand, backwards too.
FileSeek_Onwards(file, offset) ==
  LET n == offset \div ClusterSize
      steps == IF n >= file.fileCluster THEN n - file.fileCluster ELSE n
      walk[k \in Nat] == IF k = 0 THEN file.current ELSE NextCluster(walk[k - 1])
      counted == [file EXCEPT !.fileCluster = @ + steps]
  IN  IF walk[steps] < 2 THEN counted
      ELSE [counted EXCEPT !.current = walk[steps], !.offset = offset,
                           !.clusterOffset = offset % ClusterSize]

\* fat_fseek with SEEK_SET: on from the cluster at hand, or from the first one.
\* The number of the cluster is counted up in both cases, and even when the seek
\* fails at the end of the chain.
FileSeek(file, offset) ==
  LET n == offset \div ClusterSize
      onwards == n >= file.fileCluster
      steps == IF onwards THEN n - file.fileCluster ELSE n
      walk[k \in Nat] == IF k = 0 THEN IF onwards THEN file.current ELSE file.first
                         ELSE NextCluster(walk[k - 1])
      counted == [file EXCEPT !.fileCluster = @ + steps]
  IN  IF walk[steps] < 2 THEN counted
      ELSE [counted EXCEPT !.current = walk[steps], !.offset = offset,
                           !.clusterOffset = offset % ClusterSize]

-----------------------------------------------------------------------------
(* What the file system holds, for the properties.                         *)

\* The clusters of the chain that begins with first, in order.
Chain(first) ==
  LET chain[n \in Nat] ==
        IF n = 0 THEN <<first>>
        ELSE LET c == chain[n - 1]
             IN  IF FatTable[c[Len(c)]] \in Clusters THEN Append(c, FatTable[c[Len(c)]])
                 ELSE c
  IN  chain[ClusterCount]

\* A file that is not empty begins in a cluster, and its chain is long enough.  The
\* code never looks: it is the one who wrote the disk that sees to it.
Covered(first, size) ==
  size > 0 => first \in Clusters /\ size <= Len(Chain(first)) * ClusterSize

\* The units of a file from one offset up to another.
Contents(first, from, to) ==
  [i \in 1 .. to - from |-> LET u == from + i - 1
                            IN  <<Chain(first)[u \div ClusterSize + 1], u % ClusterSize>>]
=============================================================================
