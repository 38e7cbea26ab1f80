------------------------------- MODULE SdCard -------------------------------
(***************************************************************************)
(* The SD library at work: a program opens, writes, reads, closes and      *)
(* removes files in any order it may, or keeps a total in a file as the    *)
(* counter of Complete_codes/SD_uS does, and the power may go at any write *)
(* of a block.                                                             *)
(*                                                                         *)
(* The program has the discipline of the sketches: it has one file at a    *)
(* time open for writing under a name, does not remove a file it has open, *)
(* and after a write() that returned 0 it closes the file.                 *)
(***************************************************************************)
EXTENDS SdFile, FiniteSetsExt

CONSTANTS
    Name,            \* names of files
    Handle,          \* File objects of the program
    MaxAppend,       \* bytes in a write(), at most
    RowSize,         \* bytes of a total
    Overwrite,       \* TRUE: the program also writes where it has sought to
    Careful,         \* TRUE: the program leaves broken files alone
    MaxSize,         \* bound: bytes of a file
    MaxAge,          \* bound: times names are written from their start, in all
    MaxPowerLosses   \* bound: power losses in a behaviour; after one, a single
                     \* file is open at a time, and for writing

ASSUME CardAssumption ==
    /\ Name \cap {NameFree, NameDeleted} = {}
    /\ RowSize \in 1 .. MaxAppend
    /\ Overwrite \in BOOLEAN /\ Careful \in BOOLEAN
    /\ MaxSize \in Nat /\ MaxAge \in Nat /\ MaxPowerLosses \in Nat

VARIABLES
    volume,    \* the SdVolume, with the card
    files,     \* what is open: for a handle, the SdFile and its name, if any
    age,       \* how often a name has been written from its start
    broken,    \* names whose removal a power loss cut off half-way
    spilled,   \* a write() has found the card full
    losses,    \* power losses so far
    content,   \* observed: what the program would read under every name now
    safe       \* observed: what it would read after a power loss now

vars == <<volume, files, age, broken, spilled, losses, content, safe>>

Closed == {}
Byte(n, a, i)     == <<n, a, i>>
Bytes(n, a, i, k) == [j \in 1 .. k |-> Byte(n, a, i + j)]

IsOpen(h)   == files[h] # Closed
FileOf(h)   == (CHOOSE o \in files[h] : TRUE).file
NameOf(h)   == (CHOOSE o \in files[h] : TRUE).name
OpenAs(n)   == {h \in Handle : IsOpen(h) /\ NameOf(h) = n}
Writers(n)  == {h \in OpenAs(n) : FileOf(h).writable}
Usable(n)   == Careful => n \notin broken
Openable(h) == ~IsOpen(h) /\ (losses > 0 => \A g \in Handle : ~IsOpen(g))

\* What reading an open file from its start returns.
ReadAll(vol, f) ==
    read(Call(vol, [f EXCEPT !.curPosition_ = 0, !.curCluster_ = 0]),
         f.fileSize_).out

\* What a program finds under a name: nothing, or a content.
Found(vol, n) ==
    {ReadAll(s.vol, s.file) :
        s \in {t \in {openRead(Call(vol, NoFile), n)} : t.ok}}

\* The contents of all names, those of files being written as their writers
\* have them; and what they are on the card alone.
Contents(vol, open, gone) ==
    [n \in Name |->
        LET writing == {o \in UNION {open[h] : h \in Handle} :
                           o.name = n /\ o.file.writable}
        IN  IF n \in gone THEN {}
            ELSE IF writing # {} THEN {ReadAll(vol, o.file) : o \in writing}
            ELSE Found(vol, n)]
OnCard(vol, gone) ==
    [n \in Name |-> IF n \in gone THEN {} ELSE Found(Mounted(vol.card), n)]

Init ==
    /\ volume = Mounted(Formatted)
    /\ files = [h \in Handle |-> Closed]
    /\ age = [n \in Name |-> 0]
    /\ broken = {} /\ spilled = FALSE /\ losses = 0
    /\ content = [n \in Name |-> {}] /\ safe = content

\* The file of handle h after a call.
Holds(h, n, s) == [files EXCEPT ![h] = {[file |-> s.file, name |-> n]}]
Start(h) == Call(volume, FileOf(h))
New      == Call(volume, NoFile)

----------------------------------------------------------------------------
(* The calls of the program *)

OpenForReading(h, n) ==
    /\ losses = 0 /\ Openable(h) /\ Usable(n)
    /\ \E s \in {openRead(New, n)} :
           /\ volume' = s.vol
           /\ files' = IF s.ok THEN Holds(h, n, s) ELSE files
    /\ UNCHANGED <<age, broken, spilled, losses>>

Young       == MapThenSumSet(LAMBDA n : age[n], Name) < MaxAge
OpenCall(n) == openWrite(New, n)
MayOpen(n)  == Usable(n) /\ Writers(n) = {} /\ (Young \/ content[n] # {})

OpenForWriting(h, n) ==
    /\ Openable(h) /\ MayOpen(n)
    /\ \E s \in {OpenCall(n)} :
           /\ volume' = s.vol
           /\ files' = IF s.ok THEN Holds(h, n, s) ELSE files
           /\ age' = IF s.ok /\ SlotsOf(View(volume)[rootDirStart_], n) = {}
                       THEN [age EXCEPT ![n] = @ + 1] ELSE age
    /\ UNCHANGED <<broken, spilled, losses>>

WriteCall(h, k) ==
    LET f == FileOf(h)
    IN  write(Start(h), Bytes(NameOf(h), age[NameOf(h)], f.curPosition_, k))

MayWrite(h, k) ==
    /\ IsOpen(h) /\ FileOf(h).writable /\ ~FileOf(h).writeError
    /\ FileOf(h).curPosition_ = FileOf(h).fileSize_ \/ Overwrite
    /\ FileOf(h).curPosition_ + k <= MaxSize

Write(h, k) ==
    /\ MayWrite(h, k)
    /\ \E s \in {WriteCall(h, k)} :
           /\ volume' = s.vol
           /\ files' = Holds(h, NameOf(h), s)
           /\ spilled' = (spilled \/ ~s.ok)
    /\ UNCHANGED <<age, broken, losses>>

\* File::read, for the bytes of a block.
Read(h) ==
    /\ IsOpen(h) /\ ~FileOf(h).writeError
    /\ FileOf(h).curPosition_ < FileOf(h).fileSize_
    /\ \E s \in {read(Start(h), BlockSize)} :
           volume' = s.vol /\ files' = Holds(h, NameOf(h), s)
    /\ UNCHANGED <<age, broken, spilled, losses>>

\* File::seek, to one of the ends of the file.
Seek(h, pos) ==
    /\ IsOpen(h) /\ pos \in {0, FileOf(h).fileSize_}
    /\ ~FileOf(h).writable \/ Overwrite
    /\ \E s \in {seekSet(Start(h), pos)} :
           volume' = s.vol /\ files' = Holds(h, NameOf(h), s)
    /\ UNCHANGED <<age, broken, spilled, losses>>

\* File::flush
Flush(h) ==
    /\ IsOpen(h)
    /\ \E s \in {sync(Start(h))} :
           volume' = s.vol /\ files' = Holds(h, NameOf(h), s)
    /\ UNCHANGED <<age, broken, spilled, losses>>

Close(h) ==
    /\ IsOpen(h)
    /\ volume' = sync(Start(h)).vol
    /\ files' = [files EXCEPT ![h] = Closed]
    /\ UNCHANGED <<age, broken, spilled, losses>>

Exists(n) ==
    /\ Usable(n)
    /\ volume' = exists(New, n).vol
    /\ UNCHANGED <<files, age, broken, spilled, losses>>

MayRemove(n) == Usable(n) /\ OpenAs(n) = {}

Remove(n) ==
    /\ MayRemove(n)
    /\ volume' = remove(New, n).vol
    /\ UNCHANGED <<files, age, broken, spilled, losses>>

\* write_file of SD_uS: the file is removed, written with the new total, and
\* closed, whatever each of the calls has returned.
TotalCall(n) ==
    LET closed(t) == [sync([t EXCEPT !.ok = TRUE]) EXCEPT !.ok = t.ok]
        opened(t) == openWrite([t EXCEPT !.ok = TRUE, !.file = NoFile], n)
    IN  Then(opened(remove(New, n)), LAMBDA t :
            closed(write(t, Bytes(n, age[n] + 1, 0, RowSize))))

MayCount(n) == MayRemove(n) /\ Young

write_file(n) ==
    /\ MayCount(n)
    /\ \E s \in {TotalCall(n)} :
           volume' = s.vol /\ spilled' = (spilled \/ ~s.ok)
    /\ age' = [age EXCEPT ![n] = @ + 1]
    /\ UNCHANGED <<files, broken, losses>>

----------------------------------------------------------------------------
(* Power *)

\* The entry of a name on a card, and whether it leads into free clusters.
Entries(card, n) ==
    {card[rootDirStart_][i] : i \in SlotsOf(card[rootDirStart_], n)}
ClustersFor(size) == (size + ClusterBytes - 1) \div ClusterBytes
Leads(card, first, size) ==
    LET chain == Chain(card, first)
    IN  /\ Len(chain) >= ClustersFor(size)
        /\ \A i \in 1 .. ClustersFor(size) : FatEntry(card, chain[i]) # FREE
Dangling(card) ==
    {n \in Name : \E e \in Entries(card, n) :
                      ~Leads(card, e.firstCluster, e.fileSize)}

\* Power goes during a call, at any of its writes, and comes back.
PowerLossIn(s) ==
    /\ losses < MaxPowerLosses
    /\ \E card \in s.cards :
         /\ volume' = Mounted(card)
         /\ broken' = broken \cup Dangling(card)
    /\ files' = [h \in Handle |-> Closed]
    /\ losses' = losses + 1
    /\ UNCHANGED <<age, spilled>>

PowerLoss ==
    \/ \E n \in Name :
         \/ (\E h \in Handle : Openable(h)) /\ MayOpen(n) /\ PowerLossIn(OpenCall(n))
         \/ MayRemove(n) /\ PowerLossIn(remove(New, n))
         \/ MayCount(n) /\ PowerLossIn(TotalCall(n))
    \/ \E h \in Handle :
         \/ IsOpen(h) /\ PowerLossIn(sync(Start(h)))
         \/ \E k \in 1 .. MaxAppend : MayWrite(h, k) /\ PowerLossIn(WriteCall(h, k))

Step ==
    \/ \E h \in Handle, n \in Name : OpenForReading(h, n) \/ OpenForWriting(h, n)
    \/ \E h \in Handle, k \in 1 .. MaxAppend : Write(h, k)
    \/ \E h \in Handle, pos \in 0 .. MaxSize : Seek(h, pos)
    \/ \E h \in Handle : Read(h) \/ Flush(h) \/ Close(h)
    \/ \E n \in Name : Exists(n) \/ Remove(n) \/ write_file(n)
    \/ PowerLoss

Next ==
    /\ Step
    /\ content' = Contents(volume', files', broken')
    /\ safe' = OnCard(volume', broken')

Spec == Init /\ [][Next]_vars

----------------------------------------------------------------------------
(* Properties *)

\* The library keeps the promise of FileStore: appended bytes are read back in
\* order and nothing else is, what was flushed or closed survives a power loss
\* at any later write of a block, and a loss harms no file but the one the call
\* was for.
Store == INSTANCE FileStore
ImplementsStore == Store!Spec

TypeOK ==
    /\ volume.cacheBlockNumber_ \in Blocks \cup {NoBlock}
    /\ volume.cacheDirty_ \in BOOLEAN
    /\ volume.cacheMirrorBlock_ \in {0} \cup (fatStartBlock_ + blocksPerFat_ .. rootDirStart_ - 1)
    /\ volume.allocSearchStart_ \in 2 .. clusterCount_ + 2
    /\ DOMAIN volume.card = Blocks
    /\ \A h \in Handle : IsOpen(h) =>
          LET f == FileOf(h)
          IN  /\ f.dirIndex_ \in 1 .. DirSlots
              /\ f.firstCluster_ \in {0} \cup Clusters
              /\ f.curCluster_ \in {0} \cup Clusters
              /\ f.fileSize_ \in 0 .. MaxSize
    /\ age \in [Name -> 0 .. MaxAge]
    /\ broken \subseteq Name
    /\ spilled \in BOOLEAN /\ losses \in 0 .. MaxPowerLosses

\* The chain of a name, as the program sees it: of its writer, or of its entry.
FirstAndSize(n) ==
    IF Writers(n) # {}
      THEN {<<FileOf(h).firstCluster_, FileOf(h).fileSize_>> : h \in Writers(n)}
      ELSE {<<e.firstCluster, e.fileSize>> : e \in Entries(View(volume), n)}
Owned(n) ==
    UNION {LET chain == Chain(View(volume), p[1])
           IN  {chain[i] : i \in DOMAIN chain} : p \in FirstAndSize(n)}

\* A cluster belongs to one file, and every file has the clusters its size
\* calls for, allocated: after any calls, and with power losses in between.
OwnedOnce ==
    /\ \A n \in Name \ broken : \A p \in FirstAndSize(n) :
          Leads(View(volume), p[1], p[2])
    /\ \A n, m \in Name \ broken : n # m => Owned(n) \cap Owned(m) = {}

\* Without a power loss, and unless a write() did not fit, no cluster is lost:
\* what is marked in the FAT belongs to a file.
NoneLost ==
    losses = 0 /\ ~spilled =>
        \A c \in Clusters : FatEntry(View(volume), c) # FREE =>
            \E n \in Name : c \in Owned(n)

\* The second FAT is the first, but for the block of it that is in the cache.
MirrorIsFat ==
    losses = 0 =>
        \A b \in fatStartBlock_ .. fatStartBlock_ + blocksPerFat_ - 1 :
            volume.card[b + blocksPerFat_] = volume.card[b]

\* However long it has been open, and whatever has been in the cache since, an
\* open file reads as the bytes appended to it, in order, up to the size it
\* knows: those in the cache and those on the card, also while another handle
\* appends to the same file.
OpenReadsBack ==
    \A h \in Handle : IsOpen(h) /\ losses = 0 =>
        ReadAll(volume, FileOf(h)) =
            Bytes(NameOf(h), age[NameOf(h)], 0, FileOf(h).fileSize_)

\* close() forces the data of the file to the card ("force cached data and
\* directory information to be written to the storage device").
CloseKeeps ==
    [][\A h \in Handle : Close(h) /\ FileOf(h).writable =>
          safe'[NameOf(h)] = content[NameOf(h)]]_vars

\* After write_file the file holds the new total and nothing else.
TotalWritten ==
    [][\A n \in Name : write_file(n) /\ ~spilled' =>
          Found(volume', n) = {Bytes(n, age'[n], 0, RowSize)}]_vars
=============================================================================
