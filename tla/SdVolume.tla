------------------------------ MODULE SdVolume ------------------------------
(***************************************************************************)
(* A FAT16 volume of the SD library (SdVolume.cpp): one cached block for   *)
(* everything, the file allocation table, and the chains of clusters in it.*)
(*                                                                         *)
(* A C++ function is an operator from the state before the call to the     *)
(* state after it.  Such a state is a record:                              *)
(*    vol     the members of SdVolume, and the card                        *)
(*    file    the members of the SdFile the call is for                    *)
(*    ok      FALSE once a function has returned false: whatever would     *)
(*            follow is not done                                           *)
(*    out     what the last function that has a result returned            *)
(*    cards   the card as it has been during the call: what a power loss   *)
(*            in the middle of it would leave                              *)
(***************************************************************************)
EXTENDS Integers, Sequences, FiniteSets

CONSTANTS
    clusterCount_,      \* clusters of the volume; they are numbered from 2
    EntriesPerBlock,    \* entries of the FAT in a block (256)
    BlockSize,          \* bytes in a block (512)
    blocksPerCluster_,
    DirSlots            \* entries of the root directory (one block of it)

Fat16Limit == 65525    \* more clusters would make a FAT32 volume

ASSUME VolumeAssumption ==
    /\ clusterCount_ \in Nat \ {0} /\ clusterCount_ < Fat16Limit
    /\ EntriesPerBlock \in Nat \ {0, 1}
    /\ BlockSize \in Nat \ {0} /\ blocksPerCluster_ \in Nat \ {0}
    /\ DirSlots \in Nat \ {0}

\* The blocks of the card: boot sector, FAT, its mirror, root directory, data.
fatCount_      == 2
blocksPerFat_  == (clusterCount_ + 1) \div EntriesPerBlock + 1
fatStartBlock_ == 1
rootDirStart_  == fatStartBlock_ + fatCount_ * blocksPerFat_
dataStartBlock_ == rootDirStart_ + 1

Clusters == 2 .. clusterCount_ + 1
clusterStartBlock(c) == dataStartBlock_ + (c - 2) * blocksPerCluster_
fatBlock(c) == fatStartBlock_ + c \div EntriesPerBlock
NoBlock == 0 - 1                  \* 0XFFFFFFFF
Blocks == 0 .. clusterStartBlock(clusterCount_ + 2) - 1

\* Entries of the FAT: free, the next cluster, or the end of a chain.
FREE == 0
EOC  == 65535
isEOC(c) == c >= 65528

\* Entries of the directory, and a byte of the leftovers of a block.
NameFree    == <<"free">>
NameDeleted == <<"deleted">>
NoEntry == [name |-> NameFree, firstCluster |-> 0, fileSize |-> 0]
Junk    == <<>>
JunkBlock == [i \in 0 .. BlockSize - 1 |-> Junk]

\* A formatted card.
FatContent(b) ==
    [c \in b * EntriesPerBlock .. (b + 1) * EntriesPerBlock - 1 |->
        IF c < 2 THEN EOC ELSE FREE]
Formatted ==
    [b \in Blocks |->
        CASE b = 0 -> Junk
          [] b \in fatStartBlock_ .. rootDirStart_ - 1 ->
                 FatContent((b - fatStartBlock_) % blocksPerFat_)
          [] b = rootDirStart_ -> [i \in 1 .. DirSlots |-> NoEntry]
          [] OTHER -> JunkBlock]

\* SD.begin(): the statics as they are after power-up, and init(), which
\* leaves the boot sector in the cache.
Mounted(card) ==
    [card              |-> card,
     cacheBlockNumber_ |-> 0,
     cacheBuffer_      |-> card[0],
     cacheDirty_       |-> FALSE,
     cacheMirrorBlock_ |-> 0,
     allocSearchStart_ |-> 2]

\* The start of a call for file f.
Call(vol, f) ==
    [vol |-> vol, file |-> f, ok |-> TRUE, out |-> <<>>, cards |-> {vol.card}]
Failed(s) == [s EXCEPT !.ok = FALSE]
Then(s, F(_)) == IF s.ok THEN F(s) ELSE s

----------------------------------------------------------------------------
(* The block cache *)

\* The library never reads the second FAT, so the card between the writes of a
\* block and its mirror is not told apart from the card after both.
Written(s, t) == [t EXCEPT !.cards = s.cards \cup {t.vol.card}]

\* Sd2Card::writeBlock: the card refuses a block it does not have.
writeBlock(s, b, content) ==
    IF b \notin Blocks THEN Failed(s)
    ELSE LET after == [s.vol.card EXCEPT ![b] = content]
         IN  [s EXCEPT !.vol.card = after, !.cards = @ \cup {after}]

\* Both writes of a flush.
mirrored(s, t) ==
    IF ~t.ok \/ t.vol.cacheMirrorBlock_ = 0 THEN t
    ELSE Written(s, writeBlock(t, t.vol.cacheMirrorBlock_, t.vol.cacheBuffer_))
flushed(s) ==
    mirrored(s, writeBlock(s, s.vol.cacheBlockNumber_, s.vol.cacheBuffer_))

\* Variant: the mirror is not forgotten once it is written.
cacheFlush_MirrorKept(s) ==
    IF ~s.ok \/ ~s.vol.cacheDirty_ THEN s
    ELSE Then(flushed(s), LAMBDA t : [t EXCEPT !.vol.cacheDirty_ = FALSE])

cacheFlush(s) ==
    IF ~s.ok \/ ~s.vol.cacheDirty_ THEN s
    ELSE Then(flushed(s), LAMBDA t :
             [t EXCEPT !.vol.cacheMirrorBlock_ = 0, !.vol.cacheDirty_ = FALSE])

cacheRawBlock(s, b, dirty) ==
    LET load(t) == IF b \notin Blocks THEN Failed(t)
                   ELSE [t EXCEPT !.vol.cacheBlockNumber_ = b,
                                  !.vol.cacheBuffer_ = t.vol.card[b]]
        loaded  == IF b = s.vol.cacheBlockNumber_ THEN s
                   ELSE Then(cacheFlush(s), load)
    IN  Then(loaded, LAMBDA t : [t EXCEPT !.vol.cacheDirty_ = @ \/ dirty])

\* What the card holds for the program: the cached block is newer than its own.
View(vol) ==
    IF vol.cacheDirty_ /\ vol.cacheBlockNumber_ \in Blocks
      THEN [vol.card EXCEPT ![vol.cacheBlockNumber_] = vol.cacheBuffer_]
      ELSE vol.card

----------------------------------------------------------------------------
(* The file allocation table *)

\* The entry of cluster c on a card.
FatEntry(card, c) == card[fatBlock(c)][c]

fatGet(s, c) ==
    IF c > clusterCount_ + 1 THEN Failed(s)
    ELSE Then(cacheRawBlock(s, fatBlock(c), FALSE), LAMBDA t :
             [t EXCEPT !.out = t.vol.cacheBuffer_[c]])

fatPut(s, c, value) ==
    IF c \notin Clusters THEN Failed(s)
    ELSE Then(cacheRawBlock(s, fatBlock(c), FALSE), LAMBDA t :
             [t EXCEPT !.vol.cacheBuffer_[c] = value,
                       !.vol.cacheDirty_ = TRUE,
                       !.vol.cacheMirrorBlock_ = fatBlock(c) + blocksPerFat_])

\* allocContiguous(1, &curCluster_), the only use the library makes of it: the
\* first free cluster after the current one, or from where the last search for
\* a first cluster ended, round the whole table.
SearchStart(s) == IF s.file.curCluster_ # 0 THEN s.file.curCluster_ + 1
                  ELSE s.vol.allocSearchStart_
Tried(s, n) == LET c == SearchStart(s) + n
               IN  IF c > clusterCount_ + 1 THEN c - clusterCount_ ELSE c

\* The n-th cluster tried is taken, and linked to the current one.
TakeCluster(s, c) ==
    LET link(t) == IF t.file.curCluster_ = 0 THEN t
                   ELSE fatPut(t, t.file.curCluster_, c)
    IN  Then(Then(fatPut(s, c, EOC), link), LAMBDA t :
            [t EXCEPT !.file.curCluster_ = c,
                      !.vol.allocSearchStart_ =
                          IF s.file.curCluster_ = 0 THEN c + 1 ELSE @])

\* Variant: the search ends at its first cluster, in use or not.
allocContiguous_Unchecked(s) ==
    Then(fatGet(s, Tried(s, 0)), LAMBDA t : TakeCluster(t, Tried(s, 0)))

allocContiguous(s) ==
    LET free == {n \in 0 .. clusterCount_ - 1 :
                     FatEntry(View(s.vol), Tried(s, n)) = FREE}
        last == IF free = {} THEN clusterCount_ - 1
                ELSE CHOOSE n \in free : \A m \in free : n <= m
        take(t) == IF t.out = FREE THEN TakeCluster(t, Tried(s, last)) ELSE Failed(t)
        seek(t) == fatGet(t, Tried(s, last))
    IN  Then(Then(fatGet(s, Tried(s, 0)), seek), take)

\* Variant: only the first cluster of the chain is freed.
freeChain_First(s, first) ==
    fatPut([s EXCEPT !.vol.allocSearchStart_ = 2], first, FREE)

freeChain(s, first) ==
    LET turn(t) == Then(fatGet(t, t.out), LAMBDA u : fatPut(u, t.out, FREE))
        freed[n \in 0 .. clusterCount_] ==
            IF n = 0 THEN [s EXCEPT !.vol.allocSearchStart_ = 2, !.out = first]
            ELSE Then(freed[n - 1], LAMBDA t : IF isEOC(t.out) THEN t ELSE turn(t))
    IN  freed[clusterCount_]

\* The clusters of the chain that begins with first, as the card has them.
Chain(card, first) ==
    LET walk[n \in 1 .. clusterCount_ + 1] ==
            IF n = 1 THEN first
            ELSE LET c == walk[n - 1]
                 IN  IF c \in Clusters THEN FatEntry(card, c) ELSE EOC
        length == Cardinality({n \in DOMAIN walk : walk[n] \in Clusters})
    IN  [i \in 1 .. length |-> walk[i]]
=============================================================================
