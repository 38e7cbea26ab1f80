------------------------------- MODULE SdFile -------------------------------
(***************************************************************************)
(* Files of the SD library (SdFile.cpp, and open and remove of SD.cpp), as *)
(* operators on the state of a call, see SdVolume.  Every file is in the   *)
(* root directory, where the stations keep theirs, and the directory is    *)
(* one block.  Sizes and positions are in bytes.                           *)
(***************************************************************************)
EXTENDS SdVolume

\* A file that has just been opened from entry slot of the directory.
Opened(slot, entry, writable) ==
    [dirIndex_     |-> slot,
     writable      |-> writable,            \* O_WRITE in flags_
     dirDirty      |-> FALSE,               \* F_FILE_DIR_DIRTY in flags_
     firstCluster_ |-> entry.firstCluster,
     fileSize_     |-> entry.fileSize,
     curCluster_   |-> 0,
     curPosition_  |-> 0,
     writeError    |-> FALSE]

NoFile == Opened(1, NoEntry, FALSE)

\* Where a position is.
ClusterBytes        == blocksPerCluster_ * BlockSize
blockOfCluster(pos) == (pos \div BlockSize) % blocksPerCluster_
offsetInBlock(pos)  == pos % BlockSize
Least(a, b) == IF a < b THEN a ELSE b

\* The block of the current position.
currentBlock(s) ==
    clusterStartBlock(s.file.curCluster_) + blockOfCluster(s.file.curPosition_)
StartOfCluster(s) == s.file.curPosition_ % ClusterBytes = 0

\* The turns of the loops of read() and write(): the bytes of each, for n bytes
\* from pos, which are of one block.
Pieces(pos, n) ==
    LET cut[left \in 0 .. n] ==
            IF left = 0 THEN <<>>
            ELSE LET m == Least(BlockSize - offsetInBlock(pos + n - left), left)
                 IN  <<m>> \o cut[left - m]
    IN  cut[n]

addCluster(s) ==
    Then(allocContiguous(s), LAMBDA t :
        IF t.file.firstCluster_ # 0 THEN t
        ELSE [t EXCEPT !.file.firstCluster_ = t.file.curCluster_,
                       !.file.dirDirty = TRUE])

cacheDirEntry(s, dirty) == cacheRawBlock(s, rootDirStart_, dirty)

\* Variant: the directory entry stays in the cache.
sync_NoFlush(s) ==
    IF ~s.file.dirDirty THEN cacheFlush(s)
    ELSE Then(cacheDirEntry(s, TRUE), LAMBDA t :
             [t EXCEPT
                !.vol.cacheBuffer_[t.file.dirIndex_].fileSize = t.file.fileSize_,
                !.vol.cacheBuffer_[t.file.dirIndex_].firstCluster =
                    t.file.firstCluster_,
                !.file.dirDirty = FALSE])

sync(s) ==
    IF ~s.file.dirDirty THEN cacheFlush(s)
    ELSE Then(cacheDirEntry(s, TRUE), LAMBDA t : cacheFlush(
             [t EXCEPT
                !.vol.cacheBuffer_[t.file.dirIndex_].fileSize = t.file.fileSize_,
                !.vol.cacheBuffer_[t.file.dirIndex_].firstCluster =
                    t.file.firstCluster_,
                !.file.dirDirty = FALSE]))

\* From the current cluster to the next in its chain; n times.
nextLink(s) ==
    Then(fatGet(s, s.file.curCluster_), LAMBDA t :
        [t EXCEPT !.file.curCluster_ = t.out])
follow(s, n) ==
    LET walked[k \in 0 .. n] ==
            IF k = 0 THEN s
            ELSE Then(walked[k - 1], nextLink)
    IN  walked[n]

seekSet(s, pos) ==
    LET nCur == (s.file.curPosition_ - 1) \div ClusterBytes
        nNew == (pos - 1) \div ClusterBytes
        back == s.file.curPosition_ = 0 \/ nNew < nCur
        from == IF back THEN [s EXCEPT !.file.curCluster_ = s.file.firstCluster_]
                ELSE s
    IN  CASE pos > s.file.fileSize_ -> Failed(s)
          [] pos = 0 -> [s EXCEPT !.file.curCluster_ = 0, !.file.curPosition_ = 0]
          [] OTHER ->
               Then(follow(from, IF back THEN nNew ELSE nNew - nCur), LAMBDA t :
                   [t EXCEPT !.file.curPosition_ = pos])

\* truncate(0), the only use the library makes of it: the chain is freed in
\* the cache, and only then the directory entry is brought in and changed.
truncate(s) ==
    IF ~s.file.writable THEN Failed(s)
    ELSE IF s.file.fileSize_ = 0 THEN s
    ELSE Then(freeChain(seekSet(s, 0), s.file.firstCluster_), LAMBDA t :
             sync([t EXCEPT !.file.firstCluster_ = 0, !.file.fileSize_ = 0,
                            !.file.dirDirty = TRUE]))

\* SdFile::remove()
removeFile(s) ==
    LET entry(t) == cacheDirEntry(t, TRUE)
    IN  Then(Then(truncate(s), entry), LAMBDA t : cacheFlush(
            [t EXCEPT !.vol.cacheBuffer_[t.file.dirIndex_].name = NameDeleted]))

----------------------------------------------------------------------------
(* write() *)

\* Variant: the end of the chain is not noticed.
nextCluster_NoEnd(s) ==
    IF s.file.curCluster_ = 0
      THEN IF s.file.firstCluster_ = 0 THEN addCluster(s)
           ELSE [s EXCEPT !.file.curCluster_ = s.file.firstCluster_]
      ELSE nextLink(s)

\* The cluster a byte at the start of a cluster goes to.
nextCluster(s) ==
    IF s.file.curCluster_ = 0
      THEN IF s.file.firstCluster_ = 0 THEN addCluster(s)
           ELSE [s EXCEPT !.file.curCluster_ = s.file.firstCluster_]
      ELSE Then(fatGet(s, s.file.curCluster_), LAMBDA t :
               IF isEOC(t.out) THEN addCluster(t)
               ELSE [t EXCEPT !.file.curCluster_ = t.out])

\* A whole block goes to the card past the cache, which forgets the block.
writeWhole(s, bytes) ==
    LET b == currentBlock(s)
    IN  writeBlock([s EXCEPT !.vol.cacheBlockNumber_ =
                                 IF @ = b THEN NoBlock ELSE @],
                   b, [i \in 0 .. BlockSize - 1 |-> bytes[i + 1]])

\* A part of a block goes to the cache, which takes a new block over without
\* reading it.
writePart(s, bytes) ==
    LET b      == currentBlock(s)
        offset == offsetInBlock(s.file.curPosition_)
        fresh  == offset = 0 /\ s.file.curPosition_ >= s.file.fileSize_
        cached == IF fresh
                    THEN Then(cacheFlush(s), LAMBDA t :
                             [t EXCEPT !.vol.cacheBlockNumber_ = b,
                                       !.vol.cacheBuffer_ = JunkBlock,
                                       !.vol.cacheDirty_ = TRUE])
                    ELSE cacheRawBlock(s, b, TRUE)
    IN  Then(cached, LAMBDA t :
            [t EXCEPT !.vol.cacheBuffer_ =
                [i \in DOMAIN @ |-> IF i \in offset .. offset + Len(bytes) - 1
                                      THEN bytes[i - offset + 1] ELSE @[i]]])

\* One turn of the loop, for the bytes that go to one block.
writeTurn(s, bytes) ==
    LET placed == IF StartOfCluster(s) THEN nextCluster(s) ELSE s
        put(t) == IF Len(bytes) = BlockSize THEN writeWhole(t, bytes)
                  ELSE writePart(t, bytes)
    IN  Then(Then(placed, put), LAMBDA t :
            [t EXCEPT !.file.curPosition_ = @ + Len(bytes)])

writeTurns(s, bytes, turns) ==
    LET turn(t, n) ==
            LET from == t.file.curPosition_ - s.file.curPosition_
            IN  writeTurn(t, SubSeq(bytes, from + 1, from + n))
        done[k \in 0 .. Len(turns)] ==
            IF k = 0 THEN s ELSE Then(done[k - 1], LAMBDA t : turn(t, turns[k]))
    IN  done[Len(turns)]

\* The end of write(): whether it has failed, and the size of the file.  Where a
\* block of the FAT cannot be read the code returns 0 and leaves writeError as it
\* was; a program that closes the file after a write of 0 does not see it.
Ended(s) ==
    IF ~s.ok THEN [s EXCEPT !.file.writeError = TRUE]
    ELSE IF s.file.curPosition_ <= s.file.fileSize_ THEN s
    ELSE [s EXCEPT !.file.fileSize_ = s.file.curPosition_, !.file.dirDirty = TRUE]

write(s, bytes) ==
    Ended(IF ~s.file.writable THEN Failed(s)
          ELSE writeTurns(s, bytes, Pieces(s.file.curPosition_, Len(bytes))))

----------------------------------------------------------------------------
(* read() *)

\* The cluster of the current position.
readCluster(s) ==
    IF ~StartOfCluster(s) THEN s
    ELSE IF s.file.curPosition_ = 0
      THEN [s EXCEPT !.file.curCluster_ = s.file.firstCluster_]
      ELSE nextLink(s)

\* n bytes of a block, from the content of the block.
Taken(s, content, n) ==
    [s EXCEPT !.file.curPosition_ = @ + n,
              !.out = [i \in 1 .. n |->
                  content[offsetInBlock(s.file.curPosition_) + i - 1]]]

\* Variant: a whole block is read past the cache even when it is there.
readBlock_Past(s, n) ==
    IF n = BlockSize
      THEN Taken(s, s.vol.card[currentBlock(s)], n)
      ELSE Then(cacheRawBlock(s, currentBlock(s), FALSE), LAMBDA t :
               Taken(t, t.vol.cacheBuffer_, n))

\* n bytes of the current block.  A whole block is read past the cache.
readBlock(s, n) ==
    IF n = BlockSize /\ currentBlock(s) # s.vol.cacheBlockNumber_
      THEN Taken(s, s.vol.card[currentBlock(s)], n)
      ELSE Then(cacheRawBlock(s, currentBlock(s), FALSE), LAMBDA t :
               Taken(t, t.vol.cacheBuffer_, n))

\* One turn of the loop.
readTurn(s, n) ==
    LET block(t) == readBlock(t, n)
    IN  Then(Then(readCluster(s), block), LAMBDA t : [t EXCEPT !.out = s.out \o @])

readTurns(s, turns) ==
    LET done[k \in 0 .. Len(turns)] ==
            IF k = 0 THEN [s EXCEPT !.out = <<>>]
            ELSE Then(done[k - 1], LAMBDA t : readTurn(t, turns[k]))
    IN  done[Len(turns)]

\* At most nbyte bytes from the current position; out is what has been read.
read(s, nbyte) ==
    readTurns(s, Pieces(s.file.curPosition_,
                        Least(nbyte, s.file.fileSize_ - s.file.curPosition_)))

----------------------------------------------------------------------------
(* SD.open() and SD.remove() *)

\* The slots the search of SdFile::open passes over: up to the first that has
\* never been used.
Searched(dir) ==
    {i \in 1 .. DirSlots : \A j \in 1 .. i - 1 : dir[j].name # NameFree}
SlotsOf(dir, name) == {i \in Searched(dir) : dir[i].name = name}
EmptySlots(dir) == SlotsOf(dir, NameFree) \cup SlotsOf(dir, NameDeleted)
First(slots) == CHOOSE i \in slots : \A j \in slots : i <= j

\* SdFile::open, once the directory is in the cache: the entry is created, and
\* forced to the card, if creat.
openEntry(s, dir, name, writable) ==
    LET i == First(SlotsOf(dir, name))
    IN  [s EXCEPT !.file = Opened(i, dir[i], writable)]
newEntry(s, i, name, writable) ==
    Then(cacheFlush([s EXCEPT !.vol.cacheBuffer_[i] = [NoEntry EXCEPT !.name = name],
                              !.vol.cacheDirty_ = TRUE]),
         LAMBDA t : [t EXCEPT !.file = Opened(i, NoEntry, writable)])
openIn(s, dir, name, writable, creat) ==
    IF SlotsOf(dir, name) # {} THEN openEntry(s, dir, name, writable)
    ELSE IF ~creat \/ EmptySlots(dir) = {} THEN Failed(s)
    ELSE newEntry(s, First(EmptySlots(dir)), name, writable)

openFile(s, name, writable, creat) ==
    Then(cacheDirEntry(s, FALSE), LAMBDA t :
        openIn(t, t.vol.cacheBuffer_, name, writable, creat))

\* SD.open(name) and SD.open(name, FILE_WRITE), which goes to the end.
openRead(s, name)  == openFile(s, name, FALSE, FALSE)
openWrite(s, name) ==
    Then(openFile(s, name, TRUE, TRUE), LAMBDA t :
        [seekSet(t, t.file.fileSize_) EXCEPT !.ok = TRUE])

\* SD.remove(name)
remove(s, name) ==
    Then(openFile(s, name, TRUE, FALSE), LAMBDA t : removeFile(t))

\* SD.exists(name): the file is opened and closed.
exists(s, name) == Then(openRead(s, name), LAMBDA t : sync(t))
=============================================================================
