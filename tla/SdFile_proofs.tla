--------------------------- MODULE SdFile_proofs ---------------------------
(***************************************************************************)
(* Lemmas about the calls of the SD library, for a card and files of every *)
(* size: what each does to the cache, to the FAT, to the directory and to  *)
(* the chains of clusters.  The state of a call is in order (Sound) with   *)
(* some chains q, one for every name; each lemma says with which chains it *)
(* is in order afterwards.  What the library computes by recursion along a *)
(* chain is followed turn by turn, by induction on the number of turns.    *)
(***************************************************************************)
EXTENDS SdCard, WellFoundedInduction, FiniteSetTheorems, TLAPS

USE VolumeAssumption DEF VolumeAssumption

----------------------------------------------------------------------------
(* The blocks of the card *)

FatBlocks    == fatStartBlock_ .. fatStartBlock_ + blocksPerFat_ - 1
MirrorBlocks == fatStartBlock_ + blocksPerFat_ .. rootDirStart_ - 1
SeenBlocks   == Blocks \ MirrorBlocks

\* Entry n of m is in a block no later than the last one.
LEMMA Division ==
    ASSUME NEW e \in Nat \ {0}, NEW m \in Nat, NEW n \in 0 .. m
    PROVE  n \div e \in 0 .. m \div e
<1> DEFINE p == n \div e  q == m \div e
<1>1. p \in Int /\ e * p <= n /\ n < e * p + e
  BY Z3
<1>2. q \in Int /\ e * q <= m /\ m < e * q + e
  BY Z3
<1> HIDE DEF p, q
<1>3. e * p < e * (q + 1)
  BY <1>1, <1>2, Z3
<1>4. p < q + 1
  BY <1>1, <1>2, <1>3, Z3
<1>5. 0 <= p
  BY <1>1, Z3
<1>6. QED
  BY <1>1, <1>2, <1>4, <1>5 DEF p, q

\* Where the FAT, the directory and the clusters begin, and that they follow
\* one another on the card.
LEMMA Geometry ==
    /\ blocksPerFat_ \in Nat \ {0}
    /\ rootDirStart_ = 1 + 2 * blocksPerFat_ /\ dataStartBlock_ = rootDirStart_ + 1
    /\ \A c \in Clusters : fatBlock(c) \in FatBlocks
    /\ \A c \in Clusters, k \in 0 .. blocksPerCluster_ - 1 :
          clusterStartBlock(c) + k \in dataStartBlock_ .. clusterStartBlock(clusterCount_ + 2) - 1
    /\ clusterStartBlock(clusterCount_ + 2) \in Nat
    /\ clusterStartBlock(clusterCount_ + 2) > dataStartBlock_
<1>1. (clusterCount_ + 1) \div EntriesPerBlock \in Nat
  BY Division
<1>2. blocksPerFat_ \in Nat \ {0}
  BY <1>1 DEF blocksPerFat_
<1>3. rootDirStart_ = 1 + 2 * blocksPerFat_ /\ dataStartBlock_ = rootDirStart_ + 1
  BY <1>2 DEF rootDirStart_, dataStartBlock_, fatStartBlock_, fatCount_
<1>4. ASSUME NEW c \in Clusters PROVE fatBlock(c) \in FatBlocks
  <2>1. c \in 0 .. clusterCount_ + 1
    BY DEF Clusters
  <2>2. c \div EntriesPerBlock \in 0 .. (clusterCount_ + 1) \div EntriesPerBlock
    BY <2>1, Division
  <2>3. QED
    BY <2>2, <1>1 DEF fatBlock, FatBlocks, fatStartBlock_, blocksPerFat_
<1>5. ASSUME NEW c \in Clusters, NEW k \in 0 .. blocksPerCluster_ - 1
      PROVE  clusterStartBlock(c) + k \in
                dataStartBlock_ .. clusterStartBlock(clusterCount_ + 2) - 1
  <2> DEFINE w == blocksPerCluster_  i == c - 2
  <2>1. i \in Nat /\ i + 1 <= clusterCount_ /\ w \in Nat
    BY DEF Clusters
  <2>2. i * w \in Nat /\ clusterCount_ * w \in Nat /\ i * w + w <= clusterCount_ * w
    BY <2>1, Z3
  <2>3. clusterStartBlock(c) = dataStartBlock_ + i * w
    BY DEF clusterStartBlock
  <2>4. clusterStartBlock(clusterCount_ + 2) = dataStartBlock_ + clusterCount_ * w
    BY DEF clusterStartBlock
  <2>5. QED
    BY <2>2, <2>3, <2>4, <1>2, <1>3
<1>6. /\ clusterStartBlock(clusterCount_ + 2) \in Nat
      /\ clusterStartBlock(clusterCount_ + 2) > dataStartBlock_
  <2>1. clusterCount_ * blocksPerCluster_ \in Nat \ {0}
    BY Z3
  <2>2. QED
    BY <2>1, <1>2, <1>3 DEF clusterStartBlock
<1>7. QED
  BY <1>2, <1>3, <1>4, <1>5, <1>6

\* The blocks of a kind are where they are expected, and nowhere else.
LEMMA Regions ==
    /\ FatBlocks \subseteq SeenBlocks
    /\ \A b \in FatBlocks : b # 0 /\ b + blocksPerFat_ \in MirrorBlocks
    /\ MirrorBlocks \subseteq Blocks
    /\ rootDirStart_ \in SeenBlocks \ FatBlocks
    /\ 0 \in SeenBlocks \ FatBlocks
    /\ NoBlock \notin Blocks
    /\ dataStartBlock_ .. clusterStartBlock(clusterCount_ + 2) - 1
          \subseteq SeenBlocks \ (FatBlocks \cup {0, rootDirStart_})
  BY Geometry DEF FatBlocks, MirrorBlocks, SeenBlocks, Blocks, NoBlock, fatStartBlock_

----------------------------------------------------------------------------
(* The shape of states *)

VolumeFields == {"card", "cacheBlockNumber_", "cacheBuffer_", "cacheDirty_",
                 "cacheMirrorBlock_", "allocSearchStart_"}
FileFields   == {"dirIndex_", "writable", "dirDirty", "firstCluster_",
                 "fileSize_", "curCluster_", "curPosition_", "writeError"}
CallFields   == {"vol", "file", "ok", "out", "cards"}

IsVolume(v) == v = [x \in VolumeFields |-> v[x]]
IsFile(f)   == f = [x \in FileFields |-> f[x]]
IsCall(s)   == /\ s = [x \in CallFields |-> s[x]]
               /\ IsVolume(s.vol) /\ IsFile(s.file) /\ s.ok \in BOOLEAN

\* The cache: what is in it, whether the card has it, and where its mirror
\* goes.  A block written over while it was dirty leaves a cache that can never
\* be flushed.
CacheOK(v) ==
    /\ IsVolume(v)
    /\ v.card = [b \in Blocks |-> v.card[b]]
    /\ v.cacheDirty_ \in BOOLEAN
    /\ v.cacheBlockNumber_ \in SeenBlocks \cup {NoBlock}
    /\ v.cacheMirrorBlock_ =
          IF v.cacheDirty_ /\ v.cacheBlockNumber_ \in FatBlocks
            THEN v.cacheBlockNumber_ + blocksPerFat_ ELSE 0
    /\ ~v.cacheDirty_ /\ v.cacheBlockNumber_ # NoBlock =>
          v.cacheBuffer_ = v.card[v.cacheBlockNumber_]
    /\ \A b \in FatBlocks : v.card[b + blocksPerFat_] = v.card[b]
Stuck(v) == v.cacheDirty_ /\ v.cacheBlockNumber_ = NoBlock

\* What the program can see of the card.
Seen(v) == [b \in SeenBlocks |-> View(v)[b]]

\* The card as the program sees it: the cached block from the cache.
LEMMA SeenIs ==
    ASSUME NEW v, CacheOK(v)
    PROVE  /\ Seen(v) = [b \in SeenBlocks |->
                  IF b = v.cacheBlockNumber_ THEN v.cacheBuffer_ ELSE v.card[b]]
           /\ DOMAIN Seen(v) = SeenBlocks
<1>1. ASSUME NEW b \in SeenBlocks
      PROVE  View(v)[b] = IF b = v.cacheBlockNumber_ THEN v.cacheBuffer_
                          ELSE v.card[b]
  <2>1. b \in Blocks /\ b # NoBlock
    BY Regions DEF SeenBlocks
  <2>2. CASE v.cacheDirty_ /\ v.cacheBlockNumber_ \in Blocks
    BY <2>1, <2>2 DEF View, CacheOK
  <2>3. CASE ~(v.cacheDirty_ /\ v.cacheBlockNumber_ \in Blocks)
    BY <2>1, <2>3 DEF View, CacheOK
  <2>4. QED
    BY <2>2, <2>3
<1>2. QED
  BY <1>1 DEF Seen

----------------------------------------------------------------------------
(* The block cache *)

\* What every step of the cache keeps.
Kept(s, t) ==
    /\ IsCall(t) /\ CacheOK(t.vol)
    /\ t.file = s.file /\ t.out = s.out
    /\ t.vol.allocSearchStart_ = s.vol.allocSearchStart_
    /\ Seen(t.vol) = Seen(s.vol)
    /\ Stuck(s.vol) => t.vol = s.vol
    /\ Stuck(t.vol) => Stuck(s.vol)

\* Kept: only the cache has moved, the program sees the same card.
LEMMA KeptTrans ==
    ASSUME NEW s, NEW t, NEW u, Kept(s, t), Kept(t, u) PROVE Kept(s, u)
  BY DEF Kept

LEMMA KeptSelf ==
    ASSUME NEW s, IsCall(s), CacheOK(s.vol) PROVE Kept(s, s)
  BY DEF Kept

\* A write of a block changes the card.
LEMMA WriteBlockIs ==
    ASSUME NEW s, IsCall(s), NEW b \in Blocks, NEW x
    PROVE  /\ IsCall(writeBlock(s, b, x))
           /\ writeBlock(s, b, x).vol = [s.vol EXCEPT !.card = [s.vol.card EXCEPT ![b] = x]]
           /\ writeBlock(s, b, x).file = s.file
           /\ writeBlock(s, b, x).ok = s.ok
           /\ writeBlock(s, b, x).out = s.out
  BY DEF writeBlock, Failed, IsCall, IsVolume, CallFields, VolumeFields

LEMMA FailedIs ==
    ASSUME NEW s, IsCall(s)
    PROVE  /\ IsCall(Failed(s)) /\ Failed(s).ok = FALSE
           /\ Failed(s).vol = s.vol /\ Failed(s).file = s.file /\ Failed(s).out = s.out
  BY DEF Failed, IsCall, CallFields

\* Failing, and noting the cards on the way, change nothing else.
LEMMA WrittenIs ==
    ASSUME NEW s, NEW t, IsCall(t)
    PROVE  LET u == Written(s, t)
           IN  IsCall(u) /\ u.vol = t.vol /\ u.file = t.file /\ u.ok = t.ok /\ u.out = t.out
  BY DEF Written, IsCall, CallFields

\* cacheFlush: the dirty block goes to the card, a block of the FAT to the second
\* FAT too, unless the cache is stuck.
LEMMA FlushIs ==
    ASSUME NEW s, IsCall(s), CacheOK(s.vol), s.ok
    PROVE  LET t == cacheFlush(s)
           IN  /\ Kept(s, t)
               /\ t.ok = ~Stuck(s.vol)
               /\ t.ok => /\ ~t.vol.cacheDirty_
                          /\ t.vol.cacheBlockNumber_ = s.vol.cacheBlockNumber_
                          /\ t.vol.cacheBuffer_ = s.vol.cacheBuffer_
<1>1. CASE ~s.vol.cacheDirty_
  <2>1. cacheFlush(s) = s /\ ~Stuck(s.vol)
    BY <1>1 DEF cacheFlush, Stuck
  <2>2. QED
    BY <2>1, <1>1, KeptSelf
<1>2. CASE s.vol.cacheDirty_
  <2> DEFINE b == s.vol.cacheBlockNumber_
             x == s.vol.cacheBuffer_
             m == s.vol.cacheMirrorBlock_
             w == writeBlock(s, b, x)
             f == flushed(s)
             t == cacheFlush(s)
  <2>1. f = mirrored(s, w)
    BY DEF flushed
  <2>2. CASE b = NoBlock
    <3>1. IsCall(w) /\ w.file = s.file /\ w.out = s.out /\ w.vol = s.vol /\ w.ok = FALSE
      <4>1. w = Failed(s)
        BY <2>2, Regions DEF writeBlock
      <4>2. QED
        BY <4>1, FailedIs
    <3> HIDE DEF w
    <3>2. f = w
      BY <2>1, <3>1 DEF mirrored
    <3>3. t = f
      BY <1>2, <3>1, <3>2 DEF cacheFlush, Then
    <3>4. QED
      BY <1>2, <2>2, <3>1, <3>2, <3>3 DEF Kept, Stuck
  <2>3. CASE b # NoBlock
    <3>1. b \in SeenBlocks /\ b \in Blocks
      BY <2>3 DEF CacheOK, SeenBlocks
    <3>2. IsCall(w) /\ w.file = s.file /\ w.out = s.out /\ w.ok
          /\ w.vol = [s.vol EXCEPT !.card = [s.vol.card EXCEPT ![b] = x]]
      BY <3>1, WriteBlockIs
    <3>3. w.vol.cacheMirrorBlock_ = m /\ w.vol.cacheBuffer_ = x
      BY <3>2 DEF IsCall, IsVolume, VolumeFields
    <3> DEFINE after == IF b \in FatBlocks
                          THEN [s.vol.card EXCEPT ![b] = x, ![b + blocksPerFat_] = x]
                          ELSE [s.vol.card EXCEPT ![b] = x]
    <3> HIDE DEF w
    <3>4. IsCall(f) /\ f.file = s.file /\ f.out = s.out /\ f.ok
          /\ f.vol = [s.vol EXCEPT !.card = after]
      <4>1. CASE b \notin FatBlocks
        <5>1. m = 0
          BY <4>1 DEF CacheOK
        <5>2. f = w
          BY <2>1, <5>1, <3>3 DEF mirrored
        <5>3. QED
          BY <5>2, <3>2, <4>1
      <4>2. CASE b \in FatBlocks
        <5>1. m = b + blocksPerFat_ /\ m \in Blocks /\ m # 0
          BY <4>2, <1>2, Regions, Geometry DEF CacheOK, FatBlocks, fatStartBlock_
        <5> DEFINE y == writeBlock(w, m, x)
        <5>2. f = Written(s, y)
          BY <2>1, <5>1, <3>2, <3>3 DEF mirrored
        <5> HIDE DEF x, m
        <5>3. IsCall(y) /\ y.file = w.file /\ y.out = w.out /\ y.ok = w.ok
              /\ y.vol = [w.vol EXCEPT !.card = [w.vol.card EXCEPT ![m] = x]]
          <6>1. IsCall(w) /\ m \in Blocks
            BY <5>1, <3>2
          <6> HIDE <3>2, <5>1
          <6>2. QED
            BY <6>1, WriteBlockIs
        <5> HIDE DEF y, f
        <5>4. IsCall(f) /\ f.vol = y.vol /\ f.file = y.file /\ f.ok = y.ok /\ f.out = y.out
          BY <5>2, <5>3, WrittenIs
        <5>5. y.vol = [s.vol EXCEPT !.card = after]
          <6>1. w.vol.card = [s.vol.card EXCEPT ![b] = x]
            BY <3>2 DEF IsCall, IsVolume, VolumeFields
          <6>2. after = [w.vol.card EXCEPT ![m] = x]
            BY <6>1, <5>1, <4>2
          <6>3. QED
            BY <6>2, <5>3, <3>2 DEF IsCall, IsVolume, VolumeFields
        <5>6. QED
          BY <5>3, <5>4, <5>5, <3>2
      <4>3. QED
        BY <4>1, <4>2
    <3> HIDE DEF f, after
    <3>5. t = [f EXCEPT !.vol.cacheMirrorBlock_ = 0, !.vol.cacheDirty_ = FALSE]
      BY <1>2, <3>4 DEF f, cacheFlush, Then
    <3> HIDE DEF t
    <3>6. /\ IsCall(t) /\ t.file = s.file /\ t.out = s.out /\ t.ok
          /\ t.vol.card = after
          /\ t.vol.cacheBlockNumber_ = b /\ t.vol.cacheBuffer_ = x
          /\ t.vol.cacheDirty_ = FALSE /\ t.vol.cacheMirrorBlock_ = 0
          /\ t.vol.allocSearchStart_ = s.vol.allocSearchStart_
      BY <3>4, <3>5 DEF IsCall, IsVolume, CallFields, VolumeFields
    <3>7. /\ after = [c \in Blocks |-> after[c]]
          /\ after[b] = x
          /\ \A c \in SeenBlocks : c # b => after[c] = s.vol.card[c]
          /\ \A c \in FatBlocks : after[c + blocksPerFat_] = after[c]
      <4>1. s.vol.card = [c \in Blocks |-> s.vol.card[c]] /\ b \in Int
        BY <3>1, Geometry DEF CacheOK, Blocks
      <4>2. CASE b \notin FatBlocks
        <5>1. \A c \in FatBlocks : c # b /\ c + blocksPerFat_ # b
          BY <3>1, <4>2, Regions DEF SeenBlocks
        <5>2. QED
          BY <3>1, <4>1, <4>2, <5>1 DEF after, CacheOK, SeenBlocks
      <4>3. CASE b \in FatBlocks
        <5>1. b + blocksPerFat_ \in MirrorBlocks /\ b + blocksPerFat_ \in Blocks
          BY <4>3, Regions
        <5>2. \A c \in FatBlocks : c \notin MirrorBlocks /\ (c + blocksPerFat_ = b + blocksPerFat_ => c = b)
          BY Geometry, Regions, <4>1 DEF FatBlocks, SeenBlocks, fatStartBlock_
        <5>3. \A c \in FatBlocks : c + blocksPerFat_ # b
          BY <3>1, Regions DEF SeenBlocks
        <5>4. after = [s.vol.card EXCEPT ![b] = x, ![b + blocksPerFat_] = x]
          BY <4>3 DEF after
        <5>5. after = [c \in Blocks |-> IF c = b \/ c = b + blocksPerFat_ THEN x ELSE s.vol.card[c]]
          BY <5>4, <4>1, <5>1, <3>1
        <5>6. FatBlocks \subseteq Blocks /\ SeenBlocks \subseteq Blocks /\ \A c \in SeenBlocks : c # b + blocksPerFat_
          BY Regions, <5>1 DEF SeenBlocks
        <5>7. \A c \in FatBlocks : s.vol.card[c + blocksPerFat_] = s.vol.card[c]
          BY DEF CacheOK
        <5>8. \A c \in FatBlocks : c + blocksPerFat_ \in Blocks
          BY Regions
        <5> HIDE DEF after, x, b
        <5>9. QED
          BY <3>1, <5>1, <5>2, <5>3, <5>5, <5>6, <5>7, <5>8
      <4>4. QED
        BY <4>2, <4>3
    <3>8. CacheOK(t.vol)
      <4>1. IsVolume(t.vol)
        BY <3>6 DEF IsCall
      <4> HIDE DEF x, b
      <4>2. QED
        BY <4>1, <3>1, <3>6, <3>7 DEF CacheOK
    <3>9. Seen(t.vol) = Seen(s.vol)
      <4>1. Seen(t.vol) = [c \in SeenBlocks |-> IF c = b THEN x ELSE after[c]]
        BY <3>6, <3>8, SeenIs
      <4>2. Seen(s.vol) = [c \in SeenBlocks |-> IF c = b THEN x ELSE s.vol.card[c]]
        BY SeenIs
      <4>3. QED
        BY <4>1, <4>2, <3>7
    <3>10. ~Stuck(s.vol) /\ ~Stuck(t.vol)
      BY <2>3, <3>6 DEF Stuck
    <3>11. QED
      BY <3>6, <3>8, <3>9, <3>10 DEF Kept, t
  <2>4. QED
    BY <2>2, <2>3
<1>3. QED
  BY <1>1, <1>2 DEF CacheOK

\* A block that comes into the cache.
LEMMA LoadIs ==
    ASSUME NEW s, IsCall(s), CacheOK(s.vol), s.ok, ~s.vol.cacheDirty_,
           NEW b \in SeenBlocks
    PROVE  LET t == [s EXCEPT !.vol.cacheBlockNumber_ = b,
                              !.vol.cacheBuffer_ = s.vol.card[b]]
           IN  /\ Kept(s, t) /\ t.ok
               /\ t.vol.cacheBlockNumber_ = b
               /\ t.vol.cacheBuffer_ = Seen(t.vol)[b]
<1> DEFINE t == [s EXCEPT !.vol.cacheBlockNumber_ = b,
                          !.vol.cacheBuffer_ = s.vol.card[b]]
<1>1. /\ IsCall(t) /\ t.file = s.file /\ t.out = s.out /\ t.ok
      /\ t.vol.card = s.vol.card
      /\ t.vol.cacheBlockNumber_ = b /\ t.vol.cacheBuffer_ = s.vol.card[b]
      /\ t.vol.cacheDirty_ = s.vol.cacheDirty_
      /\ t.vol.cacheMirrorBlock_ = s.vol.cacheMirrorBlock_
      /\ t.vol.allocSearchStart_ = s.vol.allocSearchStart_
  BY DEF IsCall, IsVolume, CallFields, VolumeFields
<1> HIDE DEF t
<1>2. IsVolume(t.vol)
  BY <1>1 DEF IsCall
<1>3. CacheOK(t.vol)
  BY <1>1, <1>2 DEF CacheOK
<1>4. Seen(s.vol) = [c \in SeenBlocks |-> s.vol.card[c]]
  <2>1. s.vol.cacheBlockNumber_ # NoBlock =>
          s.vol.cacheBuffer_ = s.vol.card[s.vol.cacheBlockNumber_]
    BY DEF CacheOK
  <2>2. \A c \in SeenBlocks : c # NoBlock
    BY Regions DEF SeenBlocks
  <2>3. QED
    BY <2>1, <2>2, SeenIs
<1>5. Seen(t.vol) = [c \in SeenBlocks |-> s.vol.card[c]]
  BY <1>1, <1>3, SeenIs
<1>6. ~Stuck(s.vol) /\ ~Stuck(t.vol)
  BY <1>1 DEF Stuck
<1>7. Kept(s, t) /\ t.vol.cacheBuffer_ = Seen(t.vol)[b]
  BY <1>1, <1>3, <1>4, <1>5, <1>6 DEF Kept
<1>8. QED
  BY <1>1, <1>7 DEF t

\* A block that is to be changed: the FAT is marked as changed by fatPut alone.
LEMMA MarkIs ==
    ASSUME NEW s, IsCall(s), CacheOK(s.vol), s.ok, NEW dirty \in BOOLEAN,
           s.vol.cacheBlockNumber_ # NoBlock,
           dirty => s.vol.cacheBlockNumber_ \notin FatBlocks
    PROVE  LET t == [s EXCEPT !.vol.cacheDirty_ = @ \/ dirty]
           IN  /\ Kept(s, t) /\ t.ok
               /\ t.vol.cacheDirty_ = (s.vol.cacheDirty_ \/ dirty)
               /\ t.vol.cacheBlockNumber_ = s.vol.cacheBlockNumber_
               /\ t.vol.cacheBuffer_ = Seen(t.vol)[t.vol.cacheBlockNumber_]
<1> DEFINE t == [s EXCEPT !.vol.cacheDirty_ = @ \/ dirty]
<1>1. /\ IsCall(t) /\ t.file = s.file /\ t.out = s.out /\ t.ok
      /\ t.vol.card = s.vol.card
      /\ t.vol.cacheBlockNumber_ = s.vol.cacheBlockNumber_
      /\ t.vol.cacheBuffer_ = s.vol.cacheBuffer_
      /\ t.vol.cacheDirty_ = (s.vol.cacheDirty_ \/ dirty)
      /\ t.vol.cacheMirrorBlock_ = s.vol.cacheMirrorBlock_
      /\ t.vol.allocSearchStart_ = s.vol.allocSearchStart_
  BY DEF IsCall, IsVolume, CallFields, VolumeFields
<1> HIDE DEF t
<1>2. IsVolume(t.vol)
  BY <1>1 DEF IsCall
<1>3. CacheOK(t.vol)
  BY <1>1, <1>2 DEF CacheOK
<1>4. Seen(t.vol) = Seen(s.vol)
  BY <1>1, <1>3, SeenIs
<1>5. ~Stuck(s.vol) /\ ~Stuck(t.vol)
  BY <1>1 DEF Stuck
<1>6. t.vol.cacheBlockNumber_ \in SeenBlocks
  BY <1>1 DEF CacheOK
<1>7. t.vol.cacheBuffer_ = Seen(t.vol)[t.vol.cacheBlockNumber_]
  BY <1>3, <1>6, SeenIs
<1>8. QED
  BY <1>1, <1>3, <1>4, <1>5, <1>7 DEF Kept, t

\* cacheRawBlock: the block asked for is in the cache, and nothing looks different.
LEMMA RawIs ==
    ASSUME NEW s, IsCall(s), CacheOK(s.vol), s.ok, NEW b \in SeenBlocks,
           NEW dirty \in BOOLEAN, dirty => b \notin FatBlocks
    PROVE  LET t == cacheRawBlock(s, b, dirty)
           IN  /\ Kept(s, t)
               /\ t.ok = ~Stuck(s.vol)
               /\ t.ok => /\ t.vol.cacheBlockNumber_ = b
                          /\ t.vol.cacheBuffer_ = Seen(s.vol)[b]
                          /\ dirty => t.vol.cacheDirty_
<1>1. b \in Blocks /\ b # NoBlock
  BY Regions DEF SeenBlocks
<1> DEFINE u == cacheFlush(s)
           load == [u EXCEPT !.vol.cacheBlockNumber_ = b,
                             !.vol.cacheBuffer_ = u.vol.card[b]]
           loaded == IF b = s.vol.cacheBlockNumber_ THEN s
                     ELSE IF u.ok THEN load ELSE u
           t == cacheRawBlock(s, b, dirty)
<1>2. t = IF loaded.ok THEN [loaded EXCEPT !.vol.cacheDirty_ = @ \/ dirty] ELSE loaded
  BY <1>1 DEF cacheRawBlock, Then
<1>3. /\ Kept(s, loaded) /\ loaded.ok = ~Stuck(s.vol)
      /\ loaded.ok => loaded.vol.cacheBlockNumber_ = b
  <2>1. CASE b = s.vol.cacheBlockNumber_
    BY <2>1, <1>1, KeptSelf DEF Stuck
  <2>2. CASE b # s.vol.cacheBlockNumber_
    <3>1. /\ Kept(s, u) /\ u.ok = ~Stuck(s.vol)
          /\ u.ok => ~u.vol.cacheDirty_
      BY FlushIs
    <3> HIDE DEF u
    <3>2. CASE u.ok
      <4>1. IsCall(u) /\ CacheOK(u.vol) /\ ~u.vol.cacheDirty_
        BY <3>1, <3>2 DEF Kept
      <4>2. Kept(u, load) /\ load.ok /\ load.vol.cacheBlockNumber_ = b
        BY <4>1, <3>2, LoadIs
      <4> HIDE DEF load
      <4>3. QED
        BY <2>2, <3>1, <3>2, <4>2, KeptTrans
    <3>3. CASE ~u.ok
      BY <2>2, <3>1, <3>3
    <3>4. QED
      BY <3>2, <3>3
  <2>3. QED
    BY <2>1, <2>2
<1> HIDE DEF loaded, t
<1>4. CASE loaded.ok
  <2> DEFINE m == [loaded EXCEPT !.vol.cacheDirty_ = @ \/ dirty]
  <2>1. /\ IsCall(loaded) /\ CacheOK(loaded.vol) /\ loaded.vol.cacheBlockNumber_ = b
        /\ loaded.vol.cacheDirty_ \in BOOLEAN
    BY <1>3, <1>4 DEF Kept, CacheOK
  <2>2. /\ Kept(loaded, m) /\ m.ok /\ m.vol.cacheDirty_ = (loaded.vol.cacheDirty_ \/ dirty)
        /\ m.vol.cacheBlockNumber_ = b /\ m.vol.cacheBuffer_ = Seen(m.vol)[b]
    BY <2>1, <1>1, <1>4, MarkIs
  <2>3. t = m
    BY <1>2, <1>4
  <2> HIDE DEF m
  <2>4. Kept(s, m) /\ Seen(m.vol) = Seen(s.vol)
    BY <1>3, <2>2, KeptTrans DEF Kept
  <2>5. m.ok = TRUE /\ loaded.ok = TRUE
    BY <2>1, <2>2, <1>4 DEF Kept, IsCall
  <2>6. QED
    BY <1>3, <2>2, <2>3, <2>4, <2>5 DEF t
<1>5. CASE ~loaded.ok
  <2>1. t = loaded
    BY <1>2, <1>5
  <2>2. QED
    BY <2>1, <1>3, <1>5 DEF t
<1>6. QED
  BY <1>4, <1>5

\* A volume with another buffer: it is for block b, and nothing else of the
\* card is lost with the old one.
Stored(v, w, b) ==
    /\ CacheOK(v) /\ IsVolume(w) /\ b \in SeenBlocks
    /\ w.card = v.card /\ w.cacheBlockNumber_ = b /\ w.cacheDirty_ = TRUE
    /\ v.cacheBlockNumber_ = b \/ ~v.cacheDirty_
    /\ w.cacheMirrorBlock_ = IF b \in FatBlocks THEN b + blocksPerFat_ ELSE 0

\* A change of the buffer is a change of what the program sees.
LEMMA StoreIs ==
    ASSUME NEW v, NEW w, NEW b, Stored(v, w, b)
    PROVE  /\ CacheOK(w) /\ ~Stuck(w)
           /\ Seen(w) = [Seen(v) EXCEPT ![b] = w.cacheBuffer_]
<1>1. b # NoBlock
  BY Regions DEF SeenBlocks, Stored
<1>2. CacheOK(w) /\ ~Stuck(w)
  BY <1>1 DEF CacheOK, Stuck, Stored
<1>3. Seen(w) = [c \in SeenBlocks |-> IF c = b THEN w.cacheBuffer_ ELSE v.card[c]]
  BY <1>2, SeenIs DEF Stored
<1>4. \A c \in SeenBlocks : c # b => Seen(v)[c] = v.card[c]
  <2>1. CASE v.cacheBlockNumber_ = b
    BY <2>1, SeenIs DEF Stored
  <2>2. CASE ~v.cacheDirty_
    <3>1. v.cacheBlockNumber_ # NoBlock => v.cacheBuffer_ = v.card[v.cacheBlockNumber_]
      BY <2>2 DEF CacheOK, Stored
    <3>2. \A c \in SeenBlocks : c # NoBlock
      BY Regions DEF SeenBlocks
    <3>3. QED
      BY <3>1, <3>2, SeenIs DEF Stored
  <2>3. QED
    BY <2>1, <2>2 DEF Stored
<1>5. DOMAIN Seen(v) = SeenBlocks
  BY SeenIs DEF Stored
<1>6. QED
  BY <1>2, <1>3, <1>4, <1>5 DEF Seen

----------------------------------------------------------------------------
(* The file allocation table *)

EntryFields == {"name", "firstCluster", "fileSize"}
IsEntry(e)  == e = [x \in EntryFields |-> e[x]]
FatDomain(b) == (b - fatStartBlock_) * EntriesPerBlock ..
                (b - fatStartBlock_ + 1) * EntriesPerBlock - 1

\* What the program sees is a FAT and a directory.
WellFormed(x) ==
    /\ DOMAIN x = SeenBlocks
    /\ \A b \in FatBlocks : x[b] = [c \in FatDomain(b) |-> x[b][c]]
    /\ x[rootDirStart_] = [i \in 1 .. DirSlots |-> x[rootDirStart_][i]]
    /\ \A i \in 1 .. DirSlots : IsEntry(x[rootDirStart_][i])

Fat(x) == [c \in Clusters |-> x[fatBlock(c)][c]]
Dir(x) == x[rootDirStart_]
SameRest(x, y) == \A b \in SeenBlocks \ FatBlocks : x[b] = y[b]
SameFat(x, y)  == \A b \in FatBlocks : x[b] = y[b]

\* An entry of the FAT is in its block.
LEMMA InItsBlock ==
    ASSUME NEW c \in Clusters PROVE c \in FatDomain(fatBlock(c))
<1> DEFINE e == EntriesPerBlock  p == c \div e
<1>1. c \in Nat /\ e \in Nat \ {0}
  BY DEF Clusters
<1>2. p \in Int /\ e * p <= c /\ c < e * p + e
  BY <1>1, Z3
<1>3. fatBlock(c) - fatStartBlock_ = p
  BY <1>2 DEF fatBlock, fatStartBlock_
<1> HIDE DEF p
<1>4. p * e <= c /\ c <= (p + 1) * e - 1 /\ (p + 1) * e - 1 \in Int /\ p * e \in Int
  BY <1>1, <1>2, Z3
<1>5. fatBlock(c) - fatStartBlock_ + 1 = p + 1
  BY <1>2, <1>3
<1>6. QED
  BY <1>1, <1>3, <1>4, <1>5 DEF FatDomain

\* Like Kept, for a call with a result.
Looked(s, t) ==
    /\ IsCall(t) /\ CacheOK(t.vol)
    /\ t.file = s.file
    /\ t.vol.allocSearchStart_ = s.vol.allocSearchStart_
    /\ Seen(t.vol) = Seen(s.vol)
    /\ Stuck(s.vol) => t.vol = s.vol
    /\ Stuck(t.vol) => Stuck(s.vol)

\* fatGet returns the entry.
LEMMA FatGetIs ==
    ASSUME NEW s, IsCall(s), CacheOK(s.vol), s.ok, NEW c \in Clusters
    PROVE  LET t == fatGet(s, c)
           IN  /\ Looked(s, t)
               /\ t.ok = ~Stuck(s.vol)
               /\ t.ok => t.out = Fat(Seen(s.vol))[c]
<1> DEFINE u == cacheRawBlock(s, fatBlock(c), FALSE)
           t == fatGet(s, c)
<1>1. fatBlock(c) \in SeenBlocks
  BY Geometry, Regions
<1>2. /\ Kept(s, u) /\ u.ok = ~Stuck(s.vol)
      /\ u.ok => u.vol.cacheBuffer_ = Seen(s.vol)[fatBlock(c)]
  BY <1>1, RawIs
<1>3. t = IF u.ok THEN [u EXCEPT !.out = u.vol.cacheBuffer_[c]] ELSE u
  <2>1. ~(c > clusterCount_ + 1)
    BY DEF Clusters
  <2>2. QED
    BY <2>1 DEF fatGet, Then
<1> HIDE DEF u, t
<1>4. CASE u.ok
  <2>1. IsCall(t) /\ t.vol = u.vol /\ t.file = u.file /\ t.ok = u.ok
        /\ t.out = u.vol.cacheBuffer_[c]
    BY <1>2, <1>3, <1>4 DEF Kept, IsCall, CallFields
  <2>2. QED
    BY <2>1, <1>2, <1>4 DEF Kept, Looked, Fat, t
<1>5. CASE ~u.ok
  BY <1>2, <1>3, <1>5 DEF Kept, Looked, t
<1>6. QED
  BY <1>4, <1>5

\* A call that has changed the FAT alone.
FatTo(s, t, fat) ==
    /\ IsCall(t) /\ CacheOK(t.vol) /\ WellFormed(Seen(t.vol))
    /\ t.file = s.file
    /\ t.vol.allocSearchStart_ = s.vol.allocSearchStart_
    /\ Fat(Seen(t.vol)) = fat
    /\ SameRest(Seen(s.vol), Seen(t.vol))
    /\ ~Stuck(t.vol)

\* fatPut changes the one entry.
LEMMA FatPutIs ==
    ASSUME NEW s, IsCall(s), CacheOK(s.vol), s.ok, WellFormed(Seen(s.vol)),
           NEW c \in Clusters, NEW value
    PROVE  LET t == fatPut(s, c, value)
           IN  /\ t.ok = ~Stuck(s.vol)
               /\ ~t.ok => Kept(s, t)
               /\ t.ok => /\ FatTo(s, t, [Fat(Seen(s.vol)) EXCEPT ![c] = value])
                          /\ t.out = s.out
<1> DEFINE b == fatBlock(c)
           u == cacheRawBlock(s, b, FALSE)
           t == fatPut(s, c, value)
<1>1. b \in SeenBlocks /\ b \in FatBlocks
  BY Geometry, Regions
<1>2. /\ Kept(s, u) /\ u.ok = ~Stuck(s.vol)
      /\ u.ok => /\ u.vol.cacheBlockNumber_ = b
                 /\ u.vol.cacheBuffer_ = Seen(s.vol)[b]
  BY <1>1, RawIs
<1>3. t = IF u.ok THEN [u EXCEPT !.vol.cacheBuffer_[c] = value,
                                 !.vol.cacheDirty_ = TRUE,
                                 !.vol.cacheMirrorBlock_ = b + blocksPerFat_]
          ELSE u
  BY DEF fatPut, Then
<1> HIDE DEF u, t
<1>4. CASE u.ok
  <2> DEFINE x == Seen(s.vol)  y == Seen(t.vol)
  <2>1. IsCall(u) /\ CacheOK(u.vol) /\ Seen(u.vol) = x /\ u.file = s.file
        /\ u.out = s.out /\ u.vol.allocSearchStart_ = s.vol.allocSearchStart_
    BY <1>2 DEF Kept
  <2>2. /\ IsCall(t) /\ t.file = u.file /\ t.out = u.out /\ t.ok = u.ok
        /\ t.vol.card = u.vol.card
        /\ t.vol.cacheBlockNumber_ = u.vol.cacheBlockNumber_
        /\ t.vol.cacheBuffer_ = [u.vol.cacheBuffer_ EXCEPT ![c] = value]
        /\ t.vol.cacheDirty_ = TRUE
        /\ t.vol.cacheMirrorBlock_ = b + blocksPerFat_
        /\ t.vol.allocSearchStart_ = u.vol.allocSearchStart_
    BY <2>1, <1>3, <1>4 DEF IsCall, IsVolume, CallFields, VolumeFields
  <2>3. IsVolume(t.vol)
    BY <2>2 DEF IsCall
  <2>4. /\ CacheOK(t.vol) /\ ~Stuck(t.vol)
        /\ y = [x EXCEPT ![b] = t.vol.cacheBuffer_]
    <3> DEFINE v == u.vol  w == t.vol
    <3>1. /\ CacheOK(v) /\ IsVolume(w) /\ w.card = v.card
          /\ w.cacheBlockNumber_ = b /\ w.cacheDirty_ = TRUE
          /\ v.cacheBlockNumber_ = b
          /\ w.cacheMirrorBlock_ = IF b \in FatBlocks THEN b + blocksPerFat_ ELSE 0
      BY <2>1, <2>2, <2>3, <1>1, <1>2, <1>4
    <3> HIDE DEF b, v, w
    <3>2. Stored(v, w, b)
      BY <3>1, <1>1 DEF Stored
    <3>3. CacheOK(w) /\ ~Stuck(w) /\ Seen(w) = [Seen(v) EXCEPT ![b] = w.cacheBuffer_]
      BY <3>2, StoreIs
    <3>4. QED
      BY <3>3, <2>1 DEF v, w
  <2>5. DOMAIN x = SeenBlocks /\ x[b] = [d \in FatDomain(b) |-> x[b][d]]
    BY <1>1 DEF WellFormed
  <2>6. y[b] = [d \in FatDomain(b) |-> IF d = c THEN value ELSE x[b][d]]
    BY <2>2, <2>4, <2>5, <1>1, <1>2, <1>4
  <2>7. \A d \in SeenBlocks : d # b => y[d] = x[d]
    BY <2>4, <2>5
  <2>8. DOMAIN y = SeenBlocks
    BY <2>4, <2>5
  <2> HIDE DEF x, y
  <2>9. rootDirStart_ \in SeenBlocks \ FatBlocks /\ FatBlocks \subseteq SeenBlocks
    BY Regions
  <2>10. WellFormed(y)
    <3>1. \A d \in FatBlocks : y[d] = [e \in FatDomain(d) |-> y[d][e]]
      BY <2>6, <2>7, <2>9 DEF WellFormed, x
    <3>2. y[rootDirStart_] = x[rootDirStart_]
      BY <2>7, <2>9, <1>1
    <3>3. QED
      BY <3>1, <3>2, <2>8 DEF WellFormed, x
  <2>11. Fat(y) = [Fat(x) EXCEPT ![c] = value]
    <3>1. ASSUME NEW d \in Clusters
          PROVE  y[fatBlock(d)][d] = IF d = c THEN value ELSE x[fatBlock(d)][d]
      <4>1. d \in FatDomain(fatBlock(d)) /\ fatBlock(d) \in SeenBlocks
        BY InItsBlock, Geometry, <2>9
      <4>2. CASE fatBlock(d) = b
        <5>1. d \in FatDomain(b)
          BY <4>1, <4>2
        <5>2. QED
          BY <5>1, <4>2, <2>6
      <4>3. CASE fatBlock(d) # b
        BY <4>1, <4>3, <2>7
      <4>4. QED
        BY <4>2, <4>3
    <3>2. QED
      BY <3>1 DEF Fat
  <2>12. SameRest(x, y)
    BY <2>7, <1>1 DEF SameRest
  <2>13. QED
    BY <2>1, <2>2, <2>4, <2>10, <2>11, <2>12, <1>2, <1>4 DEF FatTo, t, x, y
<1>5. CASE ~u.ok
  BY <1>2, <1>3, <1>5 DEF t
<1>6. QED
  BY <1>4, <1>5

----------------------------------------------------------------------------
(* Induction *)

\* Induction over the naturals for a set: the library's theorem takes an operator.
LEMMA SetInduction ==
    ASSUME NEW S, 0 \in S, \A n \in Nat : n \in S => n + 1 \in S
    PROVE  Nat \subseteq S
<1> DEFINE T == Nat \ S
           R == OpToRel(<, Nat)
<1>1. SUFFICES ASSUME T # {} PROVE FALSE
  OBVIOUS
<1>2. IsWellFoundedOn(R, Nat)
  BY NatLessThanWellFounded
<1>3. PICK x \in T : \A y \in T : ~(<<y, x>> \in R)
  <2> HIDE DEF R, T
  <2>1. T \subseteq Nat
    BY DEF T
  <2>2. QED
    BY <1>1, <1>2, <2>1, WFMin
<1>4. x # 0 /\ x - 1 \in Nat /\ x - 1 < x
  OBVIOUS
<1>5. x - 1 \notin T
  <2>1. <<x - 1, x>> \in Nat \X Nat
    BY <1>4
  <2>2. <<x - 1, x>>[1] < <<x - 1, x>>[2]
    BY <1>4
  <2>3. QED
    BY <1>3, <1>4, <2>1, <2>2 DEF OpToRel
<1>6. x \in S
  <2>1. x - 1 \in S
    BY <1>4, <1>5
  <2>2. QED
    BY <1>4, <2>1
<1>7. QED
  BY <1>6

----------------------------------------------------------------------------
(* The chains of clusters *)

\* The clusters of every name, in their order.
Chained(fat, q) ==
    /\ q \in [Name -> Seq(Clusters)]
    /\ fat \in [Clusters -> Clusters \cup {FREE, EOC}]
    /\ \A n \in Name : \A i \in 1 .. Len(q[n]) :
          fat[q[n][i]] = IF i < Len(q[n]) THEN q[n][i + 1] ELSE EOC
    /\ \A n, m \in Name : \A i \in 1 .. Len(q[n]), j \in 1 .. Len(q[m]) :
          q[n][i] = q[m][j] => n = m /\ i = j

\* No cluster is mistaken for a free entry or for an end of chain: this is where
\* the limit of FAT16 is needed.
LEMMA Values ==
    /\ FREE \notin Clusters /\ EOC \notin Clusters /\ 0 \notin Clusters
    /\ FREE # EOC /\ isEOC(EOC) /\ ~isEOC(FREE)
    /\ \A c \in Clusters : ~isEOC(c) /\ ~(c > clusterCount_ + 1) /\ c \in Nat
    /\ Clusters # {}
<1>1. /\ FREE = 0 /\ EOC \in Int /\ EOC > Fat16Limit + 1 /\ EOC > 65528
      /\ Fat16Limit \in Int /\ 65528 > Fat16Limit
  BY Z3 DEF FREE, EOC, Fat16Limit
<1>2. /\ FREE # EOC /\ isEOC(EOC) /\ ~isEOC(FREE)
  BY <1>1, Z3 DEF isEOC
<1>3. ASSUME NEW c \in Clusters
      PROVE  c \in Nat /\ c > 1 /\ c <= clusterCount_ + 1 /\ c <= Fat16Limit
  BY <1>1, Z3 DEF Clusters
<1>4. \A c \in Clusters : ~isEOC(c) /\ c # EOC /\ c # 0
  BY <1>1, <1>3, Z3 DEF isEOC
<1>5. 2 \in Clusters
  BY DEF Clusters
<1>6. \A c \in Clusters : ~(c > clusterCount_ + 1)
  BY <1>3
<1>7. QED
  BY <1>1, <1>2, <1>3, <1>4, <1>5, <1>6

\* A chain is no longer than the volume: its clusters are distinct.
LEMMA ChainFits ==
    ASSUME NEW fat, NEW q, Chained(fat, q), NEW n \in Name
    PROVE  Len(q[n]) \in 0 .. clusterCount_
<1>1. q[n] \in Seq(Clusters) /\ Len(q[n]) \in Nat
  BY DEF Chained
<1> DEFINE S == 1 .. Len(q[n])
           f == [i \in S |-> q[n][i]]
<1>2. IsFiniteSet(Clusters) /\ Cardinality(Clusters) = clusterCount_
  BY FS_Interval DEF Clusters
<1>3. f \in Injection(S, Clusters)
  <2>1. \A i \in S : q[n][i] \in Clusters
    BY <1>1
  <2>2. \A i, j \in S : f[i] = f[j] => i = j
    BY DEF Chained
  <2>3. QED
    BY <2>1, <2>2 DEF Injection, IsInjective
<1>4. Cardinality(S) = Len(q[n])
  BY <1>1, FS_Interval
<1> HIDE DEF S, f
<1>5. Cardinality(S) <= Cardinality(Clusters)
  BY <1>2, <1>3, FS_Injection
<1>6. QED
  BY <1>1, <1>2, <1>4, <1>5

\* A free cluster is put behind the last one of a chain, or begins it.
LEMMA ChainExtended ==
    ASSUME NEW fat, NEW q, Chained(fat, q), NEW n \in Name,
           NEW c \in Clusters, fat[c] = FREE
    PROVE  LET begun == [fat EXCEPT ![c] = EOC]
               last  == q[n][Len(q[n])]
           IN  Chained(IF q[n] = <<>> THEN begun ELSE [begun EXCEPT ![last] = c],
                       [q EXCEPT ![n] = Append(q[n], c)])
<1> DEFINE begun == [fat EXCEPT ![c] = EOC]
           last  == q[n][Len(q[n])]
           new   == IF q[n] = <<>> THEN begun ELSE [begun EXCEPT ![last] = c]
           q2    == [q EXCEPT ![n] = Append(q[n], c)]
<1>1. q \in [Name -> Seq(Clusters)] /\ q[n] \in Seq(Clusters) /\ Len(q[n]) \in Nat
  BY DEF Chained
<1>2. \A m \in Name : \A i \in 1 .. Len(q[m]) : q[m][i] \in Clusters /\ q[m][i] # c
  <2>1. SUFFICES ASSUME NEW m \in Name, NEW i \in 1 .. Len(q[m])
                 PROVE  q[m][i] \in Clusters /\ q[m][i] # c
    OBVIOUS
  <2>2. /\ q[m] \in Seq(Clusters) /\ Len(q[m]) \in Nat
        /\ fat[q[m][i]] = IF i < Len(q[m]) THEN q[m][i + 1] ELSE EOC
    BY <1>1 DEF Chained
  <2>3. q[m][i] \in Clusters /\ (i < Len(q[m]) => q[m][i + 1] \in Clusters)
    BY <2>2
  <2>4. QED
    BY <2>2, <2>3, Values
<1>3. /\ q2 \in [Name -> Seq(Clusters)]
      /\ \A m \in Name : m # n => q2[m] = q[m]
      /\ Len(q2[n]) = Len(q[n]) + 1
      /\ q2[n][Len(q[n]) + 1] = c
      /\ \A i \in 1 .. Len(q[n]) : q2[n][i] = q[n][i]
  BY <1>1
<1>4. q[n] # <<>> => Len(q[n]) \in 1 .. Len(q[n])
  BY <1>1
<1>5. fat \in [Clusters -> Clusters \cup {FREE, EOC}]
  BY DEF Chained
<1>6. /\ new \in [Clusters -> Clusters \cup {FREE, EOC}]
      /\ new[c] = EOC
      /\ q[n] # <<>> => new[last] = c
      /\ \A d \in Clusters : d # c /\ (q[n] = <<>> \/ d # last) => new[d] = fat[d]
  BY <1>2, <1>4, <1>5
<1>7. q[n] = <<>> <=> Len(q[n]) = 0
  BY <1>1
<1> HIDE DEF new, q2
<1>8. ASSUME NEW m \in Name, NEW i \in 1 .. Len(q2[m])
      PROVE  new[q2[m][i]] = IF i < Len(q2[m]) THEN q2[m][i + 1] ELSE EOC
  <2>1. CASE m # n
    <3>1. q2[m] = q[m] /\ i \in 1 .. Len(q[m])
      BY <1>3, <2>1
    <3>2. q[m][i] # c /\ q[m][i] \in Clusters
      BY <1>2, <3>1
    <3>3. q[n] # <<>> => q[m][i] # last
      BY <1>4, <2>1, <3>1 DEF Chained
    <3>4. new[q[m][i]] = fat[q[m][i]]
      BY <1>6, <3>2, <3>3
    <3>5. QED
      BY <3>1, <3>4 DEF Chained
  <2>2. CASE m = n /\ i = Len(q[n]) + 1
    BY <2>2, <1>3, <1>6, <1>1
  <2>3. CASE m = n /\ i # Len(q[n]) + 1
    <3>1. i \in 1 .. Len(q[n]) /\ i < Len(q2[n]) /\ q2[n][i] = q[n][i]
      BY <2>3, <1>1, <1>3
    <3>2. CASE i = Len(q[n])
      BY <3>1, <3>2, <2>3, <1>1, <1>3, <1>6, <1>7
    <3>3. CASE i # Len(q[n])
      <4>1. i + 1 \in 1 .. Len(q[n]) /\ i < Len(q[n])
        BY <3>1, <3>3, <1>1
      <4>2. q[n][i] # last
        <5>1. i \in 1 .. Len(q[n]) /\ Len(q[n]) \in 1 .. Len(q[n])
          BY <3>1, <1>4, <1>7, <1>1
        <5>2. QED
          BY <5>1, <3>3 DEF Chained
      <4>3. new[q[n][i]] = fat[q[n][i]]
        BY <4>2, <3>1, <1>2, <1>6
      <4>4. fat[q[n][i]] = q[n][i + 1]
        BY <3>1, <4>1 DEF Chained
      <4>5. QED
        BY <2>3, <3>1, <4>1, <4>3, <4>4, <1>3
    <3>4. QED
      BY <3>2, <3>3
  <2>4. QED
    BY <2>1, <2>2, <2>3
<1>9. ASSUME NEW m \in Name, NEW k \in Name,
             NEW i \in 1 .. Len(q2[m]), NEW j \in 1 .. Len(q2[k]),
             q2[m][i] = q2[k][j]
      PROVE  m = k /\ i = j
  <2>1. \A p \in Name : \A h \in 1 .. Len(q2[p]) :
            IF p = n /\ h = Len(q[n]) + 1 THEN q2[p][h] = c
            ELSE h \in 1 .. Len(q[p]) /\ q2[p][h] = q[p][h] /\ q[p][h] # c
    <3>1. SUFFICES ASSUME NEW p \in Name, NEW h \in 1 .. Len(q2[p])
                   PROVE  IF p = n /\ h = Len(q[n]) + 1 THEN q2[p][h] = c
                          ELSE /\ h \in 1 .. Len(q[p])
                               /\ q2[p][h] = q[p][h] /\ q[p][h] # c
      OBVIOUS
    <3>2. CASE p = n
      BY <3>2, <1>1, <1>2, <1>3
    <3>3. CASE p # n
      BY <3>3, <1>2, <1>3
    <3>4. QED
      BY <3>2, <3>3
  <2>2. CASE m = n /\ i = Len(q[n]) + 1
    BY <2>1, <2>2, <1>9
  <2>3. CASE k = n /\ j = Len(q[n]) + 1
    BY <2>1, <2>3, <1>9
  <2>4. CASE ~(m = n /\ i = Len(q[n]) + 1) /\ ~(k = n /\ j = Len(q[n]) + 1)
    <3>1. /\ i \in 1 .. Len(q[m]) /\ j \in 1 .. Len(q[k])
          /\ q[m][i] = q[k][j]
      BY <2>1, <2>4, <1>9
    <3>2. QED
      BY <3>1 DEF Chained
  <2>5. QED
    BY <2>2, <2>3, <2>4
<1>10. Chained(new, q2)
  BY <1>3, <1>6, <1>8, <1>9 DEF Chained
<1>11. QED
  BY <1>10 DEF new, q2

\* All clusters of a chain are given back.
LEMMA ChainDropped ==
    ASSUME NEW fat, NEW q, Chained(fat, q), NEW n \in Name,
           NEW new \in [Clusters -> Clusters \cup {FREE, EOC}],
           \A m \in Name \ {n} : \A i \in 1 .. Len(q[m]) : new[q[m][i]] = fat[q[m][i]]
    PROVE  Chained(new, [q EXCEPT ![n] = <<>>])
<1> DEFINE q2 == [q EXCEPT ![n] = <<>>]
<1>1. /\ q2 \in [Name -> Seq(Clusters)]
      /\ \A m \in Name : m # n => q2[m] = q[m]
      /\ Len(q2[n]) = 0
  BY DEF Chained
<1> HIDE DEF q2
<1>2. \A m \in Name : \A i \in 1 .. Len(q2[m]) : m # n /\ q2[m] = q[m]
  BY <1>1
<1>3. Chained(new, q2)
  BY <1>1, <1>2 DEF Chained
<1>4. QED
  BY <1>3 DEF q2

----------------------------------------------------------------------------
(* Allocation *)

\* The state of a call with the chains q on its card.
Sound(s, q) ==
    /\ IsCall(s) /\ CacheOK(s.vol) /\ WellFormed(Seen(s.vol))
    /\ s.vol.allocSearchStart_ \in 2 .. clusterCount_ + 2
    /\ Chained(Fat(Seen(s.vol)), q)

\* Nothing has changed but the cache.
Idle(s, t) ==
    /\ t.file = s.file /\ Seen(t.vol) = Seen(s.vol)
    /\ Stuck(t.vol) <=> Stuck(s.vol)

\* Looking and caching keep the invariant of a call.
LEMMA LookedSound ==
    ASSUME NEW s, NEW t, NEW q, Sound(s, q), Looked(s, t)
    PROVE  Sound(t, q) /\ Idle(s, t)
  BY DEF Sound, Looked, Idle, Stuck, CacheOK

LEMMA KeptSound ==
    ASSUME NEW s, NEW t, NEW q, Sound(s, q), Kept(s, t)
    PROVE  Sound(t, q) /\ Idle(s, t)
  BY DEF Sound, Kept, Idle, Stuck, CacheOK

\* The search tries clusters only.
LEMMA TriedIs ==
    ASSUME NEW s, s.vol.allocSearchStart_ \in 2 .. clusterCount_ + 2,
           s.file.curCluster_ \in Clusters \cup {0}, NEW n \in 0 .. clusterCount_ - 1
    PROVE  Tried(s, n) \in Clusters
  BY DEF Tried, SearchStart, Clusters

\* allocContiguous marks the cluster it takes and links it behind the current one.
LEMMA TakeClusterIs ==
    ASSUME NEW s, IsCall(s), CacheOK(s.vol), WellFormed(Seen(s.vol)), s.ok,
           ~Stuck(s.vol), NEW c \in Clusters, s.file.curCluster_ \in Clusters \cup {0}
    PROVE  LET t     == TakeCluster(s, c)
               cur   == s.file.curCluster_
               begun == [Fat(Seen(s.vol)) EXCEPT ![c] = EOC]
           IN  /\ t.ok
               /\ IsCall(t) /\ CacheOK(t.vol) /\ WellFormed(Seen(t.vol))
               /\ ~Stuck(t.vol)
               /\ t.file = [s.file EXCEPT !.curCluster_ = c]
               /\ t.vol.allocSearchStart_ =
                     IF cur = 0 THEN c + 1 ELSE s.vol.allocSearchStart_
               /\ SameRest(Seen(s.vol), Seen(t.vol))
               /\ Fat(Seen(t.vol)) = IF cur = 0 THEN begun ELSE [begun EXCEPT ![cur] = c]
<1> DEFINE t     == TakeCluster(s, c)
           cur   == s.file.curCluster_
           begun == [Fat(Seen(s.vol)) EXCEPT ![c] = EOC]
           u     == fatPut(s, c, EOC)
           v     == IF u.file.curCluster_ = 0 THEN u ELSE fatPut(u, u.file.curCluster_, c)
<1>1. u.ok /\ FatTo(s, u, begun)
  BY FatPutIs
<1>2. IsCall(u) /\ CacheOK(u.vol) /\ WellFormed(Seen(u.vol)) /\ u.file = s.file
      /\ ~Stuck(u.vol) /\ Fat(Seen(u.vol)) = begun
      /\ u.vol.allocSearchStart_ = s.vol.allocSearchStart_
      /\ SameRest(Seen(s.vol), Seen(u.vol))
  BY <1>1 DEF FatTo
<1> HIDE DEF u, begun
<1>3. /\ v.ok /\ IsCall(v) /\ CacheOK(v.vol) /\ WellFormed(Seen(v.vol))
      /\ v.file = s.file /\ ~Stuck(v.vol)
      /\ v.vol.allocSearchStart_ = s.vol.allocSearchStart_
      /\ SameRest(Seen(s.vol), Seen(v.vol))
      /\ Fat(Seen(v.vol)) = IF cur = 0 THEN begun ELSE [begun EXCEPT ![cur] = c]
  <2>1. CASE cur = 0
    BY <1>1, <1>2, <2>1
  <2>2. CASE cur # 0
    <3> DEFINE w == fatPut(u, cur, c)
    <3>1. cur \in Clusters
      BY <2>2
    <3>2. w.ok /\ FatTo(u, w, [begun EXCEPT ![cur] = c])
      BY <3>1, <1>1, <1>2, FatPutIs
    <3>3. v = w
      BY <2>2, <1>2
    <3> HIDE DEF w, v
    <3>4. SameRest(Seen(s.vol), Seen(w.vol))
      BY <3>2, <1>2 DEF FatTo, SameRest
    <3>5. QED
      BY <2>2, <3>2, <3>3, <3>4, <1>2 DEF FatTo
  <2>3. QED
    BY <2>1, <2>2
<1>4. t = [v EXCEPT !.file.curCluster_ = c,
                    !.vol.allocSearchStart_ =
                        IF s.file.curCluster_ = 0 THEN c + 1 ELSE @]
  BY <1>1, <1>3 DEF TakeCluster, Then, u
<1> HIDE DEF v, t
<1> DEFINE after == IF cur = 0 THEN c + 1 ELSE v.vol.allocSearchStart_
<1>5. /\ IsCall(t) /\ t.ok = v.ok
      /\ t.file = [v.file EXCEPT !.curCluster_ = c]
      /\ t.vol = [v.vol EXCEPT !.allocSearchStart_ = after]
  <2> DEFINE file == [v.file EXCEPT !.curCluster_ = c]
             vol  == [v.vol EXCEPT !.allocSearchStart_ = after]
  <2>1. IsFile(file) /\ IsVolume(vol) /\ v = [x \in CallFields |-> v[x]] /\ v.ok \in BOOLEAN
    BY <1>3 DEF IsCall, IsVolume, IsFile, VolumeFields, FileFields
  <2>2. t = [v EXCEPT !.file = file, !.vol = vol]
    BY <1>4, <2>1 DEF CallFields
  <2> HIDE DEF file, vol
  <2>3. IsCall(t) /\ t.ok = v.ok /\ t.file = file /\ t.vol = vol
    BY <2>1, <2>2 DEF IsCall, CallFields
  <2>4. QED
    BY <2>3 DEF file, vol
<1>6. /\ t.vol.card = v.vol.card
      /\ t.vol.cacheBlockNumber_ = v.vol.cacheBlockNumber_
      /\ t.vol.cacheBuffer_ = v.vol.cacheBuffer_
      /\ t.vol.cacheDirty_ = v.vol.cacheDirty_
      /\ t.vol.cacheMirrorBlock_ = v.vol.cacheMirrorBlock_
      /\ t.vol.allocSearchStart_ = after
  BY <1>3, <1>5 DEF IsCall, IsVolume, VolumeFields
<1>7. IsVolume(t.vol)
  BY <1>5 DEF IsCall
<1>8. CacheOK(t.vol) /\ ~Stuck(t.vol)
  BY <1>3, <1>6, <1>7 DEF CacheOK, Stuck
<1>9. Seen(t.vol) = Seen(v.vol)
  BY <1>3, <1>6, <1>8, SeenIs
<1>10. QED
  BY <1>3, <1>5, <1>6, <1>8, <1>9 DEF t, begun

\* allocContiguous: the chain of the file is one free cluster longer, or nothing
\* has happened.
LEMMA AllocIs ==
    ASSUME NEW s, NEW q, Sound(s, q), s.ok, NEW n \in Name,
           s.file.curCluster_ = IF q[n] = <<>> THEN 0 ELSE q[n][Len(q[n])]
    PROVE  LET t == allocContiguous(s)
           IN  /\ IsCall(t)
               /\ ~t.ok => Sound(t, q) /\ Idle(s, t)
               /\ t.ok => \E c \in Clusters :
                     /\ Sound(t, [q EXCEPT ![n] = Append(q[n], c)])
                     /\ t.file = [s.file EXCEPT !.curCluster_ = c]
                     /\ SameRest(Seen(s.vol), Seen(t.vol))
                     /\ ~Stuck(s.vol) /\ ~Stuck(t.vol)
                     /\ \A d \in Clusters : d # c /\ Fat(Seen(t.vol))[d] # FREE =>
                           Fat(Seen(s.vol))[d] # FREE
<1> DEFINE free == {m \in 0 .. clusterCount_ - 1 :
                       FatEntry(View(s.vol), Tried(s, m)) = FREE}
           last == IF free = {} THEN clusterCount_ - 1
                   ELSE CHOOSE m \in free : \A k \in free : m <= k
           c    == Tried(s, last)
           t1   == fatGet(s, Tried(s, 0))
           t2   == fatGet(t1, c)
           t    == allocContiguous(s)
           fat  == Fat(Seen(s.vol))
<1>1. t = IF t1.ok
            THEN IF t2.ok
                   THEN IF t2.out = FREE THEN TakeCluster(t2, c) ELSE Failed(t2)
                   ELSE t2
            ELSE t1
  <2> DEFINE u == IF t1.ok THEN t2 ELSE t1
             take(x) == IF x.out = FREE THEN TakeCluster(x, c) ELSE Failed(x)
  <2>1. t = IF u.ok THEN take(u) ELSE u
    BY DEF allocContiguous, Then
  <2>2. QED
    BY <2>1
<1>2. /\ IsCall(s) /\ CacheOK(s.vol) /\ WellFormed(Seen(s.vol))
      /\ s.vol.allocSearchStart_ \in 2 .. clusterCount_ + 2
      /\ Chained(fat, q)
  BY DEF Sound
<1>3. s.file.curCluster_ \in Clusters \cup {0}
  <2>1. q[n] \in Seq(Clusters)
    BY <1>2 DEF Chained
  <2>2. q[n] # <<>> => Len(q[n]) \in 1 .. Len(q[n])
    BY <2>1
  <2>3. QED
    BY <2>1, <2>2
<1>4. last \in 0 .. clusterCount_ - 1
  <2>1. CASE free = {}
    BY <2>1
  <2>2. CASE free # {}
    <3>1. PICK m \in free : \A k \in free : m <= k
      <4> DEFINE R == OpToRel(<, Nat)
      <4>1. free \subseteq Nat
        OBVIOUS
      <4> HIDE DEF free, R
      <4>2. IsWellFoundedOn(R, Nat)
        BY NatLessThanWellFounded DEF R
      <4>3. PICK m \in free : \A k \in free : ~(<<k, m>> \in R)
        BY <2>2, <4>1, <4>2, WFMin
      <4>4. ASSUME NEW k \in free PROVE m <= k
        <5>1. <<k, m>> \in Nat \X Nat /\ <<k, m>>[1] = k /\ <<k, m>>[2] = m
          BY <4>1, <4>3
        <5>2. ~(k < m)
          BY <5>1, <4>3 DEF R, OpToRel
        <5>3. QED
          BY <5>2, <4>1, <4>3
      <4>5. QED
        BY <4>3, <4>4
    <3>2. last \in free
      BY <3>1, <2>2
    <3>3. QED
      BY <3>2
  <2>3. QED
    BY <2>1, <2>2
<1> HIDE DEF last
<1>5. Tried(s, 0) \in Clusters /\ c \in Clusters
  BY <1>2, <1>3, <1>4, TriedIs
<1> HIDE DEF c
<1>6. /\ Looked(s, t1) /\ t1.ok = ~Stuck(s.vol)
  BY <1>2, <1>5, FatGetIs
<1>7. CASE ~t1.ok
  <2>1. t = t1
    BY <1>7 DEF allocContiguous, Then
  <2>2. Sound(t1, q) /\ Idle(s, t1) /\ IsCall(t1)
    BY <1>6, LookedSound DEF Looked
  <2>3. QED
    BY <2>1, <2>2, <1>7
<1>8. CASE t1.ok
  <2>1. Sound(t1, q) /\ Idle(s, t1)
    BY <1>6, LookedSound
  <2>2. /\ IsCall(t1) /\ CacheOK(t1.vol) /\ Seen(t1.vol) = Seen(s.vol)
        /\ ~Stuck(t1.vol) /\ t1.file = s.file /\ ~Stuck(s.vol)
    BY <2>1, <1>6, <1>8 DEF Sound, Idle
  <2> HIDE DEF t1
  <2>3. /\ Looked(t1, t2) /\ t2.ok = ~Stuck(t1.vol)
        /\ t2.ok => t2.out = fat[c]
    BY <2>2, <1>5, <1>8, FatGetIs
  <2>4. Sound(t2, q) /\ Idle(t1, t2)
    BY <2>1, <2>3, LookedSound
  <2>5. t = IF t2.out = FREE THEN TakeCluster(t2, c) ELSE Failed(t2)
    BY <1>1, <1>8, <2>2, <2>3
  <2> HIDE DEF t2
  <2>6. /\ IsCall(t2) /\ CacheOK(t2.vol) /\ Seen(t2.vol) = Seen(s.vol)
        /\ ~Stuck(t2.vol) /\ t2.file = s.file /\ t2.ok
        /\ t2.vol.allocSearchStart_ \in 2 .. clusterCount_ + 2
    BY <2>2, <2>3, <2>4 DEF Sound, Idle
  <2>7. CASE t2.out # FREE
    <3>1. t = Failed(t2)
      BY <2>5, <2>7
    <3> HIDE DEF t
    <3>2. IsCall(t) /\ t.ok = FALSE /\ t.vol = t2.vol /\ t.file = t2.file
      BY <3>1, <2>6, FailedIs
    <3>3. Sound(t, q) /\ Idle(s, t)
      BY <3>2, <2>2, <2>4, <2>6 DEF Sound, Idle
    <3>4. QED
      BY <3>2, <3>3 DEF t
  <2>8. CASE t2.out = FREE
    <3> DEFINE cur   == s.file.curCluster_
               begun == [fat EXCEPT ![c] = EOC]
               new   == IF cur = 0 THEN begun ELSE [begun EXCEPT ![cur] = c]
    <3>1. t = TakeCluster(t2, c)
      BY <2>5, <2>8
    <3> HIDE DEF t
    <3>2. /\ t.ok /\ IsCall(t) /\ CacheOK(t.vol) /\ WellFormed(Seen(t.vol))
          /\ ~Stuck(t.vol)
          /\ t.file = [s.file EXCEPT !.curCluster_ = c]
          /\ t.vol.allocSearchStart_ =
                IF cur = 0 THEN c + 1 ELSE t2.vol.allocSearchStart_
          /\ SameRest(Seen(s.vol), Seen(t.vol))
          /\ Fat(Seen(t.vol)) = new
      <4>1. WellFormed(Seen(t2.vol)) /\ t2.file.curCluster_ \in Clusters \cup {0}
        BY <2>6, <1>2, <1>3
      <4> DEFINE w == TakeCluster(t2, c)  b2 == [Fat(Seen(t2.vol)) EXCEPT ![c] = EOC]
      <4>2. /\ w.ok
            /\ IsCall(w) /\ CacheOK(w.vol) /\ WellFormed(Seen(w.vol))
            /\ ~Stuck(w.vol)
            /\ w.file = [t2.file EXCEPT !.curCluster_ = c]
            /\ w.vol.allocSearchStart_ =
                  IF t2.file.curCluster_ = 0 THEN c + 1 ELSE t2.vol.allocSearchStart_
            /\ SameRest(Seen(t2.vol), Seen(w.vol))
            /\ Fat(Seen(w.vol)) =
                  IF t2.file.curCluster_ = 0 THEN b2
                  ELSE [b2 EXCEPT ![t2.file.curCluster_] = c]
        BY <2>6, <4>1, <1>5, TakeClusterIs
      <4> HIDE DEF w
      <4>3. QED
        BY <4>2, <3>1, <2>6 DEF w
    <3>3. fat[c] = FREE
      BY <2>3, <2>6, <2>8
    <3>4. t.vol.allocSearchStart_ \in 2 .. clusterCount_ + 2
      BY <3>2, <2>6, <1>5 DEF Clusters
    <3>5. q[n] = <<>> <=> cur = 0
      <4>1. q[n] \in Seq(Clusters)
        BY <1>2 DEF Chained
      <4>2. q[n] # <<>> => q[n][Len(q[n])] \in Clusters
        BY <4>1
      <4>3. QED
        BY <4>2, Values
    <3>6. Chained(new, [q EXCEPT ![n] = Append(q[n], c)])
      <4>1. new = IF q[n] = <<>> THEN begun ELSE [begun EXCEPT ![q[n][Len(q[n])]] = c]
        BY <3>5
      <4> HIDE DEF new, fat
      <4>2. Chained(IF q[n] = <<>> THEN begun ELSE [begun EXCEPT ![q[n][Len(q[n])]] = c],
                    [q EXCEPT ![n] = Append(q[n], c)])
        BY <1>2, <1>5, <3>3, ChainExtended
      <4>3. QED
        BY <4>1, <4>2
    <3>7. Sound(t, [q EXCEPT ![n] = Append(q[n], c)])
      BY <3>2, <3>4, <3>6 DEF Sound
    <3>8. ASSUME NEW d \in Clusters, d # c, new[d] # FREE PROVE fat[d] # FREE
      <4>1. CASE cur = 0 \/ d # cur
        BY <4>1, <3>8, <1>2 DEF Chained
      <4>2. CASE cur # 0 /\ d = cur
        <5>1. q[n] # <<>> /\ d = q[n][Len(q[n])]
          BY <4>2, <3>5
        <5>2. q[n] \in Seq(Clusters) /\ Len(q[n]) \in 1 .. Len(q[n])
          BY <5>1, <1>2 DEF Chained
        <5>3. fat[d] = EOC
          BY <5>1, <5>2, <1>2 DEF Chained
        <5>4. QED
          BY <5>3, Values
      <4>3. QED
        BY <4>1, <4>2
    <3>9. QED
      BY <3>2, <3>7, <3>8, <2>2, <1>5 DEF t
  <2>9. QED
    BY <2>7, <2>8
<1>9. QED
  BY <1>7, <1>8

----------------------------------------------------------------------------
(* Freeing a chain *)

\* The first k clusters of the chain of n are free.
FreedFat(fat, q, n, k) ==
    [d \in Clusters |-> IF \E i \in 1 .. Len(q[n]) : i <= k /\ d = q[n][i]
                          THEN FREE ELSE fat[d]]

\* freeChain frees one cluster of the chain a turn, and finds the next before.
LEMMA FreedStep ==
    ASSUME NEW fat, NEW q, Chained(fat, q), NEW n \in Name,
           NEW k \in Nat, k < Len(q[n])
    PROVE  /\ q[n][k + 1] \in Clusters
           /\ FreedFat(fat, q, n, k)[q[n][k + 1]] =
                 IF k + 1 < Len(q[n]) THEN q[n][k + 2] ELSE EOC
           /\ FreedFat(fat, q, n, k + 1) =
                 [FreedFat(fat, q, n, k) EXCEPT ![q[n][k + 1]] = FREE]
<1> DEFINE c == q[n][k + 1]
<1>1. q[n] \in Seq(Clusters) /\ Len(q[n]) \in Nat /\ k + 1 \in 1 .. Len(q[n])
  BY DEF Chained
<1>2. c \in Clusters
  BY <1>1
<1>3. \A i \in 1 .. Len(q[n]) : q[n][i] = c => i = k + 1
  BY <1>1 DEF Chained
<1>4. fat[c] = IF k + 1 < Len(q[n]) THEN q[n][(k + 1) + 1] ELSE EOC
  BY <1>1 DEF Chained
<1>5. ~\E i \in 1 .. Len(q[n]) : i <= k /\ c = q[n][i]
  BY <1>1, <1>3
<1>6. FreedFat(fat, q, n, k)[c] = fat[c]
  BY <1>2, <1>5 DEF FreedFat
<1>7. \A d \in Clusters :
         (\E i \in 1 .. Len(q[n]) : i <= k + 1 /\ d = q[n][i]) <=>
            (d = c \/ \E i \in 1 .. Len(q[n]) : i <= k /\ d = q[n][i])
  <2> HIDE DEF c
  <2>1. \A i \in 1 .. Len(q[n]) : i <= k + 1 <=> (i <= k \/ i = k + 1)
    BY <1>1
  <2>2. QED
    BY <1>1, <2>1 DEF c
<1>8. FreedFat(fat, q, n, k + 1) = [FreedFat(fat, q, n, k) EXCEPT ![c] = FREE]
  BY <1>2, <1>7 DEF FreedFat
<1>9. (k + 1) + 1 = k + 2
  OBVIOUS
<1>10. QED
  BY <1>2, <1>4, <1>6, <1>8, <1>9

LEMMA FreedNone ==
    ASSUME NEW fat, NEW q, Chained(fat, q), NEW n \in Name
    PROVE  FreedFat(fat, q, n, 0) = fat
<1>1. fat \in [Clusters -> Clusters \cup {FREE, EOC}]
  BY DEF Chained
<1>2. QED
  BY <1>1 DEF FreedFat

\* Turns beyond the end of the chain free nothing.
LEMMA FreedBeyond ==
    ASSUME NEW fat, NEW q, Chained(fat, q), NEW n \in Name,
           NEW k \in Nat, k >= Len(q[n])
    PROVE  FreedFat(fat, q, n, k) = FreedFat(fat, q, n, Len(q[n]))
<1>1. Len(q[n]) \in Nat
  BY DEF Chained
<1>2. \A i \in 1 .. Len(q[n]) : i <= k /\ i <= Len(q[n])
  BY <1>1
<1>3. QED
  BY <1>2 DEF FreedFat

\* After as many turns as the chain is long it is gone, and no other is touched.
LEMMA FreedAll ==
    ASSUME NEW fat, NEW q, Chained(fat, q), NEW n \in Name
    PROVE  Chained(FreedFat(fat, q, n, Len(q[n])), [q EXCEPT ![n] = <<>>])
<1> DEFINE new == FreedFat(fat, q, n, Len(q[n]))
<1>1. fat \in [Clusters -> Clusters \cup {FREE, EOC}]
  BY DEF Chained
<1>2. new \in [Clusters -> Clusters \cup {FREE, EOC}]
  BY <1>1 DEF FreedFat
<1>3. ASSUME NEW m \in Name \ {n}, NEW i \in 1 .. Len(q[m])
      PROVE  new[q[m][i]] = fat[q[m][i]]
  <2>1. q[m] \in Seq(Clusters) /\ q[m][i] \in Clusters
    BY DEF Chained
  <2>2. \A j \in 1 .. Len(q[n]) : q[m][i] # q[n][j]
    BY DEF Chained
  <2>3. QED
    BY <2>1, <2>2 DEF FreedFat
<1> HIDE DEF new
<1>4. Chained(new, [q EXCEPT ![n] = <<>>])
  BY <1>2, <1>3, ChainDropped
<1>5. QED
  BY <1>4 DEF new

\* The body of the loop of freeChain, once a first cluster is known.
freeTurn(t) == IF t.ok
                 THEN IF isEOC(t.out) THEN t
                      ELSE IF fatGet(t, t.out).ok
                             THEN fatPut(fatGet(t, t.out), t.out, FREE)
                             ELSE fatGet(t, t.out)
                 ELSE t

\* The recursive function of freeChain, as its turns.
LEMMA FreeChainDef ==
    ASSUME NEW s, NEW first
    PROVE  \E f : /\ f = [k \in 0 .. clusterCount_ |->
                             IF k = 0 THEN [s EXCEPT !.vol.allocSearchStart_ = 2, !.out = first]
                             ELSE freeTurn(f[k - 1])]
                  /\ freeChain(s, first) = f[clusterCount_]
<1> DEFINE s0   == [s EXCEPT !.vol.allocSearchStart_ = 2, !.out = first]
           turn(t) == Then(fatGet(t, t.out), LAMBDA u : fatPut(u, t.out, FREE))
           body(x) == Then(x, LAMBDA t : IF isEOC(t.out) THEN t ELSE turn(t))
           Is(f, N) == f = [k \in 0 .. N |-> IF k = 0 THEN s0 ELSE body(f[k - 1])]
           freed[k \in 0 .. clusterCount_] == IF k = 0 THEN s0 ELSE body(freed[k - 1])
<1>1. freeChain(s, first) = freed[clusterCount_]
  BY DEF freeChain
<1>2. \A N \in Nat : \E f : Is(f, N)
  <2> DEFINE S == {N \in Nat : \E f : Is(f, N)}
  <2> HIDE DEF s0, body
  <2>1. 0 \in S
    <3>1. Is([k \in 0 .. 0 |-> s0], 0)
      OBVIOUS
    <3>2. QED
      BY <3>1
  <2>2. ASSUME NEW N \in Nat, N \in S PROVE N + 1 \in S
    <3>1. PICK f : Is(f, N)
      BY <2>2
    <3> DEFINE g == [k \in 0 .. N + 1 |-> IF k = N + 1 THEN body(f[N]) ELSE f[k]]
    <3>2. Is(g, N + 1)
      BY <3>1
    <3> HIDE DEF g, Is
    <3>3. QED
      BY <3>2
  <2> HIDE DEF S
  <2>3. Nat \subseteq S
    BY <2>1, <2>2, SetInduction
  <2>4. QED
    BY <2>3 DEF S
<1>3. PICK f : Is(f, clusterCount_)
  BY <1>2
<1>4. freed = CHOOSE g : Is(g, clusterCount_)
  OBVIOUS
<1> HIDE DEF freed
<1>5. Is(freed, clusterCount_)
  BY <1>3, <1>4
<1>6. ASSUME NEW x PROVE body(x) = freeTurn(x)
  BY DEF Then, freeTurn
<1> HIDE DEF s0, body
<1>7. freed = [k \in 0 .. clusterCount_ |-> IF k = 0 THEN s0 ELSE freeTurn(freed[k - 1])]
  BY <1>5, <1>6
<1>8. QED
  BY <1>1, <1>7 DEF s0

\* freeChain begins the next search at the first cluster.
LEMMA ResetIs ==
    ASSUME NEW s, IsCall(s), CacheOK(s.vol), NEW first
    PROVE  LET t == [s EXCEPT !.vol.allocSearchStart_ = 2, !.out = first]
           IN  /\ IsCall(t) /\ CacheOK(t.vol) /\ Seen(t.vol) = Seen(s.vol)
               /\ t.file = s.file /\ t.ok = s.ok /\ t.out = first
               /\ t.vol.allocSearchStart_ = 2
               /\ Stuck(t.vol) <=> Stuck(s.vol)
<1> DEFINE t == [s EXCEPT !.vol.allocSearchStart_ = 2, !.out = first]
<1>1. /\ IsCall(t) /\ t.file = s.file /\ t.ok = s.ok /\ t.out = first
      /\ t.vol.card = s.vol.card
      /\ t.vol.cacheBlockNumber_ = s.vol.cacheBlockNumber_
      /\ t.vol.cacheBuffer_ = s.vol.cacheBuffer_
      /\ t.vol.cacheDirty_ = s.vol.cacheDirty_
      /\ t.vol.cacheMirrorBlock_ = s.vol.cacheMirrorBlock_
      /\ t.vol.allocSearchStart_ = 2
  BY DEF IsCall, IsVolume, CallFields, VolumeFields
<1> HIDE DEF t
<1>2. IsVolume(t.vol)
  BY <1>1 DEF IsCall
<1>3. CacheOK(t.vol) /\ (Stuck(t.vol) <=> Stuck(s.vol))
  BY <1>1, <1>2 DEF CacheOK, Stuck
<1>4. Seen(t.vol) = Seen(s.vol)
  BY <1>1, <1>3, SeenIs
<1>5. QED
  BY <1>1, <1>3, <1>4 DEF t

\* freeChain frees the chain of one file.
LEMMA FreeChainIs ==
    ASSUME NEW s, NEW q, Sound(s, q), s.ok, NEW n \in Name, q[n] # <<>>
    PROVE  LET t == freeChain(s, q[n][1])
           IN  /\ t.ok = ~Stuck(s.vol)
               /\ ~t.ok => Sound(t, q) /\ Idle(s, t)
               /\ t.ok => /\ Sound(t, [q EXCEPT ![n] = <<>>])
                          /\ t.file = s.file /\ ~Stuck(t.vol)
                          /\ SameRest(Seen(s.vol), Seen(t.vol))
                          /\ Fat(Seen(t.vol)) =
                                FreedFat(Fat(Seen(s.vol)), q, n, Len(q[n]))
<1> DEFINE first == q[n][1]
           fat == Fat(Seen(s.vol))
           s0 == [s EXCEPT !.vol.allocSearchStart_ = 2, !.out = first]
           N == clusterCount_
<1>1. PICK f : /\ f = [k \in 0 .. N |-> IF k = 0 THEN s0 ELSE freeTurn(f[k - 1])]
               /\ freeChain(s, first) = f[N]
  BY FreeChainDef
<1>2. /\ IsCall(s) /\ CacheOK(s.vol) /\ WellFormed(Seen(s.vol))
      /\ Chained(fat, q)
  BY DEF Sound
<1>3. /\ q[n] \in Seq(Clusters) /\ Len(q[n]) \in Nat /\ Len(q[n]) # 0
      /\ first \in Clusters
  BY <1>2 DEF Chained
<1>4. Len(q[n]) <= N /\ N \in Nat /\ N # 0
  BY <1>2, ChainFits
<1>5. /\ IsCall(s0) /\ CacheOK(s0.vol) /\ Seen(s0.vol) = Seen(s.vol)
      /\ s0.file = s.file /\ s0.ok = s.ok /\ s0.out = first
      /\ s0.vol.allocSearchStart_ = 2
      /\ Stuck(s0.vol) <=> Stuck(s.vol)
  BY <1>2, ResetIs
<1> HIDE DEF s0, fat, first
<1>6. f[0] = s0 /\ \A k \in 0 .. N : k # 0 => f[k] = freeTurn(f[k - 1])
  BY <1>1, <1>4
<1>7. CASE Stuck(s.vol)
  <2> DEFINE Held(t) == /\ IsCall(t) /\ CacheOK(t.vol) /\ Seen(t.vol) = Seen(s.vol)
                        /\ t.file = s.file /\ t.ok = FALSE
                        /\ t.vol.allocSearchStart_ = 2 /\ Stuck(t.vol)
             S == {k \in Nat : k + 1 \in 0 .. N => Held(f[k + 1])}
             u == fatGet(s0, first)
  <2>1. 0 \in S
    <3>1. Looked(s0, u) /\ u.ok = ~Stuck(s0.vol)
      BY <1>3, <1>5, FatGetIs, <1>2, s0.ok DEF Sound
    <3>2. f[1] = freeTurn(s0)
      BY <1>4, <1>6
    <3>3. f[1] = u
      <4>1. ~isEOC(first)
        BY <1>3, Values
      <4>2. QED
        BY <3>1, <3>2, <4>1, <1>5, <1>7 DEF freeTurn
    <3> HIDE DEF u
    <3>4. Held(f[1])
      BY <3>1, <3>3, <1>5, <1>7 DEF Looked
    <3>5. QED
      BY <3>4
  <2>2. ASSUME NEW k \in Nat, k \in S PROVE k + 1 \in S
    <3> DEFINE j == k + 1
    <3>1. j \in Nat /\ j # 0 /\ j + 1 \in Nat /\ j + 1 # 0 /\ (j + 1) - 1 = j
      OBVIOUS
    <3> HIDE DEF Held
    <3>2. SUFFICES ASSUME j + 1 \in 0 .. N PROVE Held(f[j + 1])
      BY <3>1
    <3>3. Held(f[j])
      BY <2>2, <3>1, <3>2, <1>4
    <3>4. f[j + 1] = freeTurn(f[j])
      <4> HIDE DEF j
      <4>1. QED
        BY <3>1, <3>2, <1>4, <1>6
    <3>5. freeTurn(f[j]) = f[j]
      BY <3>3 DEF freeTurn, Held
    <3>6. QED
      BY <3>3, <3>4, <3>5
  <2> HIDE DEF S
  <2>3. Nat \subseteq S
    BY <2>1, <2>2, SetInduction
  <2>4. Held(f[N])
    <3>1. N - 1 \in S /\ (N - 1) + 1 = N /\ N \in 0 .. N
      BY <2>3, <1>4
    <3>2. QED
      BY <3>1 DEF S
  <2>5. Sound(f[N], q) /\ Idle(s, f[N])
    BY <2>4, <1>2, <1>7 DEF Sound, Idle
  <2>6. QED
    BY <2>4, <2>5, <1>1, <1>7 DEF first
<1>8. CASE ~Stuck(s.vol)
  <2> DEFINE Done(t, k) ==
               /\ IsCall(t) /\ CacheOK(t.vol) /\ WellFormed(Seen(t.vol))
               /\ t.file = s.file /\ t.ok = TRUE
               /\ t.vol.allocSearchStart_ = 2 /\ ~Stuck(t.vol)
               /\ SameRest(Seen(s.vol), Seen(t.vol))
               /\ Fat(Seen(t.vol)) = FreedFat(fat, q, n, k)
               /\ t.out = IF k < Len(q[n]) THEN q[n][k + 1] ELSE EOC
             S == {k \in Nat : k \in 0 .. N => Done(f[k], k)}
  <2>1. 0 \in S
    <3>1. FreedFat(fat, q, n, 0) = fat
      BY <1>2, FreedNone
    <3>2. s0.ok = TRUE
      BY <1>2, <1>5 DEF IsCall
    <3>3. SameRest(Seen(s.vol), Seen(s0.vol)) /\ Fat(Seen(s0.vol)) = fat
      BY <1>5 DEF SameRest, fat
    <3>4. Done(s0, 0)
      BY <3>1, <3>2, <3>3, <1>2, <1>3, <1>5, <1>8 DEF first
    <3>5. QED
      BY <3>4, <1>6
  <2>2. ASSUME NEW k \in Nat, k \in S PROVE k + 1 \in S
    <3> HIDE DEF Done
    <3>1. SUFFICES ASSUME k + 1 \in 0 .. N PROVE Done(f[k + 1], k + 1)
      OBVIOUS
    <3> DEFINE t == f[k]
               u == fatGet(t, t.out)
               w == fatPut(u, t.out, FREE)
    <3>2. Done(t, k)
      BY <2>2, <3>1, <1>4
    <3>3. f[k + 1] = freeTurn(t)
      BY <3>1, <1>4, <1>6
    <3>4. CASE k >= Len(q[n])
      <4> HIDE DEF t
      <4>1. ~(k < Len(q[n])) /\ k >= Len(q[n])
        BY <3>4, <1>3
      <4>2. freeTurn(t) = t
        BY <3>2, <4>1, Values DEF freeTurn, Done
      <4>3. FreedFat(fat, q, n, k) = FreedFat(fat, q, n, Len(q[n]))
        <5>1. Chained(fat, q)
          BY <1>2
        <5>2. QED
          BY <4>1, <5>1, FreedBeyond
      <4>4. FreedFat(fat, q, n, k + 1) = FreedFat(fat, q, n, Len(q[n]))
        <5>1. k + 1 \in Nat /\ k + 1 >= Len(q[n])
          BY <3>4, <1>3
        <5>2. QED
          BY <5>1, <1>2, FreedBeyond
      <4>5. ~(k < Len(q[n])) /\ ~(k + 1 < Len(q[n]))
        BY <3>4, <1>3
      <4>6. QED
        BY <3>2, <3>3, <4>2, <4>3, <4>4, <4>5 DEF Done
    <3>5. CASE k < Len(q[n])
      <4> DEFINE c == q[n][k + 1]
      <4>1. /\ c \in Clusters
            /\ FreedFat(fat, q, n, k)[c] =
                  IF k + 1 < Len(q[n]) THEN q[n][k + 2] ELSE EOC
            /\ FreedFat(fat, q, n, k + 1) = [FreedFat(fat, q, n, k) EXCEPT ![c] = FREE]
        BY <3>5, <1>2, FreedStep
      <4>2. t.out = c /\ ~isEOC(c)
        BY <3>2, <3>5, <4>1, Values DEF Done
      <4> HIDE DEF t, c
      <4>3. /\ IsCall(t) /\ CacheOK(t.vol) /\ WellFormed(Seen(t.vol)) /\ t.ok
            /\ ~Stuck(t.vol)
        BY <3>2 DEF Done
      <4>4. /\ Looked(t, u) /\ u.ok = ~Stuck(t.vol)
            /\ u.ok => u.out = Fat(Seen(t.vol))[c]
        BY <4>1, <4>2, <4>3, FatGetIs
      <4> HIDE DEF u
      <4>5. /\ IsCall(u) /\ CacheOK(u.vol) /\ Seen(u.vol) = Seen(t.vol) /\ u.ok
            /\ ~Stuck(u.vol) /\ u.file = t.file
            /\ u.vol.allocSearchStart_ = t.vol.allocSearchStart_
            /\ u.out = FreedFat(fat, q, n, k)[c]
        BY <3>2, <4>3, <4>4 DEF Looked, Done
      <4>6. /\ w.ok = ~Stuck(u.vol)
            /\ w.ok => /\ FatTo(u, w, [Fat(Seen(u.vol)) EXCEPT ![c] = FREE])
                       /\ w.out = u.out
        BY <4>1, <4>2, <4>3, <4>5, FatPutIs
      <4>7. freeTurn(t) = w
        BY <4>2, <4>3, <4>5 DEF freeTurn, u
      <4> HIDE DEF w
      <4>8. /\ FatTo(u, w, FreedFat(fat, q, n, k + 1)) /\ w.ok /\ w.out = u.out
        BY <4>1, <4>5, <4>6, <3>2 DEF Done
      <4>9. /\ IsCall(w) /\ CacheOK(w.vol) /\ WellFormed(Seen(w.vol))
            /\ w.file = s.file /\ w.ok = TRUE
            /\ w.vol.allocSearchStart_ = 2 /\ ~Stuck(w.vol)
            /\ Fat(Seen(w.vol)) = FreedFat(fat, q, n, k + 1)
        BY <4>8, <4>5, <3>2 DEF FatTo, IsCall, Done
      <4>10. SameRest(Seen(s.vol), Seen(w.vol))
        BY <4>8, <4>5, <3>2 DEF FatTo, SameRest, Done
      <4>11. w.out = IF k + 1 < Len(q[n]) THEN q[n][(k + 1) + 1] ELSE EOC
        <5>1. (k + 1) + 1 = k + 2
          OBVIOUS
        <5>2. QED
          BY <5>1, <4>1, <4>5, <4>8
      <4>12. QED
        BY <3>3, <4>7, <4>9, <4>10, <4>11 DEF Done
    <3>6. QED
      BY <3>4, <3>5, <1>3
  <2> HIDE DEF S
  <2>3. Nat \subseteq S
    BY <2>1, <2>2, SetInduction
  <2>4. Done(f[N], N)
    <3>1. N \in S /\ N \in 0 .. N
      BY <2>3, <1>4
    <3>2. QED
      BY <3>1 DEF S
  <2>5. /\ FreedFat(fat, q, n, N) = FreedFat(fat, q, n, Len(q[n]))
        /\ Chained(FreedFat(fat, q, n, N), [q EXCEPT ![n] = <<>>])
    BY <1>2, <1>3, <1>4, FreedBeyond, FreedAll
  <2>6. Sound(f[N], [q EXCEPT ![n] = <<>>])
    BY <2>4, <2>5 DEF Sound
  <2>7. QED
    BY <2>4, <2>5, <2>6, <1>1, <1>8 DEF first, fat
<1>9. QED
  BY <1>7, <1>8

----------------------------------------------------------------------------
(* Positions *)

\* Division and remainder, and that they are unique.
LEMMA Euclid ==
    ASSUME NEW e \in Nat \ {0}, NEW a \in Int
    PROVE  /\ a \div e \in Int /\ a % e \in Int
           /\ 0 <= a % e /\ a % e < e
           /\ a = e * (a \div e) + (a % e)
           /\ (a >= 0 => a \div e >= 0)
<1> DEFINE p == a \div e  r == a % e
<1>1. /\ p \in Int /\ r \in Int /\ 0 <= r /\ r < e /\ a = e * p + r
  BY Z3
<1> HIDE DEF p, r
<1>2. a >= 0 => p >= 0
  <2>1. SUFFICES ASSUME a >= 0, p <= -1 PROVE FALSE
    BY <1>1
  <2>2. e * p <= 0 - e
    <3>1. e * p = e * (p + 1) - e
      BY <1>1, Z3
    <3>2. p + 1 <= 0
      BY <1>1, <2>1
    <3>3. e * (p + 1) <= 0
      BY <3>2, <1>1, Z3
    <3>4. QED
      BY <3>1, <3>3, <1>1, Z3
  <2>3. QED
    BY <2>1, <2>2, <1>1, Z3
<1>3. /\ p \in Int /\ r \in Int /\ 0 <= r /\ r < e /\ a = e * p + r
      /\ a >= 0 => p >= 0
  BY <1>1, <1>2
<1>4. QED
  BY <1>3 DEF p, r

LEMMA EuclidUnique ==
    ASSUME NEW e \in Nat \ {0}, NEW a \in Int, NEW d \in Int,
           e * d <= a, a < e * d + e
    PROVE  a \div e = d /\ a % e = a - e * d
<1> DEFINE p == a \div e  r == a % e
<1>1. /\ p \in Int /\ r \in Int /\ 0 <= r /\ r < e /\ a = e * p + r
  BY Euclid
<1> HIDE DEF p, r
<1>2. e * p < e * (d + 1) /\ e * d < e * (p + 1)
  BY <1>1, Z3
<1>3. p < d + 1 /\ d < p + 1
  BY <1>1, <1>2, Z3
<1>4. p = d
  BY <1>1, <1>3
<1>5. QED
  BY <1>1, <1>4 DEF p, r

\* The number of the cluster that the byte before a position is in.
Index(pos) == (pos - 1) \div ClusterBytes + 1

LEMMA Sizes ==
    /\ ClusterBytes \in Nat \ {0}
    /\ ClusterBytes = blocksPerCluster_ * BlockSize
<1>1. blocksPerCluster_ * BlockSize \in Nat \ {0}
  BY Z3
<1>2. QED
  BY <1>1 DEF ClusterBytes

\* The cluster of a chain that holds the byte before a position.
LEMMA IndexIs ==
    ASSUME NEW pos \in Nat
    PROVE  /\ Index(pos) \in Nat
           /\ pos \div ClusterBytes \in Nat
           /\ Index(pos + 1) = pos \div ClusterBytes + 1
           /\ pos % ClusterBytes = 0 => Index(pos) = pos \div ClusterBytes
           /\ pos % ClusterBytes # 0 => Index(pos) = pos \div ClusterBytes + 1
           /\ pos > 0 => Index(pos) > 0
           /\ pos % ClusterBytes = 0 /\ pos > 0 => pos \div ClusterBytes > 0
<1> DEFINE e == ClusterBytes  d == pos \div e  r == pos % e
<1>1. e \in Nat \ {0}
  BY Sizes
<1> HIDE DEF e
<1>2. d \in Int /\ r \in Int /\ 0 <= r /\ r < e /\ pos = e * d + r /\ d >= 0
  BY <1>1, Euclid
<1> HIDE DEF d, r
<1>3. (pos + 1) - 1 = pos
  OBVIOUS
<1>4. CASE r = 0
  <2>1. e * (d - 1) <= pos - 1 /\ pos - 1 < e * (d - 1) + e /\ d - 1 \in Int
    BY <1>1, <1>2, <1>4, Z3
  <2>2. (pos - 1) \div e = d - 1
    BY <2>1, <1>1, EuclidUnique
  <2>3. pos > 0 => d > 0
    <3>1. d = 0 => pos = 0
      BY <1>1, <1>2, <1>4, Z3
    <3>2. QED
      BY <3>1, <1>2
  <2>4. QED
    BY <2>2, <2>3, <1>2, <1>3, <1>4 DEF Index, d, r, e
<1>5. CASE r # 0
  <2>1. e * d <= pos - 1 /\ pos - 1 < e * d + e
    BY <1>1, <1>2, <1>5, Z3
  <2>2. (pos - 1) \div e = d
    BY <2>1, <1>1, <1>2, EuclidUnique
  <2>3. QED
    BY <2>2, <1>2, <1>3, <1>5 DEF Index, d, r, e
<1>6. QED
  BY <1>4, <1>5

\* A position within a chain of k clusters.
LEMMA IndexWithin ==
    ASSUME NEW pos \in Nat, NEW k \in Nat, pos <= k * ClusterBytes
    PROVE  /\ Index(pos) <= k
           /\ pos < k * ClusterBytes => pos \div ClusterBytes + 1 <= k
<1> DEFINE e == ClusterBytes  d == (pos - 1) \div e  c == pos \div e
<1>1. e \in Nat \ {0}
  BY Sizes
<1> HIDE DEF e
<1>2. /\ d \in Int /\ e * d <= pos - 1 /\ c \in Int /\ e * c <= pos
  BY <1>1, Euclid
<1> HIDE DEF d, c
<1>3. pos <= k * e
  BY DEF e
<1>4. e * d < e * k /\ (pos < k * e => e * c < e * k)
  BY <1>1, <1>2, <1>3, Z3
<1>5. d < k /\ (pos < k * e => c < k)
  BY <1>1, <1>2, <1>4, Z3
<1>6. QED
  BY <1>2, <1>5 DEF Index, d, c, e

\* The bytes of a block are of one cluster.
LEMMA IndexInBlock ==
    ASSUME NEW pos \in Nat, NEW m \in Nat \ {0},
           m <= BlockSize - offsetInBlock(pos)
    PROVE  Index(pos + m) = pos \div ClusterBytes + 1
<1> DEFINE B == BlockSize  w == blocksPerCluster_  e == ClusterBytes
           a == pos \div B  r == pos % B  c == a \div w  b == a % w
<1>1. B \in Nat \ {0} /\ w \in Nat \ {0} /\ e \in Nat \ {0} /\ e = w * B
  BY Sizes
<1>2. a \in Int /\ r \in Int /\ 0 <= r /\ r < B /\ pos = B * a + r /\ a >= 0
  BY <1>1, Euclid
<1>3. c \in Int /\ b \in Int /\ 0 <= b /\ b < w /\ a = w * c + b /\ c >= 0
  BY <1>1, <1>2, Euclid
<1>4. m <= B - r
  BY DEF offsetInBlock
<1> HIDE DEF B, w, e, a, r, c, b
<1>5. B * b + B <= B * w /\ B * b >= 0
  <2>1. b + 1 <= w
    BY <1>1, <1>3
  <2>2. B * (b + 1) <= B * w /\ B * b >= 0
    BY <2>1, <1>1, <1>3, Z3
  <2>3. B * (b + 1) = B * b + B
    BY <1>1, <1>3, Z3
  <2>4. QED
    BY <2>2, <2>3
<1>6. pos = e * c + (B * b + r) /\ e * c \in Int /\ B * b \in Int /\ B * w = e
  BY <1>1, <1>2, <1>3, Z3
<1>7. e * c <= pos /\ pos < e * c + e /\ e * c <= (pos + m) - 1 /\ (pos + m) - 1 < e * c + e
  BY <1>1, <1>2, <1>3, <1>4, <1>5, <1>6
<1>8. pos \div e = c /\ ((pos + m) - 1) \div e = c
  <2> DEFINE x == (pos + m) - 1
  <2>1. pos \in Int /\ x \in Int
    OBVIOUS
  <2>2. e * c <= x /\ x < e * c + e
    BY <1>7
  <2> HIDE DEF x
  <2>3. pos \div e = c
    BY <1>1, <1>3, <1>7, <2>1, EuclidUnique
  <2>4. x \div e = c
    BY <1>1, <1>3, <2>2, <2>1, EuclidUnique
  <2>5. QED
    BY <2>3, <2>4 DEF x
<1>9. QED
  BY <1>8 DEF Index, e

LEMMA BlockInCluster ==
    ASSUME NEW pos \in Nat
    PROVE  blockOfCluster(pos) \in 0 .. blocksPerCluster_ - 1
<1>1. pos \div BlockSize \in Int
  BY Euclid
<1>2. QED
  BY <1>1, Euclid DEF blockOfCluster

----------------------------------------------------------------------------
(* Files and their chains *)

\* A first cluster and a size fit a chain.
BeginsAt(first, size, g) ==
    /\ first = 0 \/ (g # <<>> /\ first = g[1])
    /\ size \in Nat /\ size <= Len(g) * ClusterBytes
    /\ first = 0 => size = 0

InChain(c, g) == \E i \in 1 .. Len(g) : c = g[i]

\* The current cluster is the one of the byte before the current position.
Placed(f, g) ==
    /\ f.curPosition_ = 0 => f.curCluster_ = 0
    /\ f.curPosition_ # 0 => f.curCluster_ = g[Index(f.curPosition_)]

\* A file with chain g.  Where the cache is stuck, the current cluster is at
\* least one of the file.
FileOK(f, g, v) ==
    /\ IsFile(f)
    /\ f.writable \in BOOLEAN /\ f.dirDirty \in BOOLEAN /\ f.writeError \in BOOLEAN
    /\ f.dirIndex_ \in 1 .. DirSlots
    /\ f.curPosition_ \in Nat /\ f.curPosition_ <= Len(g) * ClusterBytes
    /\ BeginsAt(f.firstCluster_, f.fileSize_, g)
    /\ Placed(f, g) \/ (Stuck(v) /\ InChain(f.curCluster_, g))
    /\ ~f.writable => ~f.dirDirty /\ ~f.writeError /\ f.curPosition_ <= f.fileSize_
    /\ f.writable /\ f.firstCluster_ = 0 => g = <<>>

\* A chain has got longer, or stayed as it was.
Extends(g, h) ==
    /\ g \in Seq(Clusters) /\ h \in Seq(Clusters)
    /\ Len(g) <= Len(h)
    /\ \A i \in 1 .. Len(g) : h[i] = g[i]
Grown(q, r, n) ==
    /\ q \in [Name -> Seq(Clusters)] /\ r \in [Name -> Seq(Clusters)]
    /\ Extends(q[n], r[n])
    /\ \A m \in Name \ {n} : r[m] = q[m]

\* Grown: the chain of n may have got longer, the others are as they were.
LEMMA GrownSelf ==
    ASSUME NEW q \in [Name -> Seq(Clusters)], NEW n \in Name
    PROVE  Grown(q, q, n)
  BY DEF Grown, Extends

LEMMA GrownTrans ==
    ASSUME NEW q, NEW r, NEW u, NEW n \in Name, Grown(q, r, n), Grown(r, u, n)
    PROVE  Grown(q, u, n)
<1>1. Len(q[n]) \in Nat /\ Len(r[n]) \in Nat /\ Len(u[n]) \in Nat
  BY DEF Grown
<1>2. \A i \in 1 .. Len(q[n]) : i \in 1 .. Len(r[n])
  BY <1>1 DEF Grown, Extends
<1>3. QED
  BY <1>1, <1>2 DEF Grown, Extends

LEMMA Multiples ==
    ASSUME NEW j \in Nat, NEW k \in Nat, j <= k
    PROVE  /\ j * ClusterBytes <= k * ClusterBytes
           /\ j * ClusterBytes \in Nat /\ k * ClusterBytes \in Nat
  BY Sizes, Z3

LEMMA InChainIs ==
    ASSUME NEW g \in Seq(Clusters), NEW c, InChain(c, g)
    PROVE  c \in Clusters
  BY DEF InChain

\* A file stands at 0, or at a cluster of its chain.
LEMMA PlacedIs ==
    ASSUME NEW g \in Seq(Clusters), NEW f, Placed(f, g),
           f.curPosition_ \in Nat, f.curPosition_ <= Len(g) * ClusterBytes
    PROVE  /\ f.curPosition_ # 0 => /\ Index(f.curPosition_) \in 1 .. Len(g)
                                    /\ InChain(f.curCluster_, g)
           /\ f.curCluster_ \in Clusters \cup {0}
<1> DEFINE pos == f.curPosition_  i == Index(pos)
<1>1. Len(g) \in Nat
  OBVIOUS
<1>2. i \in Nat /\ (pos > 0 => i > 0) /\ i <= Len(g)
  BY <1>1, IndexIs, IndexWithin
<1> HIDE DEF i
<1>3. pos # 0 => i \in 1 .. Len(g) /\ f.curCluster_ = g[i]
  BY <1>1, <1>2 DEF Placed, i
<1>4. pos # 0 => f.curCluster_ \in Clusters
  BY <1>3
<1>5. QED
  BY <1>3, <1>4 DEF Placed, InChain, i

\* What is right of a file stays right when its chain grows, and when the
\* cache gets stuck.
LEMMA FileGrows ==
    ASSUME NEW f, NEW g, NEW h, NEW v, FileOK(f, g, v),
           Extends(g, h), ~f.writable \/ h = g,
           NEW w, Stuck(v) => Stuck(w)
    PROVE  FileOK(f, h, w)
<1>1. /\ g \in Seq(Clusters) /\ h \in Seq(Clusters) /\ Len(g) \in Nat /\ Len(h) \in Nat
      /\ Len(g) <= Len(h) /\ \A i \in 1 .. Len(g) : h[i] = g[i]
  BY DEF Extends
<1>2. /\ Len(g) * ClusterBytes <= Len(h) * ClusterBytes
      /\ Len(g) * ClusterBytes \in Nat /\ Len(h) * ClusterBytes \in Nat
  BY <1>1, Multiples
<1>3. BeginsAt(f.firstCluster_, f.fileSize_, h)
  <2>1. BeginsAt(f.firstCluster_, f.fileSize_, g)
    BY DEF FileOK
  <2>2. g # <<>> => h # <<>> /\ h[1] = g[1]
    BY <1>1
  <2>3. QED
    BY <2>1, <2>2, <1>2 DEF BeginsAt
<1>4. InChain(f.curCluster_, g) => InChain(f.curCluster_, h)
  BY <1>1 DEF InChain
<1>5. f.curPosition_ \in Nat /\ f.curPosition_ <= Len(g) * ClusterBytes
  BY DEF FileOK
<1>6. f.curPosition_ <= Len(h) * ClusterBytes
  BY <1>2, <1>5
<1>7. Placed(f, g) => Placed(f, h)
  <2>1. SUFFICES ASSUME Placed(f, g), f.curPosition_ # 0
                 PROVE  f.curCluster_ = h[Index(f.curPosition_)]
    BY DEF Placed
  <2>2. Index(f.curPosition_) \in 1 .. Len(g)
    BY <1>1, <1>5, <2>1, PlacedIs
  <2>3. QED
    BY <1>1, <2>1, <2>2 DEF Placed
<1>8. f.writable /\ f.firstCluster_ = 0 => h = <<>>
  BY DEF FileOK
<1>9. QED
  BY <1>3, <1>4, <1>5, <1>6, <1>7, <1>8 DEF FileOK

----------------------------------------------------------------------------
(* The directory *)

\* Nothing but the directory has changed.
DirTo(s, t, dir) ==
    /\ Dir(Seen(t.vol)) = dir
    /\ \A b \in SeenBlocks \ {rootDirStart_} : Seen(t.vol)[b] = Seen(s.vol)[b]

\* The same two calls, for the invariant of a call.
LEMMA RawSound ==
    ASSUME NEW s, NEW q, Sound(s, q), s.ok, NEW b \in SeenBlocks,
           NEW dirty \in BOOLEAN, dirty => b \notin FatBlocks
    PROVE  LET t == cacheRawBlock(s, b, dirty)
           IN  /\ Sound(t, q) /\ Idle(s, t) /\ t.out = s.out
               /\ t.ok = ~Stuck(s.vol)
               /\ t.ok => /\ t.vol.cacheBlockNumber_ = b
                          /\ t.vol.cacheBuffer_ = Seen(s.vol)[b]
                          /\ dirty => t.vol.cacheDirty_
<1>1. IsCall(s) /\ CacheOK(s.vol)
  BY DEF Sound
<1> DEFINE t == cacheRawBlock(s, b, dirty)
<1>2. /\ Kept(s, t) /\ t.ok = ~Stuck(s.vol)
      /\ t.ok => /\ t.vol.cacheBlockNumber_ = b
                 /\ t.vol.cacheBuffer_ = Seen(s.vol)[b]
                 /\ dirty => t.vol.cacheDirty_
  BY <1>1, RawIs
<1> HIDE DEF t
<1>3. Sound(t, q) /\ Idle(s, t)
  BY <1>2, KeptSound
<1>4. QED
  BY <1>2, <1>3 DEF Kept, t

\* The same of a block that is only read.
LEMMA RawClean ==
    ASSUME NEW s, NEW q, Sound(s, q), s.ok, NEW b \in SeenBlocks
    PROVE  LET t == cacheRawBlock(s, b, FALSE)
           IN  /\ Sound(t, q) /\ Idle(s, t) /\ t.out = s.out
               /\ t.ok = ~Stuck(s.vol)
               /\ t.ok => /\ t.vol.cacheBlockNumber_ = b
                          /\ t.vol.cacheBuffer_ = Seen(s.vol)[b]
<1> DEFINE dirty == FALSE
<1>1. dirty \in BOOLEAN /\ (dirty => b \notin FatBlocks)
  OBVIOUS
<1> HIDE DEF dirty
<1>2. LET t == cacheRawBlock(s, b, dirty)
      IN  /\ Sound(t, q) /\ Idle(s, t) /\ t.out = s.out
          /\ t.ok = ~Stuck(s.vol)
          /\ t.ok => /\ t.vol.cacheBlockNumber_ = b
                     /\ t.vol.cacheBuffer_ = Seen(s.vol)[b]
  BY <1>1, RawSound
<1>3. QED
  BY <1>2, Zenon DEF dirty

\* The same of a block of the directory or of data that is to be changed.
LEMMA RawDirty ==
    ASSUME NEW s, NEW q, Sound(s, q), s.ok, NEW b \in SeenBlocks, b \notin FatBlocks
    PROVE  LET t == cacheRawBlock(s, b, TRUE)
           IN  /\ Sound(t, q) /\ Idle(s, t) /\ t.out = s.out
               /\ t.ok = ~Stuck(s.vol)
               /\ t.ok => /\ t.vol.cacheBlockNumber_ = b
                          /\ t.vol.cacheBuffer_ = Seen(s.vol)[b]
                          /\ t.vol.cacheDirty_
<1> DEFINE dirty == TRUE
<1>1. dirty \in BOOLEAN /\ (dirty => b \notin FatBlocks)
  OBVIOUS
<1> HIDE DEF dirty
<1>2. LET t == cacheRawBlock(s, b, dirty)
      IN  /\ Sound(t, q) /\ Idle(s, t) /\ t.out = s.out
          /\ t.ok = ~Stuck(s.vol)
          /\ t.ok => /\ t.vol.cacheBlockNumber_ = b
                     /\ t.vol.cacheBuffer_ = Seen(s.vol)[b]
                     /\ dirty => t.vol.cacheDirty_
  BY <1>1, RawSound
<1>3. QED
  BY <1>2, Zenon DEF dirty

LEMMA FlushSound ==
    ASSUME NEW s, NEW q, Sound(s, q), s.ok
    PROVE  LET t == cacheFlush(s)
           IN  /\ Sound(t, q) /\ Idle(s, t) /\ t.out = s.out
               /\ t.ok = ~Stuck(s.vol)
               /\ t.ok => /\ ~t.vol.cacheDirty_
                          /\ t.vol.cacheBlockNumber_ = s.vol.cacheBlockNumber_
                          /\ t.vol.cacheBuffer_ = s.vol.cacheBuffer_
<1>1. IsCall(s) /\ CacheOK(s.vol)
  BY DEF Sound
<1> DEFINE t == cacheFlush(s)
<1>2. /\ Kept(s, t) /\ t.ok = ~Stuck(s.vol)
      /\ t.ok => /\ ~t.vol.cacheDirty_
                 /\ t.vol.cacheBlockNumber_ = s.vol.cacheBlockNumber_
                 /\ t.vol.cacheBuffer_ = s.vol.cacheBuffer_
  BY <1>1, FlushIs
<1> HIDE DEF t
<1>3. Sound(t, q) /\ Idle(s, t)
  BY <1>2, KeptSound
<1>4. QED
  BY <1>2, <1>3 DEF Kept, t

\* A change of the directory leaves the FAT.
LEMMA DirLeavesFat ==
    ASSUME NEW s, NEW t, NEW dir, DirTo(s, t, dir)
    PROVE  Fat(Seen(t.vol)) = Fat(Seen(s.vol))
<1>1. \A c \in Clusters : fatBlock(c) \in SeenBlocks \ {rootDirStart_}
  BY Geometry, Regions
<1>2. QED
  BY <1>1 DEF DirTo, Fat

\* An entry is changed in the cache.
LEMMA DirStoreIs ==
    ASSUME NEW s, NEW q, Sound(s, q), s.vol.cacheBlockNumber_ = rootDirStart_,
           NEW i \in 1 .. DirSlots, NEW e, IsEntry(e),
           NEW t, IsCall(t), t.vol.card = s.vol.card,
           t.vol.cacheBlockNumber_ = s.vol.cacheBlockNumber_,
           t.vol.cacheBuffer_ = [s.vol.cacheBuffer_ EXCEPT ![i] = e],
           t.vol.cacheDirty_ = TRUE,
           t.vol.cacheMirrorBlock_ = s.vol.cacheMirrorBlock_,
           t.vol.allocSearchStart_ = s.vol.allocSearchStart_
    PROVE  /\ Sound(t, q) /\ ~Stuck(t.vol)
           /\ DirTo(s, t, [Dir(Seen(s.vol)) EXCEPT ![i] = e])
<1> DEFINE x == Seen(s.vol)  y == Seen(t.vol)  b == rootDirStart_
<1>1. /\ CacheOK(s.vol) /\ WellFormed(x) /\ Chained(Fat(x), q) /\ IsVolume(t.vol)
      /\ s.vol.allocSearchStart_ \in 2 .. clusterCount_ + 2
  BY DEF Sound, IsCall
<1>2. b \in SeenBlocks /\ b \notin FatBlocks
  BY Regions
<1>3. t.vol.cacheMirrorBlock_ = 0
  BY <1>1, <1>2 DEF CacheOK
<1>4. /\ CacheOK(t.vol) /\ ~Stuck(t.vol)
      /\ y = [x EXCEPT ![b] = t.vol.cacheBuffer_]
  <2> DEFINE v == s.vol  w == t.vol
  <2>1. /\ CacheOK(v) /\ IsVolume(w) /\ w.card = v.card
        /\ w.cacheBlockNumber_ = b /\ w.cacheDirty_ = TRUE
        /\ (v.cacheBlockNumber_ = b \/ ~v.cacheDirty_)
        /\ w.cacheMirrorBlock_ = IF b \in FatBlocks THEN b + blocksPerFat_ ELSE 0
    BY <1>1, <1>2, <1>3
  <2>2. b \in SeenBlocks
    BY <1>2
  <2> HIDE DEF b, v, w, x, y
  <2>3. CacheOK(w) /\ ~Stuck(w) /\ Seen(w) = [Seen(v) EXCEPT ![b] = w.cacheBuffer_]
    <3>1. Stored(v, w, b)
      BY <2>2, <2>1 DEF Stored
    <3>2. QED
      BY <3>1, StoreIs
  <2>4. CacheOK(t.vol) /\ ~Stuck(t.vol)
    BY <2>3 DEF v, w
  <2>5. Seen(t.vol) = [Seen(s.vol) EXCEPT ![b] = t.vol.cacheBuffer_]
    BY <2>3, Zenon DEF v, w
  <2>6. QED
    BY <2>4, <2>5, Zenon DEF x, y
<1>5. s.vol.cacheBuffer_ = x[b]
  BY <1>1, <1>2, SeenIs
<1>6. DOMAIN x = SeenBlocks
  BY <1>1 DEF WellFormed
<1>7. /\ y[b] = [x[b] EXCEPT ![i] = e] /\ DOMAIN y = SeenBlocks
      /\ \A d \in SeenBlocks : d # b => y[d] = x[d]
  BY <1>2, <1>4, <1>5, <1>6
<1> HIDE DEF x, y
<1>8. FatBlocks \subseteq SeenBlocks /\ \A d \in FatBlocks : d # b
  BY <1>2, Regions
<1>9. WellFormed(y)
  <2>1. \A d \in FatBlocks : y[d] = [c \in FatDomain(d) |-> y[d][c]]
    BY <1>1, <1>7, <1>8 DEF WellFormed
  <2>2. x[b] = [j \in 1 .. DirSlots |-> x[b][j]] /\ \A j \in 1 .. DirSlots : IsEntry(x[b][j])
    BY <1>1 DEF WellFormed
  <2>3. y[b] = [j \in 1 .. DirSlots |-> y[b][j]] /\ \A j \in 1 .. DirSlots : IsEntry(y[b][j])
    BY <2>2, <1>7
  <2>4. QED
    BY <2>1, <2>3, <1>7 DEF WellFormed
<1>10. Fat(y) = Fat(x)
  <2>1. \A c \in Clusters : y[fatBlock(c)] = x[fatBlock(c)]
    BY <1>7, <1>8, Geometry
  <2>2. QED
    BY <2>1 DEF Fat
<1>11. Sound(t, q)
  BY <1>1, <1>4, <1>9, <1>10 DEF Sound, y
<1>12. QED
  BY <1>4, <1>7, <1>11 DEF DirTo, Dir, x, y

\* The entry of a file on the card is the one of an open file.
EntryOf(e, f) == [e EXCEPT !.fileSize = f.fileSize_, !.firstCluster = f.firstCluster_]

\* sync() writes size and first cluster of the file to its entry, and only there.
LEMMA SyncIs ==
    ASSUME NEW s, NEW q, Sound(s, q), s.ok,
           s.file.dirIndex_ \in 1 .. DirSlots, s.file.dirDirty \in BOOLEAN
    PROVE  LET t == sync(s)  i == s.file.dirIndex_  dir == Dir(Seen(s.vol))
           IN  /\ t.ok = ~Stuck(s.vol)
               /\ Sound(t, q) /\ (Stuck(t.vol) <=> Stuck(s.vol))
               /\ ~t.ok => t.file = s.file /\ Seen(t.vol) = Seen(s.vol)
               /\ t.ok => /\ t.file = [s.file EXCEPT !.dirDirty = FALSE]
                          /\ ~t.vol.cacheDirty_
                          /\ DirTo(s, t, IF s.file.dirDirty
                                           THEN [dir EXCEPT ![i] = EntryOf(dir[i], s.file)]
                                           ELSE dir)
<1> DEFINE t == sync(s)  i == s.file.dirIndex_  dir == Dir(Seen(s.vol))  b == rootDirStart_
<1>1. IsCall(s) /\ IsFile(s.file)
  BY DEF Sound, IsCall
<1>2. CASE ~s.file.dirDirty
  <2>1. t = cacheFlush(s)
    BY <1>2 DEF sync
  <2>2. s.file = [s.file EXCEPT !.dirDirty = FALSE]
    BY <1>1, <1>2 DEF IsFile, FileFields
  <2>3. /\ Sound(t, q) /\ Idle(s, t) /\ t.ok = ~Stuck(s.vol)
        /\ t.ok => ~t.vol.cacheDirty_
    BY <2>1, FlushSound
  <2> HIDE DEF t
  <2>4. QED
    BY <2>2, <2>3, <1>2 DEF Idle, DirTo, t
<1>3. CASE s.file.dirDirty
  <2> DEFINE u == cacheRawBlock(s, b, TRUE)
             w == [u EXCEPT
                !.vol.cacheBuffer_[u.file.dirIndex_].fileSize = u.file.fileSize_,
                !.vol.cacheBuffer_[u.file.dirIndex_].firstCluster = u.file.firstCluster_,
                !.file.dirDirty = FALSE]
  <2>1. b \in SeenBlocks /\ b \notin FatBlocks
    BY Regions
  <2>2. t = IF u.ok THEN cacheFlush(w) ELSE u
    BY <1>3 DEF sync, cacheDirEntry, Then
  <2>3. /\ Sound(u, q) /\ Idle(s, u) /\ u.ok = ~Stuck(s.vol)
        /\ u.ok => /\ u.vol.cacheBlockNumber_ = b
                   /\ u.vol.cacheBuffer_ = Seen(s.vol)[b]
                   /\ u.vol.cacheDirty_
    BY <2>1, RawDirty
  <2> HIDE DEF u
  <2>4. CASE ~u.ok
    <3>1. t = u
      BY <2>2, <2>4
    <3>2. QED
      BY <3>1, <2>3, <2>4 DEF Idle
  <2>5. CASE u.ok
    <3>1. IsCall(u) /\ u.file = s.file /\ Seen(u.vol) = Seen(s.vol) /\ WellFormed(Seen(u.vol))
      BY <2>3 DEF Sound, Idle
    <3> DEFINE e == EntryOf(dir[i], s.file)
    <3>2. /\ dir = [j \in 1 .. DirSlots |-> dir[j]] /\ \A j \in 1 .. DirSlots : IsEntry(dir[j])
      BY <3>1 DEF WellFormed, Dir
    <3>3. IsEntry(e)
      BY <3>2 DEF IsEntry, EntryFields, EntryOf
    <3>4. /\ IsCall(w) /\ w.ok /\ w.file = [s.file EXCEPT !.dirDirty = FALSE]
          /\ w.vol.card = u.vol.card
          /\ w.vol.cacheBlockNumber_ = u.vol.cacheBlockNumber_
          /\ w.vol.cacheBuffer_ = [u.vol.cacheBuffer_ EXCEPT ![i] = e]
          /\ w.vol.cacheDirty_ = u.vol.cacheDirty_
          /\ w.vol.cacheMirrorBlock_ = u.vol.cacheMirrorBlock_
          /\ w.vol.allocSearchStart_ = u.vol.allocSearchStart_
      <4>1. u.vol.cacheBuffer_ = dir
        BY <2>3, <2>5 DEF Dir
      <4> HIDE DEF dir
      <4> DEFINE buffer == [u.vol.cacheBuffer_ EXCEPT ![i] = e]
                 vol    == [u.vol EXCEPT !.cacheBuffer_ = buffer]
                 file   == [s.file EXCEPT !.dirDirty = FALSE]
      <4>2. w = [u EXCEPT !.vol = vol, !.file = file]
        <5>1. [[u.vol.cacheBuffer_ EXCEPT ![i].fileSize = s.file.fileSize_]
                  EXCEPT ![i].firstCluster = s.file.firstCluster_] = buffer
          BY <4>1, <3>2 DEF EntryOf, IsEntry, EntryFields
        <5>2. [[u.vol EXCEPT !.cacheBuffer_[i].fileSize = s.file.fileSize_]
                  EXCEPT !.cacheBuffer_[i].firstCluster = s.file.firstCluster_] = vol
          BY <5>1, <3>1 DEF IsCall, IsVolume, VolumeFields
        <5> HIDE DEF buffer, e
        <5> DEFINE v1 == [u.vol EXCEPT !.cacheBuffer_[i].fileSize = s.file.fileSize_]
                   v2 == [v1 EXCEPT !.cacheBuffer_[i].firstCluster = s.file.firstCluster_]
                   u1 == [u EXCEPT !.vol = v1]
        <5>3. [u EXCEPT !.vol.cacheBuffer_[i].fileSize = s.file.fileSize_] = u1
          BY <3>1 DEF IsCall, CallFields
        <5>4. u1 = [x \in CallFields |-> u1[x]] /\ u1.vol = v1
          BY <3>1 DEF IsCall, CallFields
        <5> HIDE DEF v1
        <5>5. [u1 EXCEPT !.vol.cacheBuffer_[i].firstCluster = s.file.firstCluster_]
              = [u1 EXCEPT !.vol = v2]
          BY <5>4 DEF IsCall, CallFields
        <5>6. v2 = vol
          BY <5>2 DEF v1
        <5> HIDE DEF v2, vol
        <5>7. [[u EXCEPT !.vol.cacheBuffer_[i].fileSize = s.file.fileSize_]
                  EXCEPT !.vol.cacheBuffer_[i].firstCluster = s.file.firstCluster_]
              = [u EXCEPT !.vol = vol]
          BY <5>3, <5>5, <5>6, <3>1 DEF IsCall, CallFields
        <5>8. QED
          BY <5>7, <3>1 DEF IsCall, CallFields
      <4> HIDE DEF w, buffer
      <4>3. IsVolume(vol) /\ IsFile(file)
        BY <3>1 DEF IsCall, IsVolume, IsFile, VolumeFields, FileFields
      <4>4. IsCall(w) /\ w.ok /\ w.file = file /\ w.vol = vol
        BY <4>2, <4>3, <3>1, <2>5 DEF IsCall, CallFields
      <4>5. QED
        BY <4>4, <3>1 DEF IsCall, IsVolume, VolumeFields, buffer
    <3> HIDE DEF w, e
    <3>5. /\ Sound(w, q) /\ ~Stuck(w.vol)
          /\ DirTo(u, w, [Dir(Seen(u.vol)) EXCEPT ![i] = e])
      <4>1. w.vol.cacheDirty_ = TRUE
        <5>1. u.vol.cacheDirty_ \in BOOLEAN
          BY <2>3 DEF Sound, CacheOK
        <5>2. QED
          BY <5>1, <3>4, <2>3, <2>5
      <4>2. QED
        BY <4>1, <3>3, <3>4, <2>3, <2>5, DirStoreIs
    <3> DEFINE z == cacheFlush(w)
    <3>6. /\ Sound(z, q) /\ Idle(w, z) /\ z.ok = ~Stuck(w.vol)
          /\ z.ok => ~z.vol.cacheDirty_
      BY <3>4, <3>5, FlushSound
    <3>7. t = z
      BY <2>2, <2>5
    <3> HIDE DEF z, t
    <3>8. DirTo(s, z, [dir EXCEPT ![i] = e])
      BY <3>1, <3>5, <3>6 DEF DirTo, Idle
    <3>9. QED
      BY <3>4, <3>5, <3>6, <3>7, <3>8, <2>3, <2>5, <1>3 DEF Idle, e, t
  <2>6. QED
    BY <2>4, <2>5
<1>4. QED
  BY <1>2, <1>3

----------------------------------------------------------------------------
(* Moving in a file *)

\* Nothing has changed but the cache and the file.
Quiet(s, t) ==
    /\ Seen(t.vol) = Seen(s.vol)
    /\ Stuck(t.vol) <=> Stuck(s.vol)

\* A change of the open file alone.
LEMMA FileSet ==
    ASSUME NEW s, NEW q, Sound(s, q), NEW f, IsFile(f)
    PROVE  LET t == [s EXCEPT !.file = f]
           IN  /\ Sound(t, q) /\ t.file = f /\ t.ok = s.ok /\ t.vol = s.vol
               /\ t.out = s.out /\ Quiet(s, t)
<1> DEFINE t == [s EXCEPT !.file = f]
<1>1. IsCall(t) /\ t.file = f /\ t.ok = s.ok /\ t.vol = s.vol /\ t.out = s.out
  BY DEF Sound, IsCall, CallFields
<1> HIDE DEF t
<1>2. QED
  BY <1>1 DEF Sound, Quiet, t

LEMMA FailedSound ==
    ASSUME NEW s, NEW q, Sound(s, q)
    PROVE  LET t == Failed(s)
           IN  /\ Sound(t, q) /\ t.file = s.file /\ t.ok = FALSE /\ t.vol = s.vol
               /\ Quiet(s, t)
<1> DEFINE t == Failed(s)
<1>1. IsCall(t) /\ t.file = s.file /\ t.ok = FALSE /\ t.vol = s.vol
  BY FailedIs DEF Sound
<1> HIDE DEF t
<1>2. QED
  BY <1>1 DEF Sound, Quiet, t

\* A step to the next cluster of the chain.
LEMMA LinkIs ==
    ASSUME NEW s, NEW q, Sound(s, q), s.ok, s.file.curCluster_ \in Clusters
    PROVE  LET t == nextLink(s)
           IN  /\ Sound(t, q) /\ Quiet(s, t) /\ t.ok = ~Stuck(s.vol)
               /\ ~t.ok => t.file = s.file
               /\ t.ok => t.file = [s.file EXCEPT !.curCluster_ =
                                       Fat(Seen(s.vol))[s.file.curCluster_]]
<1> DEFINE c == s.file.curCluster_  u == fatGet(s, c)  t == nextLink(s)
<1>1. IsCall(s) /\ CacheOK(s.vol) /\ IsFile(s.file)
  BY DEF Sound, IsCall
<1>2. /\ Looked(s, u) /\ u.ok = ~Stuck(s.vol)
      /\ u.ok => u.out = Fat(Seen(s.vol))[c]
  BY <1>1, FatGetIs
<1>3. t = IF u.ok THEN [u EXCEPT !.file.curCluster_ = u.out] ELSE u
  BY DEF nextLink, Then
<1> HIDE DEF u
<1>4. Sound(u, q) /\ Idle(s, u)
  BY <1>2, LookedSound
<1>5. u.file = s.file /\ Quiet(s, u)
  BY <1>4 DEF Idle, Quiet
<1>6. CASE ~u.ok
  BY <1>2, <1>3, <1>4, <1>5, <1>6
<1>7. CASE u.ok
  <2> DEFINE f == [s.file EXCEPT !.curCluster_ = Fat(Seen(s.vol))[c]]
  <2>1. IsFile(f)
    BY <1>1 DEF IsFile, FileFields
  <2>2. t = [u EXCEPT !.file = f]
    BY <1>2, <1>3, <1>4, <1>5, <1>7 DEF Sound, IsCall, CallFields
  <2> HIDE DEF f, t
  <2>3. /\ Sound(t, q) /\ t.file = f /\ t.ok = u.ok /\ t.vol = u.vol
    BY <2>1, <2>2, <1>4, FileSet
  <2>4. QED
    BY <2>3, <1>2, <1>5, <1>7 DEF Quiet, f, t
<1>8. QED
  BY <1>6, <1>7

\* The body of the loop of seekSet.
followTurn(t) == IF t.ok THEN nextLink(t) ELSE t

\* The recursive function of the walk along a chain, as its turns.
LEMMA FollowDef ==
    ASSUME NEW s, NEW n \in Nat
    PROVE  \E f : /\ f = [k \in 0 .. n |-> IF k = 0 THEN s ELSE followTurn(f[k - 1])]
                  /\ follow(s, n) = f[n]
<1> DEFINE Is(f, N) == f = [k \in 0 .. N |-> IF k = 0 THEN s ELSE Then(f[k - 1], nextLink)]
           walked[k \in 0 .. n] == IF k = 0 THEN s ELSE Then(walked[k - 1], nextLink)
<1>1. follow(s, n) = walked[n]
  BY DEF follow
<1>2. ASSUME NEW x PROVE Then(x, nextLink) = followTurn(x)
  BY DEF Then, followTurn
<1>3. \A N \in Nat : \E f : Is(f, N)
  <2> DEFINE S == {N \in Nat : \E f : Is(f, N)}
  <2>1. 0 \in S
    <3>1. Is([k \in 0 .. 0 |-> s], 0)
      OBVIOUS
    <3>2. QED
      BY <3>1
  <2>2. ASSUME NEW N \in Nat, N \in S PROVE N + 1 \in S
    <3>1. PICK f : Is(f, N)
      BY <2>2
    <3> DEFINE g == [k \in 0 .. N + 1 |-> IF k = N + 1 THEN Then(f[N], nextLink) ELSE f[k]]
    <3>2. Is(g, N + 1)
      BY <3>1
    <3> HIDE DEF g, Is
    <3>3. QED
      BY <3>2
  <2> HIDE DEF S
  <2>3. Nat \subseteq S
    BY <2>1, <2>2, SetInduction
  <2>4. QED
    BY <2>3 DEF S
<1>4. PICK f : Is(f, n)
  BY <1>3
<1>5. walked = CHOOSE g : Is(g, n)
  OBVIOUS
<1> HIDE DEF walked
<1>6. Is(walked, n)
  BY <1>4, <1>5
<1>7. walked = [k \in 0 .. n |-> IF k = 0 THEN s ELSE followTurn(walked[k - 1])]
  BY <1>6, <1>2
<1>8. QED
  BY <1>1, <1>7

\* A stuck cache ends the walk where it began.
LEMMA FollowStuck ==
    ASSUME NEW s, NEW q, Sound(s, q), s.ok, s.file.curCluster_ \in Clusters,
           Stuck(s.vol), NEW n \in Nat
    PROVE  LET t == follow(s, n)
           IN  Sound(t, q) /\ Quiet(s, t) /\ t.file = s.file
<1>1. PICK f : /\ f = [k \in 0 .. n |-> IF k = 0 THEN s ELSE followTurn(f[k - 1])]
               /\ follow(s, n) = f[n]
  BY FollowDef
<1>2. f[0] = s /\ \A k \in 0 .. n : k # 0 => f[k] = followTurn(f[k - 1])
  BY <1>1
<1> DEFINE Held(t) == Sound(t, q) /\ Quiet(s, t) /\ t.file = s.file
           S == {k \in Nat : k \in 0 .. n => Held(f[k])}
<1>3. 0 \in S
  <2>1. Held(s)
    BY DEF Quiet
  <2>2. QED
    BY <2>1, <1>2
<1>4. ASSUME NEW k \in Nat, k \in S PROVE k + 1 \in S
  <2>1. SUFFICES ASSUME k + 1 \in 0 .. n PROVE Held(f[k + 1])
    OBVIOUS
  <2> DEFINE t == f[k]  u == nextLink(t)
  <2>2. Held(t)
    BY <1>4, <2>1
  <2>3. f[k + 1] = followTurn(t)
    BY <1>2, <2>1
  <2> HIDE DEF t
  <2>4. CASE ~t.ok
    BY <2>2, <2>3, <2>4 DEF followTurn
  <2>5. CASE t.ok
    <3>1. /\ Sound(u, q) /\ Quiet(t, u) /\ u.ok = ~Stuck(t.vol)
          /\ ~u.ok => u.file = t.file
      BY <2>2, <2>5, LinkIs
    <3>2. f[k + 1] = u
      BY <2>3, <2>5 DEF followTurn
    <3> HIDE DEF u
    <3>3. QED
      BY <3>1, <3>2, <2>2 DEF Quiet
  <2>6. QED
    BY <2>4, <2>5
<1> HIDE DEF S, Held
<1>5. Nat \subseteq S
  BY <1>3, <1>4, SetInduction
<1>6. Held(f[n])
  BY <1>5 DEF S
<1>7. QED
  BY <1>1, <1>6 DEF Held

\* The file of s stands at the i-th cluster of the chain of m, n before the last-th.
Follows(s, q, m, i, n, last) ==
    /\ Sound(s, q) /\ s.ok /\ ~Stuck(s.vol)
    /\ m \in Name /\ i \in 1 .. Len(q[m]) /\ s.file.curCluster_ = q[m][i]
    /\ n \in Nat /\ last \in 1 .. Len(q[m]) /\ last = i + n

LEMMA FollowIs ==
    ASSUME NEW s, NEW q, NEW m, NEW i, NEW n, NEW last, Follows(s, q, m, i, n, last)
    PROVE  LET t == follow(s, n)
           IN  /\ Sound(t, q) /\ Quiet(s, t) /\ t.ok
               /\ t.file = [s.file EXCEPT !.curCluster_ = q[m][last]]
<1>0. /\ Sound(s, q) /\ s.ok /\ ~Stuck(s.vol)
      /\ m \in Name /\ i \in 1 .. Len(q[m]) /\ s.file.curCluster_ = q[m][i]
      /\ n \in Nat /\ last \in 1 .. Len(q[m]) /\ last = i + n
  BY DEF Follows
<1>1. PICK f : /\ f = [k \in 0 .. n |-> IF k = 0 THEN s ELSE followTurn(f[k - 1])]
               /\ follow(s, n) = f[n]
  BY <1>0, FollowDef
<1>2. f[0] = s /\ \A k \in 0 .. n : k # 0 => f[k] = followTurn(f[k - 1])
  BY <1>0, <1>1
<1>3. IsFile(s.file) /\ Chained(Fat(Seen(s.vol)), q)
  BY <1>0 DEF Sound, IsCall
<1>4. q[m] \in Seq(Clusters) /\ Len(q[m]) \in Nat
  BY <1>0, <1>3 DEF Chained
<1> USE <1>0
<1> DEFINE Held(t, k) == /\ Sound(t, q) /\ Quiet(s, t) /\ t.ok
                         /\ t.file = [s.file EXCEPT !.curCluster_ = q[m][i + k]]
           S == {k \in Nat : k \in 0 .. n => Held(f[k], k)}
<1>5. 0 \in S
  <2>1. s.file = [s.file EXCEPT !.curCluster_ = q[m][i + 0]]
    BY <1>3, <1>4 DEF IsFile, FileFields
  <2>2. Held(s, 0)
    BY <2>1 DEF Quiet
  <2>3. QED
    BY <2>2, <1>2
<1>6. ASSUME NEW k \in Nat, k \in S PROVE k + 1 \in S
  <2>1. SUFFICES ASSUME k + 1 \in 0 .. n PROVE Held(f[k + 1], k + 1)
    OBVIOUS
  <2> DEFINE t == f[k]  u == nextLink(t)  j == i + k
  <2>2. Held(t, k)
    BY <1>6, <2>1
  <2>3. f[k + 1] = followTurn(t)
    BY <1>2, <2>1
  <2>4. j \in 1 .. Len(q[m]) /\ j + 1 \in 1 .. Len(q[m]) /\ j < Len(q[m]) /\ i + (k + 1) = j + 1
    BY <1>4, <2>1
  <2>5. t.file.curCluster_ = q[m][j] /\ q[m][j] \in Clusters
    BY <2>2, <2>4, <1>3, <1>4 DEF IsFile, FileFields
  <2> HIDE DEF t, j
  <2>6. Fat(Seen(s.vol))[q[m][j]] = q[m][j + 1]
    BY <1>3, <2>4 DEF Chained
  <2>7. Seen(t.vol) = Seen(s.vol) /\ ~Stuck(t.vol)
    BY <2>2 DEF Quiet
  <2>8. /\ Sound(u, q) /\ Quiet(t, u) /\ u.ok = ~Stuck(t.vol)
        /\ u.ok => u.file = [t.file EXCEPT !.curCluster_ =
                                Fat(Seen(t.vol))[t.file.curCluster_]]
    BY <2>2, <2>5, LinkIs
  <2>9. f[k + 1] = u
    BY <2>3, <2>2 DEF followTurn
  <2> HIDE DEF u
  <2>10. u.file = [s.file EXCEPT !.curCluster_ = q[m][j + 1]]
    <3>1. t.file = [s.file EXCEPT !.curCluster_ = q[m][i + k]]
      BY <2>2
    <3>2. u.file = [t.file EXCEPT !.curCluster_ = q[m][j + 1]]
      BY <2>5, <2>6, <2>7, <2>8
    <3>3. QED
      BY <3>1, <3>2, <1>3 DEF IsFile, FileFields
  <2>11. QED
    BY <2>2, <2>4, <2>7, <2>8, <2>9, <2>10 DEF Quiet
<1> HIDE DEF S, Held
<1>7. Nat \subseteq S
  BY <1>5, <1>6, SetInduction
<1>8. Held(f[n], n)
  BY <1>7 DEF S
<1>9. QED
  BY <1>1, <1>8 DEF Held

\* A file that has moved within its chain is still in order.
LEMMA MovedFile ==
    ASSUME NEW f, NEW g, NEW v, FileOK(f, g, v),
           NEW c, NEW pos \in Nat, pos <= Len(g) * ClusterBytes,
           ~f.writable => pos <= f.fileSize_,
           Placed([f EXCEPT !.curCluster_ = c, !.curPosition_ = pos], g)
              \/ (Stuck(v) /\ InChain(c, g))
    PROVE  FileOK([f EXCEPT !.curCluster_ = c, !.curPosition_ = pos], g, v)
<1> DEFINE h == [f EXCEPT !.curCluster_ = c, !.curPosition_ = pos]
<1>1. /\ IsFile(h) /\ h.writable = f.writable /\ h.dirDirty = f.dirDirty
      /\ h.writeError = f.writeError /\ h.dirIndex_ = f.dirIndex_
      /\ h.firstCluster_ = f.firstCluster_ /\ h.fileSize_ = f.fileSize_
      /\ h.curCluster_ = c /\ h.curPosition_ = pos
  BY DEF FileOK, IsFile, FileFields
<1> HIDE DEF h
<1>2. Placed(h, g) \/ (Stuck(v) /\ InChain(h.curCluster_, g))
  BY <1>1 DEF h
<1>3. QED
  BY <1>1, <1>2 DEF FileOK, h

\* seekSet stands at the cluster of the byte before the new position.
LEMMA SeekIs ==
    ASSUME NEW s, NEW q, Sound(s, q), s.ok, NEW n \in Name,
           FileOK(s.file, q[n], s.vol), NEW pos \in Nat, pos <= s.file.fileSize_
    PROVE  LET t == seekSet(s, pos)
           IN  /\ Sound(t, q) /\ Quiet(s, t)
               /\ FileOK(t.file, q[n], s.vol)
               /\ t.file = [s.file EXCEPT !.curCluster_ = t.file.curCluster_,
                                          !.curPosition_ = t.file.curPosition_]
               /\ ~Stuck(s.vol) => t.ok /\ t.file.curPosition_ = pos
               /\ pos = 0 => /\ t.ok /\ t.vol = s.vol
                             /\ t.file.curCluster_ = 0 /\ t.file.curPosition_ = 0
<1> DEFINE t     == seekSet(s, pos)
           f     == s.file
           g     == q[n]
           nCur  == (f.curPosition_ - 1) \div ClusterBytes
           nNew  == (pos - 1) \div ClusterBytes
           back  == f.curPosition_ = 0 \/ nNew < nCur
           from  == IF back THEN [s EXCEPT !.file.curCluster_ = f.firstCluster_] ELSE s
           count == IF back THEN nNew ELSE nNew - nCur
           u     == follow(from, count)
<1>1. /\ IsFile(f) /\ g \in Seq(Clusters) /\ Len(g) \in Nat
      /\ Chained(Fat(Seen(s.vol)), q)
  <2>1. IsFile(f) /\ Chained(Fat(Seen(s.vol)), q)
    BY DEF Sound, IsCall
  <2>2. g \in Seq(Clusters) /\ Len(g) \in Nat
    BY <2>1 DEF Chained
  <2>3. QED
    BY <2>1, <2>2
<1>2. /\ f.fileSize_ \in Nat /\ f.fileSize_ <= Len(g) * ClusterBytes
      /\ f.curPosition_ \in Nat /\ f.curPosition_ <= Len(g) * ClusterBytes
      /\ BeginsAt(f.firstCluster_, f.fileSize_, g)
      /\ Placed(f, g) \/ (Stuck(s.vol) /\ InChain(f.curCluster_, g))
  BY DEF FileOK, BeginsAt
<1>3. pos \in Nat /\ ~(pos > f.fileSize_) /\ pos <= f.fileSize_ /\ pos <= Len(g) * ClusterBytes
  <2> DEFINE most == Len(g) * ClusterBytes
  <2>1. most \in Nat
    BY <1>1, Multiples
  <2>2. f.fileSize_ \in Nat /\ f.fileSize_ <= most /\ pos <= f.fileSize_
    BY <1>2
  <2> HIDE DEF most
  <2>3. pos <= most /\ ~(pos > f.fileSize_)
    BY <2>1, <2>2
  <2>4. QED
    BY <2>2, <2>3 DEF most
<1>4. f = [f EXCEPT !.curCluster_ = f.curCluster_, !.curPosition_ = f.curPosition_]
  BY <1>1 DEF IsFile, FileFields
<1> HIDE DEF f
<1>5. CASE pos = 0
  <2> DEFINE h == [f EXCEPT !.curCluster_ = 0, !.curPosition_ = 0]
  <2>1. t = [s EXCEPT !.file.curCluster_ = 0, !.file.curPosition_ = 0]
    BY <1>3, <1>5 DEF seekSet, f
  <2>2. t = [s EXCEPT !.file = h]
    BY <2>1 DEF Sound, IsCall, CallFields, f
  <2>3. IsFile(h) /\ h.curCluster_ = 0 /\ h.curPosition_ = 0
    BY <1>1 DEF IsFile, FileFields
  <2>4. FileOK(h, g, s.vol)
    <3>1. Placed(h, g) /\ 0 \in Nat /\ 0 <= Len(g) * ClusterBytes
      BY <2>3, <1>3, <1>5 DEF Placed
    <3>2. 0 <= f.fileSize_ /\ FileOK(f, g, s.vol)
      BY <1>2 DEF f
    <3> HIDE DEF g
    <3>3. QED
      BY <3>1, <3>2, <1>1, MovedFile
  <2>5. /\ Sound(t, q) /\ t.file = h /\ t.ok = s.ok /\ t.vol = s.vol /\ Quiet(s, t)
    <3> HIDE DEF h, t, g
    <3>1. IsFile(h)
      BY <2>3
    <3>2. QED
      BY <2>2, <3>1, FileSet
  <2> HIDE DEF h, t
  <2>6. QED
    BY <2>3, <2>4, <2>5, <1>5 DEF h, t, f
<1>6. CASE pos # 0
  <2>1. t = IF u.ok THEN [u EXCEPT !.file.curPosition_ = pos] ELSE u
    BY <1>3, <1>6 DEF seekSet, Then, f
  <2>2. /\ g # <<>> /\ f.firstCluster_ = g[1] /\ 1 \in 1 .. Len(g) /\ g[1] \in Clusters
    BY <1>1, <1>2, <1>3, <1>6 DEF BeginsAt
  <2>3. /\ nNew \in Nat /\ nNew + 1 = Index(pos) /\ Index(pos) \in 1 .. Len(g)
        /\ f.curPosition_ # 0 =>
              /\ nCur \in Nat /\ nCur + 1 = Index(f.curPosition_)
              /\ Index(f.curPosition_) \in 1 .. Len(g)
    <3>1. Index(pos) = nNew + 1 /\ Index(f.curPosition_) = nCur + 1
      BY DEF Index
    <3>2. nNew \in Int /\ nCur \in Int
      <4>1. pos - 1 \in Int /\ f.curPosition_ - 1 \in Int /\ ClusterBytes \in Nat \ {0}
        BY <1>2, <1>3, Sizes
      <4> DEFINE a == pos - 1  b == f.curPosition_ - 1
      <4> HIDE DEF a, b
      <4>2. a \div ClusterBytes \in Int /\ b \div ClusterBytes \in Int
        BY <4>1, Euclid DEF a, b
      <4>3. QED
        BY <4>2 DEF a, b
    <3>3. Index(pos) > 0 /\ Index(pos) <= Len(g)
      <4>1. pos > 0
        BY <1>3, <1>6
      <4> DEFINE k == Len(g)
      <4> HIDE DEF k
      <4>2. k \in Nat /\ pos <= k * ClusterBytes
        BY <1>1, <1>3 DEF k
      <4>3. Index(pos) <= k /\ Index(pos) > 0
        BY <1>3, <4>1, <4>2, IndexIs, IndexWithin
      <4>4. QED
        BY <4>3 DEF k
    <3>4. f.curPosition_ # 0 => Index(f.curPosition_) > 0 /\ Index(f.curPosition_) <= Len(g)
      <4> DEFINE k == Len(g)  p == f.curPosition_
      <4> HIDE DEF k, p
      <4>1. k \in Nat /\ p \in Nat /\ p <= k * ClusterBytes
        BY <1>1, <1>2 DEF k, p
      <4>2. Index(p) <= k /\ (p # 0 => Index(p) > 0)
        BY <4>1, IndexIs, IndexWithin
      <4>3. QED
        BY <4>2 DEF k, p
    <3> HIDE DEF nNew, nCur
    <3>5. QED
      BY <3>1, <3>2, <3>3, <3>4, <1>1
  <2>4. count \in Nat
    BY <2>3
  <2> DEFINE f1 == IF back THEN [f EXCEPT !.curCluster_ = f.firstCluster_] ELSE f
  <2>5. IsFile(f1) /\ from = [s EXCEPT !.file = f1]
    <3>1. s.file = f /\ s = [s EXCEPT !.file = f]
      BY DEF Sound, IsCall, CallFields, f
    <3>2. [s EXCEPT !.file.curCluster_ = f.firstCluster_]
          = [s EXCEPT !.file = [f EXCEPT !.curCluster_ = f.firstCluster_]]
      BY DEF Sound, IsCall, CallFields, f
    <3>3. QED
      BY <3>1, <3>2, <1>1 DEF IsFile, FileFields
  <2>6. f1.curCluster_ = IF back THEN g[1] ELSE f.curCluster_
    BY <2>2, <1>1 DEF IsFile, FileFields
  <2>7. [f EXCEPT !.curCluster_ = f1.curCluster_] = f1
    BY <1>1 DEF IsFile, FileFields
  <2> HIDE DEF nNew, nCur, count, from, f1
  <2>8. Sound(from, q) /\ from.file = f1 /\ from.ok /\ from.vol = s.vol /\ Quiet(s, from)
    BY <2>5, FileSet
  <2> HIDE DEF u, t, back
  <2>9. ASSUME NEW c, Sound(u, q), Quiet(from, u),
               u.file = [f1 EXCEPT !.curCluster_ = c],
               u.ok \/ Stuck(s.vol), u.ok => c = g[Index(pos)] \/ (Stuck(s.vol) /\ InChain(c, g)),
               ~u.ok => InChain(c, g)
        PROVE  /\ Sound(t, q) /\ Quiet(s, t) /\ FileOK(t.file, g, s.vol)
               /\ t.file = [f EXCEPT !.curCluster_ = t.file.curCluster_,
                                     !.curPosition_ = t.file.curPosition_]
               /\ ~Stuck(s.vol) => t.ok /\ t.file.curPosition_ = pos
    <3> DEFINE p == IF u.ok THEN pos ELSE f.curPosition_
               h == [f EXCEPT !.curCluster_ = c, !.curPosition_ = p]
    <3>1. u.file = [f EXCEPT !.curCluster_ = c]
      BY <2>7, <2>9, <1>1 DEF IsFile, FileFields
    <3>2. IsFile(h) /\ h.curCluster_ = c /\ h.curPosition_ = p
      BY <1>1 DEF IsFile, FileFields
    <3>3. t = [u EXCEPT !.file = h]
      <4>1. CASE u.ok
        <5>1. t = [u EXCEPT !.file.curPosition_ = pos]
          BY <2>1, <4>1
        <5>2. h = [u.file EXCEPT !.curPosition_ = pos]
          BY <3>1, <4>1, <1>1 DEF IsFile, FileFields
        <5> HIDE DEF h
        <5>3. QED
          BY <5>1, <5>2, <2>9 DEF Sound, IsCall, CallFields
      <4>2. CASE ~u.ok
        <5>1. h = u.file
          BY <3>1, <4>2, <1>1 DEF IsFile, FileFields
        <5> HIDE DEF h
        <5>2. QED
          BY <5>1, <2>1, <4>2, <2>9 DEF Sound, IsCall, CallFields
      <4>3. QED
        BY <4>1, <4>2
    <3>4. FileOK(h, g, s.vol)
      <4>1. FileOK(f, g, s.vol) /\ p \in Nat /\ p <= Len(g) * ClusterBytes
        BY <1>1, <1>2, <1>3 DEF f
      <4>2. ~f.writable => p <= f.fileSize_
        BY <1>3, <4>1 DEF FileOK
      <4>3. Placed(h, g) \/ (Stuck(s.vol) /\ InChain(c, g))
        BY <3>2, <2>9, <1>6 DEF Placed
      <4> HIDE DEF p, g
      <4>4. QED
        BY <4>1, <4>2, <4>3, MovedFile
    <3> HIDE DEF h
    <3>5. Sound(t, q) /\ t.file = h /\ t.ok = u.ok /\ t.vol = u.vol
      BY <3>2, <3>3, <2>9, FileSet
    <3>6. Quiet(s, t)
      BY <3>5, <2>8, <2>9 DEF Quiet
    <3>7. QED
      BY <3>2, <3>4, <3>5, <3>6, <2>9 DEF h
  <2>10. CASE Stuck(s.vol)
    <3>1. f1.curCluster_ \in Clusters /\ InChain(f1.curCluster_, g)
      <4>1. CASE back
        BY <2>2, <2>6, <4>1 DEF InChain
      <4>2. CASE ~back
        <5>1. f.curPosition_ # 0
          BY <4>2 DEF back
        <5>2. InChain(f.curCluster_, g)
          BY <5>1, <1>1, <1>2, PlacedIs
        <5>3. f.curCluster_ \in Clusters
          BY <5>2, <1>1, InChainIs
        <5>4. QED
          BY <5>2, <5>3, <2>6, <4>2
      <4>3. QED
        BY <4>1, <4>2
    <3>2. Stuck(from.vol)
      BY <2>8, <2>10
    <3>3. Sound(u, q) /\ Quiet(from, u) /\ u.file = f1
      BY <3>1, <3>2, <2>4, <2>8, FollowStuck DEF u
    <3>4. f1 = [f1 EXCEPT !.curCluster_ = f1.curCluster_]
      BY <2>5 DEF IsFile, FileFields
    <3>5. QED
      BY <3>1, <3>3, <3>4, <2>9, <2>10, <1>6 DEF t, f
  <2>11. CASE ~Stuck(s.vol)
    <3> DEFINE i == IF back THEN 1 ELSE Index(f.curPosition_)
    <3>1. i \in 1 .. Len(g) /\ f1.curCluster_ = g[i] /\ i + count = Index(pos)
      <4>1. CASE back
        <5>1. count = nNew
          BY <4>1 DEF count
        <5>2. QED
          BY <5>1, <4>1, <2>2, <2>3, <2>6
      <4>2. CASE ~back
        <5>1. count = nNew - nCur /\ f.curPosition_ # 0
          BY <4>2 DEF count, back
        <5>2. nCur \in Nat /\ nCur + 1 = Index(f.curPosition_) /\ nNew \in Nat
              /\ Index(f.curPosition_) \in 1 .. Len(g)
          BY <5>1, <2>3
        <5>3. f.curCluster_ = g[Index(f.curPosition_)]
          BY <5>1, <2>11, <1>2 DEF Placed
        <5>4. QED
          BY <5>1, <5>2, <5>3, <4>2, <2>3, <2>6
      <4>3. QED
        BY <4>1, <4>2
    <3>2. ~Stuck(from.vol) /\ i + count <= Len(g)
      BY <2>3, <2>8, <2>11, <3>1, <1>1
    <3> HIDE DEF i
    <3>3. /\ Sound(u, q) /\ Quiet(from, u) /\ u.ok
          /\ u.file = [f1 EXCEPT !.curCluster_ = g[i + count]]
      <4> DEFINE w == follow(from, count)  last == Index(pos)
      <4>1. /\ Sound(from, q) /\ from.ok /\ ~Stuck(from.vol) /\ i \in 1 .. Len(q[n])
            /\ from.file.curCluster_ = q[n][i] /\ count \in Nat
            /\ last \in 1 .. Len(q[n]) /\ last = i + count
        BY <3>1, <3>2, <2>3, <2>4, <2>8
      <4> HIDE DEF g, last
      <4>2. /\ Sound(w, q) /\ Quiet(from, w) /\ w.ok
            /\ w.file = [from.file EXCEPT !.curCluster_ = q[n][last]]
        <5>1. Follows(from, q, n, i, count, last)
          BY <4>1 DEF Follows
        <5>2. QED
          BY <5>1, FollowIs
      <4>3. QED
        BY <4>1, <4>2, <2>8 DEF u, g, last
    <3>4. QED
      BY <3>1, <3>3, <2>9, <2>11, <1>6 DEF t, f
  <2>12. QED
    BY <2>10, <2>11
<1>7. QED
  BY <1>5, <1>6

----------------------------------------------------------------------------
(* The turns of read() and write() *)

\* The bytes of the turns, from position pos, n in all: each of one block.
Fits(turns, pos, n) ==
    /\ turns \in Seq(Nat \ {0})
    /\ \E at \in [0 .. Len(turns) -> pos .. pos + n] :
          /\ at[0] = pos /\ at[Len(turns)] = pos + n
          /\ \A k \in 1 .. Len(turns) :
                /\ turns[k] <= BlockSize - offsetInBlock(at[k - 1])
                /\ at[k] = at[k - 1] + turns[k]

PieceSize(pos, n, left) == Least(BlockSize - offsetInBlock(pos + n - left), left)

\* A turn of read() or write() stays in one block.
LEMMA PieceSizeIs ==
    ASSUME NEW pos \in Nat, NEW n \in Nat, NEW left \in 1 .. n
    PROVE  /\ PieceSize(pos, n, left) \in 1 .. left
           /\ PieceSize(pos, n, left) <= BlockSize - offsetInBlock(pos + (n - left))
<1> DEFINE p == pos + n - left  o == p % BlockSize
<1>1. p \in Int /\ BlockSize \in Nat \ {0} /\ pos + (n - left) = p
  OBVIOUS
<1>2. o \in Int /\ 0 <= o /\ o < BlockSize
  BY <1>1, Euclid
<1>3. offsetInBlock(p) = o
  BY DEF offsetInBlock
<1> HIDE DEF p, o
<1>4. /\ Least(BlockSize - o, left) \in 1 .. left
      /\ Least(BlockSize - o, left) <= BlockSize - o
  BY <1>2 DEF Least
<1>5. QED
  BY <1>1, <1>3, <1>4 DEF PieceSize, p

LEMMA PiecesDef ==
    ASSUME NEW pos \in Nat, NEW n \in Nat
    PROVE  \E f : /\ f = [left \in 0 .. n |->
                             IF left = 0 THEN <<>>
                             ELSE <<PieceSize(pos, n, left)>>
                                     \o f[left - PieceSize(pos, n, left)]]
                  /\ Pieces(pos, n) = f[n]
<1> DEFINE m(left) == PieceSize(pos, n, left)
           Is(f, N) == f = [left \in 0 .. N |->
                               IF left = 0 THEN <<>> ELSE <<m(left)>> \o f[left - m(left)]]
           cut[left \in 0 .. n] ==
               IF left = 0 THEN <<>> ELSE <<m(left)>> \o cut[left - m(left)]
<1>1. Pieces(pos, n) = cut[n]
  BY DEF Pieces, PieceSize
<1>2. ASSUME NEW left \in 1 .. n PROVE m(left) \in 1 .. left
  BY PieceSizeIs
<1> HIDE DEF m
<1>3. \A N \in Nat : N <= n => \E f : Is(f, N)
  <2> DEFINE S == {N \in Nat : N <= n => \E f : Is(f, N)}
  <2>1. 0 \in S
    <3>1. Is([k \in 0 .. 0 |-> <<>>], 0)
      OBVIOUS
    <3>2. QED
      BY <3>1
  <2>2. ASSUME NEW N \in Nat, N \in S PROVE N + 1 \in S
    <3>1. SUFFICES ASSUME N + 1 <= n PROVE \E f : Is(f, N + 1)
      OBVIOUS
    <3>2. PICK f : Is(f, N)
      BY <2>2, <3>1
    <3> DEFINE new == <<m(N + 1)>> \o f[(N + 1) - m(N + 1)]
               g == [k \in 0 .. N + 1 |-> IF k = N + 1 THEN new ELSE f[k]]
    <3>3. Is(g, N + 1)
      <4>1. ASSUME NEW k \in 0 .. N + 1
            PROVE  g[k] = IF k = 0 THEN <<>> ELSE <<m(k)>> \o g[k - m(k)]
        <5>1. CASE k = 0
          BY <5>1, <3>2
        <5>2. CASE k # 0 /\ k # N + 1
          <6>1. k \in 0 .. N /\ k \in 1 .. n
            BY <5>2, <3>1
          <6>2. m(k) \in 1 .. k /\ k - m(k) \in 0 .. N /\ k - m(k) # N + 1 /\ k - m(k) \in 0 .. N + 1
            BY <6>1, <1>2
          <6>3. f[k] = <<m(k)>> \o f[k - m(k)]
            BY <3>2, <5>2, <6>1
          <6>4. g[k] = f[k] /\ g[k - m(k)] = f[k - m(k)]
            BY <5>2, <6>2
          <6>5. QED
            BY <5>2, <6>3, <6>4
        <5>3. CASE k = N + 1
          <6>1. k \in 1 .. n
            BY <5>3, <3>1
          <6>2. m(k) \in 1 .. k /\ k - m(k) \in 0 .. N /\ k - m(k) # N + 1 /\ k - m(k) \in 0 .. N + 1
            BY <6>1, <1>2, <5>3
          <6>3. g[k] = new /\ g[k - m(k)] = f[k - m(k)]
            BY <5>3, <6>2
          <6>4. new = <<m(k)>> \o f[k - m(k)]
            BY <5>3
          <6>5. k # 0
            BY <6>1
          <6> HIDE DEF g, new
          <6>6. QED
            BY <6>3, <6>4, <6>5
        <5>4. QED
          BY <5>1, <5>2, <5>3
      <4>2. g = [k \in 0 .. N + 1 |-> g[k]]
        OBVIOUS
      <4> HIDE DEF g
      <4>3. QED
        BY <4>1, <4>2
    <3> HIDE DEF g, Is
    <3>4. QED
      BY <3>3
  <2> HIDE DEF S
  <2>3. Nat \subseteq S
    BY <2>1, <2>2, SetInduction
  <2>4. QED
    BY <2>3 DEF S
<1>4. PICK f : Is(f, n)
  BY <1>3
<1>5. cut = CHOOSE g : Is(g, n)
  OBVIOUS
<1> HIDE DEF cut
<1>6. Is(cut, n)
  BY <1>4, <1>5
<1>7. QED
  BY <1>1, <1>6 DEF m

\* The turns cover what is asked for, each within a block.
LEMMA PiecesFit ==
    ASSUME NEW pos \in Nat, NEW n \in Nat
    PROVE  Fits(Pieces(pos, n), pos, n)
<1> DEFINE m(left) == PieceSize(pos, n, left)
<1>1. PICK f : /\ f = [left \in 0 .. n |->
                          IF left = 0 THEN <<>> ELSE <<m(left)>> \o f[left - m(left)]]
               /\ Pieces(pos, n) = f[n]
  BY PiecesDef
<1>2. ASSUME NEW left \in 1 .. n
      PROVE  /\ m(left) \in 1 .. left
             /\ m(left) <= BlockSize - offsetInBlock(pos + (n - left))
  BY PieceSizeIs
<1> HIDE DEF m
<1> DEFINE Right(left) == Fits(f[left], pos + (n - left), left)
           S == {N \in Nat : \A left \in 0 .. N : left <= n => Right(left)}
<1>3. Right(0)
  <2>1. f[0] = <<>>
    BY <1>1
  <2> DEFINE at == [k \in 0 .. 0 |-> pos + n]
  <2>2. at \in [0 .. Len(<<>>) -> pos + n .. (pos + n) + 0] /\ at[0] = pos + n /\ Len(<<>>) = 0
    OBVIOUS
  <2> HIDE DEF at
  <2>3. \A k \in 1 .. Len(<<>>) : FALSE
    OBVIOUS
  <2>4. <<>> \in Seq(Nat \ {0})
    OBVIOUS
  <2>5. pos + (n - 0) = pos + n /\ (pos + n) + 0 = pos + n
    OBVIOUS
  <2>6. Fits(<<>>, pos + n, 0)
    BY <2>2, <2>3, <2>4, <2>5 DEF Fits
  <2>7. QED
    BY <2>1, <2>5, <2>6
<1>4. 0 \in S
  <2>1. \A left \in 0 .. 0 : left = 0
    OBVIOUS
  <2> HIDE DEF Right
  <2>2. QED
    BY <2>1, <1>3
<1>5. ASSUME NEW N \in Nat, N \in S PROVE N + 1 \in S
  <2>1. SUFFICES ASSUME NEW left \in 1 .. N + 1, left <= n, left = N + 1 PROVE Right(left)
    <3> HIDE DEF Right
    <3>1. \A l \in 0 .. N + 1 : l \in 0 .. N \/ (l = N + 1 /\ l \in 1 .. N + 1)
      OBVIOUS
    <3>2. QED
      BY <1>5, <3>1
  <2> DEFINE a == m(left)  rest == f[left - a]  p == pos + (n - left)
  <2>2. /\ a \in 1 .. left /\ a <= BlockSize - offsetInBlock(p)
        /\ left \in 1 .. n /\ left - a \in 0 .. N /\ left - a <= n
    BY <1>2, <2>1
  <2>3. f[left] = <<a>> \o rest
    <3>1. left \in 0 .. n /\ left # 0
      BY <2>1, <2>2
    <3>2. \A l \in 0 .. n : l # 0 => f[l] = <<m(l)>> \o f[l - m(l)]
      BY <1>1
    <3>3. QED
      BY <3>1, <3>2
  <2>4. pos + (n - (left - a)) = p + a /\ p \in Nat /\ a \in Nat \ {0} /\ left \in Nat
        /\ (p + a) + (left - a) = p + left
    BY <2>2
  <2>5. Fits(rest, p + a, left - a)
    BY <1>5, <2>2, <2>4
  <2> HIDE DEF a, rest, p
  <2>6. PICK at \in [0 .. Len(rest) -> p + a .. p + left] :
          /\ at[0] = p + a /\ at[Len(rest)] = p + left
          /\ \A k \in 1 .. Len(rest) :
                /\ rest[k] <= BlockSize - offsetInBlock(at[k - 1])
                /\ at[k] = at[k - 1] + rest[k]
    BY <2>4, <2>5 DEF Fits
  <2>7. rest \in Seq(Nat \ {0}) /\ Len(rest) \in Nat
    BY <2>5 DEF Fits
  <2> DEFINE all == <<a>> \o rest
             to  == [k \in 0 .. Len(rest) + 1 |-> IF k = 0 THEN p ELSE at[k - 1]]
  <2>8. /\ all \in Seq(Nat \ {0}) /\ Len(all) = Len(rest) + 1 /\ all[1] = a
        /\ \A k \in 2 .. Len(rest) + 1 : all[k] = rest[k - 1]
    BY <2>4, <2>7
  <2>9. /\ to \in [0 .. Len(all) -> p .. p + left] /\ to[0] = p /\ to[Len(all)] = p + left
        /\ \A k \in 1 .. Len(all) : to[k] = at[k - 1]
    BY <2>4, <2>6, <2>7, <2>8
  <2> HIDE DEF all, to
  <2>10. ASSUME NEW k \in 1 .. Len(all)
         PROVE  /\ all[k] <= BlockSize - offsetInBlock(to[k - 1])
                /\ to[k] = to[k - 1] + all[k]
    <3>1. CASE k = 1
      BY <3>1, <2>2, <2>4, <2>6, <2>7, <2>8, <2>9
    <3>2. CASE k # 1
      <4>1. k \in 2 .. Len(rest) + 1 /\ k - 1 \in 1 .. Len(rest) /\ k - 1 \in 1 .. Len(all)
        BY <3>2, <2>7, <2>8
      <4>2. all[k] = rest[k - 1] /\ to[k] = at[k - 1] /\ to[k - 1] = at[(k - 1) - 1]
        BY <4>1, <2>8, <2>9
      <4>3. /\ rest[k - 1] <= BlockSize - offsetInBlock(at[(k - 1) - 1])
            /\ at[k - 1] = at[(k - 1) - 1] + rest[k - 1]
        BY <4>1, <2>6
      <4>4. QED
        BY <4>2, <4>3
    <3>3. QED
      BY <3>1, <3>2
  <2>11. Fits(all, p, left)
    BY <2>8, <2>9, <2>10 DEF Fits
  <2>12. QED
    BY <2>3, <2>11 DEF all, p
<1> HIDE DEF S, Right
<1>6. Nat \subseteq S
  BY <1>4, <1>5, SetInduction
<1>7. Right(n)
  BY <1>6 DEF S
<1>8. pos + (n - n) = pos
  OBVIOUS
<1>9. QED
  BY <1>1, <1>7, <1>8 DEF Right

----------------------------------------------------------------------------
(* Data *)

DataBlocks == dataStartBlock_ .. clusterStartBlock(clusterCount_ + 2) - 1

\* Nothing but block b has changed.
BlockTo(s, t, b) == \A d \in SeenBlocks \ {b} : Seen(t.vol)[d] = Seen(s.vol)[d]

\* The FAT and the directory have not changed.
SameFiles(s, t) ==
    /\ Dir(Seen(t.vol)) = Dir(Seen(s.vol))
    /\ Fat(Seen(t.vol)) = Fat(Seen(s.vol))

\* The current block is one of data.
LEMMA CurrentIs ==
    ASSUME NEW s, s.file.curCluster_ \in Clusters, s.file.curPosition_ \in Nat
    PROVE  /\ currentBlock(s) \in DataBlocks
           /\ currentBlock(s) \in SeenBlocks /\ currentBlock(s) \in Blocks
           /\ currentBlock(s) \notin FatBlocks
           /\ currentBlock(s) # rootDirStart_ /\ currentBlock(s) # NoBlock
<1>1. blockOfCluster(s.file.curPosition_) \in 0 .. blocksPerCluster_ - 1
  BY BlockInCluster
<1>2. currentBlock(s) \in DataBlocks
  BY <1>1, Geometry DEF currentBlock, DataBlocks
<1>3. QED
  BY <1>2, Regions DEF DataBlocks, SeenBlocks

\* A change of the data leaves the FAT and the directory alone.
LEMMA DataKeeps ==
    ASSUME NEW s, NEW q, Sound(s, q), NEW t, IsCall(t), CacheOK(t.vol),
           t.vol.allocSearchStart_ = s.vol.allocSearchStart_,
           NEW b \in DataBlocks, BlockTo(s, t, b)
    PROVE  Sound(t, q) /\ SameFiles(s, t)
<1> DEFINE x == Seen(s.vol)  y == Seen(t.vol)
<1>1. /\ WellFormed(x) /\ Chained(Fat(x), q)
      /\ s.vol.allocSearchStart_ \in 2 .. clusterCount_ + 2
  BY DEF Sound
<1>2. DOMAIN y = SeenBlocks
  BY SeenIs
<1>3. \A d \in FatBlocks \cup {rootDirStart_} : y[d] = x[d]
  BY Regions DEF BlockTo, DataBlocks
<1> HIDE DEF x, y
<1>4. WellFormed(y)
  BY <1>1, <1>2, <1>3 DEF WellFormed
<1>5. Fat(y) = Fat(x)
  BY <1>3, Geometry DEF Fat
<1>6. QED
  BY <1>1, <1>3, <1>4, <1>5 DEF Sound, SameFiles, Dir, x, y

\* A whole block is written past the cache.
LEMMA WholeIs ==
    ASSUME NEW s, NEW q, Sound(s, q), s.file.curCluster_ \in Clusters,
           s.file.curPosition_ \in Nat, NEW bytes
    PROVE  LET t == writeWhole(s, bytes)
           IN  /\ Sound(t, q) /\ t.file = s.file /\ t.ok = s.ok
               /\ SameFiles(s, t)
               /\ Stuck(s.vol) => Stuck(t.vol)
<1> DEFINE b == currentBlock(s)
           v == s.vol
           n == IF v.cacheBlockNumber_ = b THEN NoBlock ELSE v.cacheBlockNumber_
           x == [i \in 0 .. BlockSize - 1 |-> bytes[i + 1]]
           u == [s EXCEPT !.vol.cacheBlockNumber_ = n]
           w == [v EXCEPT !.cacheBlockNumber_ = n]
           t == writeWhole(s, bytes)
<1>1. IsCall(s) /\ CacheOK(v) /\ IsVolume(v)
  BY DEF Sound, IsCall
<1>2. b \in DataBlocks /\ b \in SeenBlocks /\ b \in Blocks /\ b \notin FatBlocks /\ b # NoBlock
  BY CurrentIs
<1>3. t = writeBlock(u, b, x)
  BY DEF writeWhole
<1> HIDE DEF b, x
<1>4. u = [s EXCEPT !.vol = w] /\ IsVolume(w)
  BY <1>1 DEF IsCall, CallFields, IsVolume, VolumeFields
<1> HIDE DEF u, w
<1>5. IsCall(u) /\ u.vol = w /\ u.file = s.file /\ u.ok = s.ok
  BY <1>1, <1>4 DEF IsCall, CallFields
<1>6. /\ IsCall(t) /\ t.file = s.file /\ t.ok = s.ok
      /\ t.vol = [w EXCEPT !.card = [w.card EXCEPT ![b] = x]]
  BY <1>2, <1>3, <1>5, WriteBlockIs
<1> HIDE DEF t
<1>7. /\ t.vol.card = [v.card EXCEPT ![b] = x]
      /\ t.vol.cacheBlockNumber_ = n /\ t.vol.cacheBuffer_ = v.cacheBuffer_
      /\ t.vol.cacheDirty_ = v.cacheDirty_
      /\ t.vol.cacheMirrorBlock_ = v.cacheMirrorBlock_
      /\ t.vol.allocSearchStart_ = v.allocSearchStart_
  BY <1>1, <1>6 DEF IsVolume, VolumeFields, w
<1>8. /\ v.card = [d \in Blocks |-> v.card[d]]
      /\ v.cacheBlockNumber_ \in SeenBlocks \cup {NoBlock}
  BY <1>1 DEF CacheOK
<1>9. \A d \in Blocks : d # b => t.vol.card[d] = v.card[d]
  BY <1>7, <1>8
<1>10. \A d \in FatBlocks : /\ d \in Blocks /\ d # b /\ d + blocksPerFat_ \in Blocks
                            /\ d + blocksPerFat_ # b
  BY <1>2, Regions DEF SeenBlocks
<1>11. CacheOK(t.vol)
  <2>1. IsVolume(t.vol)
    BY <1>6 DEF IsCall
  <2>2. t.vol.card = [d \in Blocks |-> t.vol.card[d]]
    BY <1>7, <1>8
  <2>3. n \in SeenBlocks \cup {NoBlock} /\ NoBlock \notin FatBlocks
    BY <1>8, Regions DEF SeenBlocks
  <2>4. v.cacheMirrorBlock_ = IF v.cacheDirty_ /\ n \in FatBlocks THEN n + blocksPerFat_ ELSE 0
    BY <1>1, <1>2, <2>3 DEF CacheOK
  <2>5. ~v.cacheDirty_ /\ n # NoBlock => v.cacheBuffer_ = t.vol.card[n]
    BY <1>1, <1>9, <2>3, Regions DEF CacheOK, SeenBlocks
  <2>6. \A d \in FatBlocks : t.vol.card[d + blocksPerFat_] = t.vol.card[d]
    BY <1>1, <1>9, <1>10 DEF CacheOK
  <2>7. v.cacheDirty_ \in BOOLEAN
    BY <1>1 DEF CacheOK
  <2> HIDE DEF n
  <2>8. QED
    BY <1>7, <2>1, <2>2, <2>3, <2>4, <2>5, <2>6, <2>7 DEF CacheOK
<1>12. BlockTo(s, t, b)
  <2>1. ASSUME NEW d \in SeenBlocks, d # b PROVE Seen(t.vol)[d] = Seen(v)[d]
    <3>1. d \in Blocks /\ d # NoBlock
      BY Regions DEF SeenBlocks
    <3>2. (d = n) <=> (d = v.cacheBlockNumber_)
      <4>1. CASE v.cacheBlockNumber_ = b
        BY <4>1, <2>1, <3>1
      <4>2. CASE v.cacheBlockNumber_ # b
        BY <4>2
      <4>3. QED
        BY <4>1, <4>2
    <3> HIDE DEF n
    <3>3. Seen(t.vol)[d] = IF d = n THEN v.cacheBuffer_ ELSE t.vol.card[d]
      <4>1. Seen(t.vol) = [k \in SeenBlocks |->
                IF k = t.vol.cacheBlockNumber_ THEN t.vol.cacheBuffer_ ELSE t.vol.card[k]]
        BY <1>11, SeenIs
      <4>2. QED
        BY <4>1, <1>7
    <3>4. Seen(v)[d] = IF d = v.cacheBlockNumber_ THEN v.cacheBuffer_ ELSE v.card[d]
      BY <1>1, SeenIs
    <3>5. QED
      BY <2>1, <3>1, <3>2, <3>3, <3>4, <1>9
  <2>2. QED
    BY <2>1 DEF BlockTo
<1>13. Stuck(v) => Stuck(t.vol)
  BY <1>2, <1>7 DEF Stuck
<1>14. Sound(t, q) /\ SameFiles(s, t)
  <2> HIDE DEF n
  <2>1. QED
    BY <1>2, <1>6, <1>7, <1>11, <1>12, DataKeeps
<1>15. QED
  BY <1>6, <1>13, <1>14 DEF t

\* A new content of a data block, in the cache.
LEMMA BufferIs ==
    ASSUME NEW s, NEW q, Sound(s, q), NEW b \in DataBlocks, NEW x,
           s.vol.cacheBlockNumber_ = b \/ ~s.vol.cacheDirty_
    PROVE  LET t == [s EXCEPT !.vol = [s.vol EXCEPT !.cacheBlockNumber_ = b,
                                                    !.cacheBuffer_ = x,
                                                    !.cacheDirty_ = TRUE]]
           IN  /\ Sound(t, q) /\ t.file = s.file /\ t.ok = s.ok
               /\ SameFiles(s, t) /\ ~Stuck(t.vol)
<1> DEFINE v == s.vol
           w == [v EXCEPT !.cacheBlockNumber_ = b, !.cacheBuffer_ = x, !.cacheDirty_ = TRUE]
           t == [s EXCEPT !.vol = w]
<1>1. IsCall(s) /\ CacheOK(v) /\ IsVolume(v)
  BY DEF Sound, IsCall
<1>2. b \in SeenBlocks /\ b \notin FatBlocks /\ b # NoBlock
  BY Regions DEF DataBlocks, SeenBlocks
<1>3. /\ IsVolume(w) /\ w.card = v.card /\ w.cacheBlockNumber_ = b
      /\ w.cacheBuffer_ = x /\ w.cacheDirty_ = TRUE
      /\ w.cacheMirrorBlock_ = v.cacheMirrorBlock_
      /\ w.allocSearchStart_ = v.allocSearchStart_
  BY <1>1 DEF IsVolume, VolumeFields
<1> HIDE DEF w
<1>4. IsCall(t) /\ t.vol = w /\ t.file = s.file /\ t.ok = s.ok
  BY <1>1, <1>3 DEF IsCall, CallFields
<1>5. v.cacheMirrorBlock_ = 0
  BY <1>1, <1>2 DEF CacheOK
<1>6. /\ CacheOK(w) /\ ~Stuck(w)
      /\ Seen(w) = [Seen(v) EXCEPT ![b] = w.cacheBuffer_]
  <2>1. Stored(v, w, b)
    BY <1>1, <1>2, <1>3, <1>5 DEF Stored
  <2>2. QED
    BY <2>1, StoreIs
<1>7. DOMAIN Seen(v) = SeenBlocks
  BY <1>1, SeenIs
<1> HIDE DEF t, v
<1>8. BlockTo(s, t, b)
  BY <1>4, <1>6, <1>7 DEF BlockTo, v
<1>9. Sound(t, q) /\ SameFiles(s, t)
  <2>1. /\ IsCall(t) /\ CacheOK(t.vol)
        /\ t.vol.allocSearchStart_ = s.vol.allocSearchStart_
    BY <1>3, <1>4, <1>6 DEF v
  <2>2. QED
    BY <2>1, <1>8, DataKeeps
<1>10. QED
  BY <1>4, <1>6, <1>9 DEF t, w, v

\* A part of a block is written in the cache.
LEMMA PartIs ==
    ASSUME NEW s, NEW q, Sound(s, q), s.ok, s.file.curCluster_ \in Clusters,
           s.file.curPosition_ \in Nat, NEW bytes
    PROVE  LET t == writePart(s, bytes)
           IN  /\ Sound(t, q) /\ t.file = s.file /\ t.ok = ~Stuck(s.vol)
               /\ SameFiles(s, t)
               /\ Stuck(t.vol) <=> Stuck(s.vol)
<1> DEFINE b      == currentBlock(s)
           offset == offsetInBlock(s.file.curPosition_)
           fresh  == offset = 0 /\ s.file.curPosition_ >= s.file.fileSize_
           f      == cacheFlush(s)
           over   == [f EXCEPT !.vol.cacheBlockNumber_ = b,
                               !.vol.cacheBuffer_ = JunkBlock,
                               !.vol.cacheDirty_ = TRUE]
           r      == cacheRawBlock(s, b, TRUE)
           c      == IF fresh THEN IF f.ok THEN over ELSE f ELSE r
           put(x) == [i \in DOMAIN x |-> IF i \in offset .. offset + Len(bytes) - 1
                                           THEN bytes[i - offset + 1] ELSE x[i]]
           t      == writePart(s, bytes)
<1>1. b \in DataBlocks /\ b \in SeenBlocks /\ b \notin FatBlocks
  BY CurrentIs
<1>2. t = IF c.ok THEN [c EXCEPT !.vol.cacheBuffer_ = put(c.vol.cacheBuffer_)] ELSE c
  BY DEF writePart, Then
<1> HIDE DEF b, offset, put, t
<1>3. /\ Sound(c, q) /\ c.file = s.file /\ c.ok = ~Stuck(s.vol)
      /\ SameFiles(s, c) /\ (Stuck(c.vol) <=> Stuck(s.vol))
      /\ c.ok => c.vol.cacheBlockNumber_ = b /\ c.vol.cacheDirty_ = TRUE
  <2>1. CASE fresh
    <3>1. /\ Sound(f, q) /\ Idle(s, f) /\ f.ok = ~Stuck(s.vol)
          /\ f.ok => ~f.vol.cacheDirty_
      BY FlushSound
    <3> HIDE DEF f, fresh
    <3>2. CASE ~f.ok
      BY <2>1, <3>1, <3>2 DEF Idle, SameFiles
    <3>3. CASE f.ok
      <4> DEFINE w == [f.vol EXCEPT !.cacheBlockNumber_ = b, !.cacheBuffer_ = JunkBlock,
                                    !.cacheDirty_ = TRUE]
                 y == [f EXCEPT !.vol = w]
      <4>1. over = y
        BY <3>1 DEF Sound, IsCall, CallFields, IsVolume, VolumeFields
      <4>2. /\ Sound(y, q) /\ y.file = f.file /\ y.ok = f.ok
            /\ SameFiles(f, y) /\ ~Stuck(y.vol)
        BY <1>1, <3>1, <3>3, BufferIs
      <4>3. y.vol = w /\ w.cacheBlockNumber_ = b /\ w.cacheDirty_ = TRUE
        BY <3>1 DEF Sound, IsCall, CallFields, IsVolume, VolumeFields
      <4>4. c = y
        BY <4>1, <2>1, <3>3
      <4> HIDE DEF y, c, w
      <4>5. QED
        BY <4>2, <4>3, <4>4, <3>1, <3>3 DEF Idle, SameFiles
    <3>4. QED
      BY <3>2, <3>3
  <2>2. CASE ~fresh
    <3>1. /\ Sound(r, q) /\ Idle(s, r) /\ r.ok = ~Stuck(s.vol)
          /\ r.ok => r.vol.cacheBlockNumber_ = b /\ r.vol.cacheDirty_
      BY <1>1, RawDirty
    <3>2. r.vol.cacheDirty_ \in BOOLEAN
      BY <3>1 DEF Sound, CacheOK
    <3>3. c = r
      BY <2>2
    <3> HIDE DEF r, c
    <3>4. QED
      BY <3>1, <3>2, <3>3 DEF Idle, SameFiles
  <2>3. QED
    BY <2>1, <2>2
<1> HIDE DEF c
<1>4. CASE ~c.ok
  BY <1>2, <1>3, <1>4 DEF t
<1>5. CASE c.ok
  <2> DEFINE x == put(c.vol.cacheBuffer_)
             w == [c.vol EXCEPT !.cacheBlockNumber_ = b, !.cacheBuffer_ = x, !.cacheDirty_ = TRUE]
             y == [c EXCEPT !.vol = w]
  <2>1. t = [c EXCEPT !.vol.cacheBuffer_ = x]
    BY <1>2, <1>5
  <2> HIDE DEF x
  <2>2. t = y
    <3>1. IsCall(c) /\ IsVolume(c.vol)
      BY <1>3 DEF Sound, IsCall
    <3>2. w = [c.vol EXCEPT !.cacheBuffer_ = x]
      BY <3>1, <1>3, <1>5 DEF IsVolume, VolumeFields
    <3> HIDE DEF w, t
    <3>3. QED
      BY <2>1, <3>1, <3>2 DEF IsCall, CallFields
  <2>3. /\ Sound(y, q) /\ y.file = c.file /\ y.ok = c.ok
        /\ SameFiles(c, y) /\ ~Stuck(y.vol)
    BY <1>1, <1>3, <1>5, BufferIs
  <2> HIDE DEF y
  <2>4. QED
    BY <2>2, <2>3, <1>3, <1>5 DEF SameFiles, t
<1>6. QED
  BY <1>4, <1>5

\* The bytes of a turn, whatever the number.
LEMMA PutIs ==
    ASSUME NEW s, NEW q, Sound(s, q), s.ok, s.file.curCluster_ \in Clusters,
           s.file.curPosition_ \in Nat, NEW bytes
    PROVE  LET t == IF Len(bytes) = BlockSize THEN writeWhole(s, bytes)
                    ELSE writePart(s, bytes)
           IN  /\ Sound(t, q) /\ t.file = s.file /\ (~t.ok => Stuck(s.vol))
               /\ SameFiles(s, t)
               /\ Stuck(s.vol) => Stuck(t.vol)
<1>1. CASE Len(bytes) = BlockSize
  BY <1>1, WholeIs
<1>2. CASE Len(bytes) # BlockSize
  BY <1>2, PartIs
<1>3. QED
  BY <1>1, <1>2

----------------------------------------------------------------------------
(* Writing *)

LEMMA GrownAppend ==
    ASSUME NEW q \in [Name -> Seq(Clusters)], NEW n \in Name, NEW c \in Clusters
    PROVE  LET r == [q EXCEPT ![n] = Append(q[n], c)]
           IN  /\ Grown(q, r, n) /\ r[n] = Append(q[n], c)
               /\ Len(r[n]) = Len(q[n]) + 1 /\ r[n][Len(q[n]) + 1] = c
               /\ r[n][1] = IF q[n] = <<>> THEN c ELSE q[n][1]
<1> DEFINE r == [q EXCEPT ![n] = Append(q[n], c)]  g == q[n]  h == Append(g, c)
<1>1. g \in Seq(Clusters) /\ Len(g) \in Nat
  OBVIOUS
<1>2. r[n] = h /\ \A m \in Name \ {n} : r[m] = q[m]
  OBVIOUS
<1> HIDE DEF g
<1>3. /\ h \in Seq(Clusters) /\ Len(h) = Len(g) + 1 /\ h[Len(g) + 1] = c
      /\ \A i \in 1 .. Len(g) : h[i] = g[i]
  BY <1>1
<1>4. h[1] = IF g = <<>> THEN c ELSE g[1]
  <2>1. CASE g = <<>>
    BY <2>1, <1>3
  <2>2. CASE g # <<>>
    <3>1. 1 \in 1 .. Len(g)
      BY <2>2, <1>1
    <3>2. QED
      BY <3>1, <2>2, <1>3
  <2>3. QED
    BY <2>1, <2>2
<1> HIDE DEF h
<1>5. Extends(g, h)
  BY <1>1, <1>3 DEF Extends
<1>6. r \in [Name -> Seq(Clusters)]
  BY <1>3 DEF h, g
<1> HIDE DEF r
<1>7. Grown(q, r, n)
  BY <1>2, <1>5, <1>6 DEF Grown, g
<1>8. QED
  BY <1>2, <1>3, <1>4, <1>7 DEF r, h, g

\* Every cluster that the FAT marks is of a chain.
Covered(v, q) ==
    \A c \in Clusters : Fat(Seen(v))[c] # FREE => \E n \in Name : InChain(c, q[n])

\* A cluster taken is the last of a chain.
LEMMA CoveredAppend ==
    ASSUME NEW q \in [Name -> Seq(Clusters)], NEW n \in Name, NEW c \in Clusters,
           NEW v, NEW w, Covered(v, q),
           \A d \in Clusters : d # c /\ Fat(Seen(w))[d] # FREE => Fat(Seen(v))[d] # FREE
    PROVE  Covered(w, [q EXCEPT ![n] = Append(q[n], c)])
<1> DEFINE r == [q EXCEPT ![n] = Append(q[n], c)]
<1>1. /\ Grown(q, r, n) /\ Len(r[n]) = Len(q[n]) + 1 /\ r[n][Len(q[n]) + 1] = c
      /\ Len(q[n]) \in Nat
  <2>1. /\ Grown(q, r, n) /\ Len(r[n]) = Len(q[n]) + 1 /\ r[n][Len(q[n]) + 1] = c
    BY GrownAppend
  <2>2. q[n] \in Seq(Clusters)
    OBVIOUS
  <2> HIDE DEF r
  <2>3. QED
    BY <2>1, <2>2
<1> HIDE DEF r
<1>2. InChain(c, r[n])
  <2>1. Len(q[n]) + 1 \in 1 .. Len(r[n])
    BY <1>1
  <2>2. QED
    BY <1>1, <2>1 DEF InChain
<1>3. ASSUME NEW m \in Name, NEW d, InChain(d, q[m]) PROVE InChain(d, r[m])
  <2>1. Extends(q[m], r[m])
    <3>1. CASE m = n
      BY <3>1, <1>1 DEF Grown
    <3>2. CASE m # n
      <4>1. q[m] \in Seq(Clusters) /\ r[m] = q[m]
        BY <3>2, <1>1 DEF Grown
      <4>2. QED
        BY <4>1 DEF Extends
    <3>3. QED
      BY <3>1, <3>2
  <2>2. PICK i \in 1 .. Len(q[m]) : d = q[m][i]
    BY <1>3 DEF InChain
  <2>3. Len(q[m]) \in Nat /\ Len(r[m]) \in Nat /\ Len(q[m]) <= Len(r[m])
    BY <2>1 DEF Extends
  <2>4. i \in 1 .. Len(r[m]) /\ r[m][i] = d
    BY <2>1, <2>2, <2>3 DEF Extends
  <2>5. QED
    BY <2>4 DEF InChain
<1>4. QED
  BY <1>2, <1>3 DEF Covered, r

\* addCluster: one cluster behind the chain, or a first one.
LEMMA AddIs ==
    ASSUME NEW s, NEW q, Sound(s, q), s.ok, NEW n \in Name,
           s.file.curCluster_ = IF q[n] = <<>> THEN 0 ELSE q[n][Len(q[n])]
    PROVE  LET t == addCluster(s)  f == s.file
           IN  /\ ~t.ok => Sound(t, q) /\ Idle(s, t)
               /\ t.ok => \E c \in Clusters :
                     /\ Sound(t, [q EXCEPT ![n] = Append(q[n], c)])
                     /\ t.file = [f EXCEPT !.curCluster_ = c,
                                           !.firstCluster_ = IF f.firstCluster_ = 0 THEN c
                                                             ELSE f.firstCluster_,
                                           !.dirDirty = IF f.firstCluster_ = 0 THEN TRUE
                                                        ELSE f.dirDirty]
                     /\ SameRest(Seen(s.vol), Seen(t.vol))
                     /\ ~Stuck(s.vol) /\ ~Stuck(t.vol)
                     /\ Covered(s.vol, q) => Covered(t.vol, [q EXCEPT ![n] = Append(q[n], c)])
<1> DEFINE u == allocContiguous(s)  t == addCluster(s)  f == s.file
<1>1. /\ IsCall(u)
      /\ ~u.ok => Sound(u, q) /\ Idle(s, u)
      /\ u.ok => \E c \in Clusters :
            /\ Sound(u, [q EXCEPT ![n] = Append(q[n], c)])
            /\ u.file = [s.file EXCEPT !.curCluster_ = c]
            /\ SameRest(Seen(s.vol), Seen(u.vol))
            /\ ~Stuck(s.vol) /\ ~Stuck(u.vol)
            /\ \A d \in Clusters : d # c /\ Fat(Seen(u.vol))[d] # FREE =>
                  Fat(Seen(s.vol))[d] # FREE
  BY AllocIs
<1>2. t = IF u.ok
            THEN IF u.file.firstCluster_ # 0 THEN u
                 ELSE [u EXCEPT !.file.firstCluster_ = u.file.curCluster_,
                                !.file.dirDirty = TRUE]
            ELSE u
  BY DEF addCluster, Then
<1>3. IsFile(f)
  BY DEF Sound, IsCall
<1> HIDE DEF u, t, f
<1>4. CASE ~u.ok
  BY <1>1, <1>2, <1>4 DEF t
<1>5. CASE u.ok
  <2>1. PICK c \in Clusters :
            /\ Sound(u, [q EXCEPT ![n] = Append(q[n], c)])
            /\ u.file = [f EXCEPT !.curCluster_ = c]
            /\ SameRest(Seen(s.vol), Seen(u.vol))
            /\ ~Stuck(s.vol) /\ ~Stuck(u.vol)
            /\ \A d \in Clusters : d # c /\ Fat(Seen(u.vol))[d] # FREE =>
                  Fat(Seen(s.vol))[d] # FREE
    BY <1>1, <1>5 DEF f
  <2> DEFINE r == [q EXCEPT ![n] = Append(q[n], c)]
             h == [f EXCEPT !.curCluster_ = c,
                            !.firstCluster_ = IF f.firstCluster_ = 0 THEN c
                                              ELSE f.firstCluster_,
                            !.dirDirty = IF f.firstCluster_ = 0 THEN TRUE
                                         ELSE f.dirDirty]
  <2>2. u.file.firstCluster_ = f.firstCluster_ /\ u.file.curCluster_ = c
    BY <2>1, <1>3 DEF IsFile, FileFields
  <2>3. IsFile(h)
    BY <1>3 DEF IsFile, FileFields
  <2>4. t = [u EXCEPT !.file = h]
    <3>1. CASE f.firstCluster_ # 0
      <4>1. h = u.file
        BY <3>1, <2>1, <1>3 DEF IsFile, FileFields
      <4> HIDE DEF h
      <4>2. QED
        BY <4>1, <3>1, <2>2, <1>2, <1>5, <1>1 DEF IsCall, CallFields
    <3>2. CASE f.firstCluster_ = 0
      <4>1. t = [u EXCEPT !.file.firstCluster_ = c, !.file.dirDirty = TRUE]
        BY <3>2, <2>2, <1>2, <1>5
      <4>2. h = [u.file EXCEPT !.firstCluster_ = c, !.dirDirty = TRUE]
        BY <3>2, <2>1, <1>3 DEF IsFile, FileFields
      <4> HIDE DEF h
      <4>3. QED
        BY <4>1, <4>2, <1>1 DEF IsCall, CallFields
    <3>3. QED
      BY <3>1, <3>2
  <2> HIDE DEF h, r
  <2>5. /\ Sound(t, r) /\ t.file = h /\ t.ok = u.ok /\ t.vol = u.vol
    <3>1. Sound(u, r)
      BY <2>1 DEF r
    <3>2. QED
      BY <3>1, <2>3, <2>4, FileSet
  <2>6. Covered(s.vol, q) => Covered(t.vol, r)
    <3>1. q \in [Name -> Seq(Clusters)]
      BY DEF Sound, Chained
    <3>2. Covered(s.vol, q) => Covered(u.vol, r)
      BY <3>1, <2>1, CoveredAppend DEF r
    <3>3. QED
      BY <3>2, <2>5
  <2>7. QED
    BY <2>1, <2>5, <2>6, <1>5 DEF t, h, r, f
<1>6. QED
  BY <1>4, <1>5

\* What a step of write() leaves, with the chains that were q and are r now.
Wrote(s, t, q, r, n) ==
    /\ Grown(q, r, n) /\ Sound(t, r)
    /\ Dir(Seen(t.vol)) = Dir(Seen(s.vol))
    /\ Stuck(s.vol) => Stuck(t.vol)
    /\ Covered(s.vol, q) => Covered(t.vol, r)
    /\ t.file.dirIndex_ = s.file.dirIndex_
    /\ t.file.writable = s.file.writable
    /\ t.file.fileSize_ = s.file.fileSize_
    /\ t.file.dirDirty \in BOOLEAN
    /\ ~t.file.dirDirty => /\ ~s.file.dirDirty
                           /\ t.file.firstCluster_ = s.file.firstCluster_

\* The cluster for position p of a file with the chain r[n].
ClusterFor(t, r, n, p) ==
    /\ p \div ClusterBytes + 1 \in 1 .. Len(r[n])
    /\ t.file.curCluster_ = r[n][p \div ClusterBytes + 1]
    /\ t.file.firstCluster_ = r[n][1]

\* At the start of a cluster write() goes to the next one of the chain, or adds one.
LEMMA NextIs ==
    ASSUME NEW s, NEW q, Sound(s, q), s.ok, NEW n \in Name,
           FileOK(s.file, q[n], s.vol), s.file.writable,
           StartOfCluster(s)
    PROVE  LET t == nextCluster(s)  p == s.file.curPosition_
           IN  \E r : /\ Wrote(s, t, q, r, n)
                      /\ ~t.ok => r = q /\ t.file = s.file
                      /\ t.ok => /\ ClusterFor(t, r, n, p)
                                 /\ t.file.curPosition_ = p
                                 /\ t.file.writeError = s.file.writeError
<1> DEFINE t == nextCluster(s)  f == s.file  g == q[n]  p == f.curPosition_
           cur == f.curCluster_  fat == Fat(Seen(s.vol))  j == p \div ClusterBytes + 1
<1>1. /\ IsFile(f) /\ Chained(fat, q) /\ IsCall(s) /\ CacheOK(s.vol)
  BY DEF Sound, IsCall
<1>2. q \in [Name -> Seq(Clusters)] /\ g \in Seq(Clusters) /\ Len(g) \in Nat
  BY <1>1 DEF Chained
<1>3. /\ p \in Nat /\ p <= Len(g) * ClusterBytes /\ p % ClusterBytes = 0
      /\ BeginsAt(f.firstCluster_, f.fileSize_, g)
      /\ Placed(f, g) \/ (Stuck(s.vol) /\ InChain(cur, g))
      /\ f.firstCluster_ = 0 => g = <<>>
      /\ f.dirDirty \in BOOLEAN
  BY DEF FileOK, StartOfCluster
<1>4. /\ p # 0 => /\ Index(p) = p \div ClusterBytes
                  /\ p \div ClusterBytes \in Nat
      /\ p = 0 => p \div ClusterBytes = 0
  <2>1. p = 0 => p \div ClusterBytes = 0
    <3>1. ClusterBytes \in Nat \ {0}
      BY Sizes
    <3> DEFINE e == ClusterBytes
    <3> HIDE DEF e
    <3>2. e \in Nat \ {0} /\ e * 0 <= 0 /\ 0 < e * 0 + e
      BY <3>1, Z3 DEF e
    <3>3. 0 \div e = 0
      BY <3>2, EuclidUnique
    <3>4. QED
      BY <3>3 DEF e
  <2> HIDE DEF p
  <2>2. QED
    BY <2>1, <1>3, IndexIs
<1> HIDE DEF j
<1>5. Grown(q, q, n)
  BY <1>2, GrownSelf
<1>6. ASSUME NEW u, Sound(u, q), Quiet(s, u), u.file = f
      PROVE  Wrote(s, u, q, q, n)
  BY <1>3, <1>5, <1>6 DEF Wrote, Quiet, Covered
<1>7. ASSUME NEW u, Sound(u, q), Quiet(s, u), NEW c,
             u.file = [f EXCEPT !.curCluster_ = c]
      PROVE  /\ Wrote(s, u, q, q, n) /\ u.file.curPosition_ = p
             /\ u.file.curCluster_ = c /\ u.file.firstCluster_ = f.firstCluster_
             /\ u.file.writeError = f.writeError
  <2>1. /\ u.file.curPosition_ = p /\ u.file.curCluster_ = c
        /\ u.file.firstCluster_ = f.firstCluster_ /\ u.file.dirDirty = f.dirDirty
        /\ u.file.writable = f.writable /\ u.file.fileSize_ = f.fileSize_
        /\ u.file.dirIndex_ = f.dirIndex_ /\ u.file.writeError = f.writeError
    BY <1>1, <1>7 DEF IsFile, FileFields
  <2>2. QED
    BY <2>1, <1>3, <1>5, <1>7 DEF Wrote, Quiet, Covered
<1>8. ASSUME NEW u, Sound(u, q), Quiet(s, u), u.file = f, u.ok, t = addCluster(u),
             cur = IF g = <<>> THEN 0 ELSE g[Len(g)], j = Len(g) + 1
      PROVE  \E r : /\ Wrote(s, t, q, r, n)
                    /\ ~t.ok => r = q /\ t.file = f
                    /\ t.ok => /\ ClusterFor(t, r, n, p)
                               /\ t.file.curPosition_ = p
                               /\ t.file.writeError = f.writeError
  <2> DEFINE a == addCluster(u)
  <2>1. u.file.curCluster_ = IF q[n] = <<>> THEN 0 ELSE q[n][Len(q[n])]
    BY <1>8
  <2>2. /\ ~a.ok => Sound(a, q) /\ Idle(u, a)
        /\ a.ok => \E c \in Clusters :
              /\ Sound(a, [q EXCEPT ![n] = Append(q[n], c)])
              /\ a.file = [u.file EXCEPT !.curCluster_ = c,
                                    !.firstCluster_ = IF u.file.firstCluster_ = 0 THEN c
                                                      ELSE u.file.firstCluster_,
                                    !.dirDirty = IF u.file.firstCluster_ = 0 THEN TRUE
                                                 ELSE u.file.dirDirty]
              /\ SameRest(Seen(u.vol), Seen(a.vol))
              /\ ~Stuck(u.vol) /\ ~Stuck(a.vol)
              /\ Covered(u.vol, q) => Covered(a.vol, [q EXCEPT ![n] = Append(q[n], c)])
    <3> HIDE DEF f, g, cur, t, p
    <3>1. Sound(u, q) /\ u.ok
      BY <1>8
    <3>2. QED
      BY <3>1, <2>1, AddIs
  <2> HIDE DEF a, t
  <2>3. t = a
    BY <1>8 DEF a
  <2>4. CASE ~t.ok
    <3>1. Sound(t, q) /\ Quiet(s, t) /\ t.file = f
      BY <2>2, <2>4, <2>3, <1>8 DEF Idle, Quiet
    <3>2. Wrote(s, t, q, q, n)
      BY <3>1, <1>6
    <3>3. QED
      BY <3>1, <3>2, <2>4
  <2>5. CASE t.ok
    <3>1. PICK c \in Clusters :
              /\ Sound(t, [q EXCEPT ![n] = Append(g, c)])
              /\ t.file = [f EXCEPT !.curCluster_ = c,
                                    !.firstCluster_ = IF f.firstCluster_ = 0 THEN c
                                                      ELSE f.firstCluster_,
                                    !.dirDirty = IF f.firstCluster_ = 0 THEN TRUE
                                                 ELSE f.dirDirty]
              /\ SameRest(Seen(u.vol), Seen(t.vol))
              /\ ~Stuck(u.vol) /\ ~Stuck(t.vol)
              /\ Covered(u.vol, q) => Covered(t.vol, [q EXCEPT ![n] = Append(g, c)])
      BY <2>2, <2>5, <2>3, <1>8
    <3> DEFINE r == [q EXCEPT ![n] = Append(g, c)]
    <3>2. /\ Grown(q, r, n) /\ Len(r[n]) = Len(g) + 1 /\ r[n][Len(g) + 1] = c
          /\ r[n][1] = IF g = <<>> THEN c ELSE g[1]
      BY <1>2, GrownAppend
    <3>3. /\ t.file.curPosition_ = p /\ t.file.curCluster_ = c
          /\ t.file.firstCluster_ = IF f.firstCluster_ = 0 THEN c ELSE f.firstCluster_
          /\ t.file.dirDirty = IF f.firstCluster_ = 0 THEN TRUE ELSE f.dirDirty
          /\ t.file.writable = f.writable /\ t.file.fileSize_ = f.fileSize_
          /\ t.file.dirIndex_ = f.dirIndex_ /\ t.file.writeError = f.writeError
      BY <3>1, <1>1 DEF IsFile, FileFields
    <3>4. Dir(Seen(t.vol)) = Dir(Seen(s.vol))
      <4>1. Dir(Seen(t.vol)) = Dir(Seen(u.vol))
        BY <3>1, Regions DEF SameRest, Dir
      <4>2. QED
        BY <4>1, <1>8 DEF Quiet
    <3>5. ~Stuck(s.vol)
      BY <3>1, <1>8 DEF Quiet
    <3>6. Sound(t, r) /\ (Covered(s.vol, q) => Covered(t.vol, r))
      <4>1. Covered(s.vol, q) => Covered(u.vol, q)
        BY <1>8 DEF Quiet, Covered
      <4>2. QED
        BY <4>1, <3>1
    <3> HIDE DEF r
    <3>7. Wrote(s, t, q, r, n)
      BY <3>2, <3>3, <3>4, <3>5, <3>6, <1>3 DEF Wrote
    <3>8. r[n][1] = IF f.firstCluster_ = 0 THEN c ELSE f.firstCluster_
      <4>1. (f.firstCluster_ = 0) <=> (g = <<>>)
        <5>1. g # <<>> => f.firstCluster_ # 0
          BY <1>3
        <5>2. g = <<>> => f.firstCluster_ = 0
          BY <1>3 DEF BeginsAt
        <5>3. QED
          BY <5>1, <5>2
      <4>2. g # <<>> => f.firstCluster_ = g[1]
        BY <4>1, <1>3 DEF BeginsAt
      <4>3. QED
        BY <4>1, <4>2, <3>2
    <3>9. ClusterFor(t, r, n, p)
      <4>1. j \in 1 .. Len(r[n]) /\ r[n][j] = c
        BY <3>2, <1>2, <1>8
      <4>2. QED
        BY <4>1, <3>3, <3>8 DEF ClusterFor, j
    <3>10. QED
      BY <3>3, <3>7, <3>9, <2>5
  <2>6. QED
    BY <2>4, <2>5
<1>9. CASE cur = 0
  <2>1. p = 0
    <3>1. ~InChain(cur, g)
      BY <1>2, <1>9, InChainIs, Values
    <3>2. p # 0 => cur \in Clusters
      <4>1. Placed(f, g)
        BY <3>1, <1>3
      <4>2. p # 0 => InChain(cur, g)
        BY <4>1, <1>2, <1>3, PlacedIs
      <4>3. QED
        BY <4>2, <3>1
    <3>3. QED
      BY <3>2, <1>9, Values
  <2>2. j = 1
    BY <2>1, <1>4 DEF j
  <2>3. CASE f.firstCluster_ = 0
    <3>1. g = <<>> /\ Len(g) = 0
      BY <2>3, <1>3
    <3>2. t = addCluster(s)
      BY <2>3, <1>9 DEF nextCluster
    <3>3. Quiet(s, s)
      BY DEF Quiet
    <3> HIDE DEF t
    <3>4. QED
      BY <3>1, <3>2, <3>3, <2>2, <1>8, <1>9 DEF t
  <2>4. CASE f.firstCluster_ # 0
    <3>1. g # <<>> /\ f.firstCluster_ = g[1] /\ 1 \in 1 .. Len(g)
      BY <2>4, <1>2, <1>3 DEF BeginsAt
    <3> DEFINE h == [f EXCEPT !.curCluster_ = g[1]]
    <3>2. t = [s EXCEPT !.file = h]
      BY <2>4, <3>1, <1>1, <1>9 DEF nextCluster, IsCall, CallFields
    <3>3. IsFile(h)
      BY <1>1 DEF IsFile, FileFields
    <3> HIDE DEF t, h
    <3>4. Sound(t, q) /\ t.file = h /\ t.ok = s.ok /\ Quiet(s, t)
      <4> DEFINE z == [s EXCEPT !.file = h]
      <4> HIDE DEF f, g, p, cur
      <4>1. Sound(z, q) /\ z.file = h /\ z.ok = s.ok /\ Quiet(s, z)
        BY <3>3, FileSet
      <4> HIDE DEF z
      <4>2. t = z
        BY <3>2 DEF z
      <4>3. QED
        BY <4>1, <4>2
    <3>5. /\ Wrote(s, t, q, q, n) /\ t.file.curPosition_ = p
          /\ t.file.curCluster_ = g[1] /\ t.file.firstCluster_ = f.firstCluster_
          /\ t.file.writeError = f.writeError
      BY <3>4, <1>7 DEF h
    <3>6. ClusterFor(t, q, n, p)
      BY <3>1, <3>5, <2>2 DEF ClusterFor, j
    <3>7. QED
      BY <3>4, <3>5, <3>6 DEF t
  <2>5. QED
    BY <2>3, <2>4
<1>10. CASE cur # 0
  <2> DEFINE u == fatGet(s, cur)
  <2>1. cur \in Clusters
    <3>1. CASE Placed(f, g)
      BY <3>1, <1>2, <1>3, <1>10, PlacedIs
    <3>2. CASE InChain(cur, g)
      BY <3>2, <1>2, InChainIs
    <3>3. QED
      BY <3>1, <3>2, <1>3
  <2>2. /\ Looked(s, u) /\ u.ok = ~Stuck(s.vol)
        /\ u.ok => u.out = fat[cur]
    BY <2>1, <1>1, FatGetIs
  <2>3. t = IF u.ok THEN IF isEOC(u.out) THEN addCluster(u)
                         ELSE [u EXCEPT !.file.curCluster_ = u.out]
            ELSE u
    BY <1>10 DEF nextCluster, Then
  <2> HIDE DEF u
  <2>4. Sound(u, q) /\ Idle(s, u)
    BY <2>2, LookedSound
  <2>5. Sound(u, q) /\ Quiet(s, u) /\ u.file = f
    BY <2>4 DEF Idle, Quiet
  <2>6. CASE ~u.ok
    <3>1. Wrote(s, u, q, q, n) /\ t = u
      BY <2>3, <2>5, <2>6, <1>6
    <3>2. QED
      BY <3>1, <2>5, <2>6
  <2>7. CASE u.ok
    <3>1. Placed(f, g)
      BY <2>2, <2>7, <1>3
    <3>2. p # 0
      BY <3>1, <1>10 DEF Placed
    <3> DEFINE i == Index(p)
    <3>3. i \in 1 .. Len(g) /\ cur = g[i] /\ j = i + 1 /\ g # <<>>
      <4>1. i \in 1 .. Len(g)
        BY <3>1, <3>2, <1>2, <1>3, PlacedIs
      <4>2. cur = g[i]
        BY <3>1, <3>2 DEF Placed
      <4>3. j = i + 1
        BY <3>2, <1>4 DEF j
      <4> HIDE DEF i
      <4>4. g # <<>>
        BY <4>1
      <4>5. QED
        BY <4>1, <4>2, <4>3, <4>4
    <3> HIDE DEF i
    <3>4. fat[cur] = IF i < Len(g) THEN g[i + 1] ELSE EOC
      BY <3>3, <1>1 DEF Chained
    <3>5. CASE i = Len(g)
      <4>1. isEOC(u.out)
        BY <3>4, <3>5, <2>2, <2>7, Values
      <4>2. t = addCluster(u)
        BY <4>1, <2>3, <2>7
      <4> HIDE DEF t
      <4>3. QED
        BY <4>2, <3>3, <3>5, <2>5, <2>7, <1>8 DEF t
    <3>6. CASE i # Len(g)
      <4>1. i < Len(g) /\ j \in 1 .. Len(g) /\ j = i + 1
        BY <3>3, <3>6, <1>2
      <4>2. u.out = g[j] /\ g[j] \in Clusters
        BY <4>1, <3>4, <2>2, <2>7, <1>2
      <4>3. ~isEOC(u.out)
        BY <4>2, Values
      <4> DEFINE h == [f EXCEPT !.curCluster_ = g[j]]
      <4>4. t = [u EXCEPT !.file = h]
        <5>1. t = [u EXCEPT !.file.curCluster_ = g[j]]
          BY <4>2, <4>3, <2>3, <2>7
        <5>2. QED
          BY <5>1, <2>5 DEF Sound, IsCall, CallFields
      <4>5. IsFile(h)
        BY <1>1 DEF IsFile, FileFields
      <4> HIDE DEF t, h
      <4>6. Sound(t, q) /\ t.file = h /\ t.ok = u.ok /\ Quiet(u, t)
        BY <4>4, <4>5, <2>5, FileSet
      <4>7. Quiet(s, t)
        BY <4>6, <2>5 DEF Quiet
      <4>8. /\ Wrote(s, t, q, q, n) /\ t.file.curPosition_ = p
            /\ t.file.curCluster_ = g[j] /\ t.file.firstCluster_ = f.firstCluster_
            /\ t.file.writeError = f.writeError
        BY <4>6, <4>7, <1>7 DEF h
      <4>9. f.firstCluster_ = g[1]
        BY <3>3, <1>3 DEF BeginsAt
      <4>10. ClusterFor(t, q, n, p)
        BY <4>1, <4>8, <4>9 DEF ClusterFor, j
      <4>11. QED
        BY <4>6, <4>8, <4>10, <2>7 DEF t
    <3>7. QED
      BY <3>5, <3>6
  <2>8. QED
    BY <2>6, <2>7
<1>11. QED
  BY <1>9, <1>10

\* A piece of a block ends within the cluster it begins in.
LEMMA Covers ==
    ASSUME NEW pos \in Nat, NEW m \in Nat \ {0},
           m <= BlockSize - offsetInBlock(pos),
           NEW k \in Nat, pos \div ClusterBytes + 1 <= k
    PROVE  pos + m <= k * ClusterBytes
<1> DEFINE e == ClusterBytes  d == pos \div e  x == pos + m - 1
<1>1. e \in Nat \ {0}
  BY Sizes
<1>2. Index(pos + m) = d + 1
  BY IndexInBlock
<1>3. x \div e + 1 = d + 1
  BY <1>2 DEF Index
<1>4. d \in Nat /\ d + 1 <= k
  BY IndexIs
<1>5. x \in Int /\ pos + m = x + 1
  OBVIOUS
<1> HIDE DEF e, x, d
<1>6. x \div e \in Int /\ x < e * (x \div e) + e
  BY <1>1, <1>5, Euclid
<1>7. x \div e = d
  BY <1>3, <1>4, <1>6
<1>8. x < e * d + e
  BY <1>6, <1>7
<1>9. e * d + e <= k * e /\ e * d + e \in Int /\ k * e \in Int
  BY <1>1, <1>4, Z3
<1>10. QED
  BY <1>5, <1>8, <1>9 DEF e

\* Wrote: what turns of write() may have done.
LEMMA WroteSelf ==
    ASSUME NEW s, NEW q, Sound(s, q), NEW n \in Name, s.file.dirDirty \in BOOLEAN
    PROVE  Wrote(s, s, q, q, n)
<1>1. q \in [Name -> Seq(Clusters)]
  BY DEF Sound, Chained
<1>2. QED
  BY <1>1, GrownSelf DEF Wrote

LEMMA WroteTrans ==
    ASSUME NEW s, NEW t, NEW u, NEW q, NEW r, NEW x, NEW n \in Name,
           Wrote(s, t, q, r, n), Wrote(t, u, r, x, n)
    PROVE  Wrote(s, u, q, x, n)
<1>1. Grown(q, x, n)
  BY GrownTrans DEF Wrote
<1>2. QED
  BY <1>1 DEF Wrote

\* A file of which a byte has found its cluster.
LEMMA WrittenFile ==
    ASSUME NEW s, NEW t, NEW q, NEW r, NEW n \in Name, Wrote(s, t, q, r, n),
           NEW v, FileOK(s.file, q[n], v), s.file.writable,
           r[n] # <<>>, t.file.firstCluster_ = r[n][1],
           t.file.writeError \in BOOLEAN,
           t.file.curPosition_ \in Nat, t.file.curPosition_ <= Len(r[n]) * ClusterBytes,
           Placed(t.file, r[n]) \/ (Stuck(t.vol) /\ InChain(t.file.curCluster_, r[n]))
    PROVE  FileOK(t.file, r[n], t.vol)
<1> DEFINE f == t.file  g == q[n]  h == r[n]
<1>1. IsFile(f) /\ f.writable /\ f.dirIndex_ \in 1 .. DirSlots /\ f.dirDirty \in BOOLEAN
  BY DEF Wrote, Sound, IsCall, FileOK
<1>2. f.writable \in BOOLEAN
  BY DEF Wrote, FileOK
<1>3. /\ g \in Seq(Clusters) /\ h \in Seq(Clusters) /\ Len(g) \in Nat /\ Len(h) \in Nat
      /\ Len(g) <= Len(h)
  BY DEF Wrote, Grown, Extends
<1>4. f.fileSize_ \in Nat /\ f.fileSize_ <= Len(h) * ClusterBytes
  <2> DEFINE a == Len(g) * ClusterBytes  b == Len(h) * ClusterBytes
  <2>1. a <= b /\ a \in Nat /\ b \in Nat
    BY <1>3, Multiples
  <2>2. f.fileSize_ \in Nat /\ f.fileSize_ <= a
    BY DEF Wrote, FileOK, BeginsAt
  <2> HIDE DEF a, b, f
  <2>3. f.fileSize_ <= b
    BY <2>1, <2>2
  <2>4. QED
    BY <2>2, <2>3 DEF b
<1>5. f.firstCluster_ # 0
  <2>1. h[1] \in Clusters
    BY <1>3
  <2>2. QED
    BY <2>1, Values
<1>6. BeginsAt(f.firstCluster_, f.fileSize_, h)
  BY <1>4, <1>5 DEF BeginsAt
<1>7. QED
  BY <1>1, <1>2, <1>5, <1>6 DEF FileOK

\* A turn of write() leaves the file in order.
LEMMA TurnWritten ==
    ASSUME NEW s, NEW q, Sound(s, q), s.ok, NEW n \in Name,
           FileOK(s.file, q[n], s.vol), s.file.writable, NEW bytes,
           Len(bytes) \in Nat \ {0},
           Len(bytes) <= BlockSize - offsetInBlock(s.file.curPosition_)
    PROVE  LET t == writeTurn(s, bytes)
           IN  \E r : /\ Wrote(s, t, q, r, n) /\ FileOK(t.file, r[n], t.vol)
                      /\ t.ok => t.file.curPosition_ = s.file.curPosition_ + Len(bytes)
<1> DEFINE t == writeTurn(s, bytes)  f == s.file  g == q[n]  p == f.curPosition_
           m == Len(bytes)  j == p \div ClusterBytes + 1
           a == IF StartOfCluster(s) THEN nextCluster(s) ELSE s
           b == IF m = BlockSize THEN writeWhole(a, bytes) ELSE writePart(a, bytes)
           u == IF a.ok THEN b ELSE a
<1>1. t = IF u.ok THEN [u EXCEPT !.file.curPosition_ = @ + m] ELSE u
  BY DEF writeTurn, Then
<1>2. /\ p \in Nat /\ p <= Len(g) * ClusterBytes /\ f.dirDirty \in BOOLEAN
      /\ Placed(f, g) \/ (Stuck(s.vol) /\ InChain(f.curCluster_, g))
      /\ BeginsAt(f.firstCluster_, f.fileSize_, g)
      /\ f.firstCluster_ = 0 => g = <<>>
      /\ f.writeError \in BOOLEAN
  BY DEF FileOK
<1>3. q \in [Name -> Seq(Clusters)] /\ g \in Seq(Clusters) /\ Len(g) \in Nat
  BY DEF Sound, Chained
<1>4. m \in Nat \ {0} /\ m <= BlockSize - offsetInBlock(p)
  OBVIOUS
<1>5. Index(p + m) = j /\ j \in Nat \ {0}
  <2> HIDE DEF p, m
  <2>1. Index(p + m) = p \div ClusterBytes + 1
    BY <1>2, <1>4, IndexInBlock
  <2>2. p \div ClusterBytes \in Nat
    BY <1>2, IndexIs
  <2>3. QED
    BY <2>1, <2>2
<1> HIDE DEF j, t, b, u
<1>6. \E r : /\ Wrote(s, a, q, r, n)
             /\ ~a.ok => r = q /\ a.file = f
             /\ a.ok => /\ j <= Len(r[n])
                        /\ a.file.curPosition_ = p /\ a.file.writeError = f.writeError
                        /\ a.file.firstCluster_ = r[n][1]
                        /\ InChain(a.file.curCluster_, r[n])
                        /\ a.file.curCluster_ = r[n][j] \/ Stuck(a.vol)
  <2>1. CASE StartOfCluster(s)
    <3> DEFINE z == nextCluster(s)
    <3>1. PICK r : /\ Wrote(s, z, q, r, n)
                   /\ ~z.ok => r = q /\ z.file = f
                   /\ z.ok => /\ ClusterFor(z, r, n, p)
                              /\ z.file.curPosition_ = p
                              /\ z.file.writeError = f.writeError
      BY <2>1, NextIs
    <3>2. a = z
      BY <2>1
    <3> HIDE DEF z, a
    <3>3. z.ok => /\ j <= Len(r[n]) /\ z.file.firstCluster_ = r[n][1]
                  /\ z.file.curCluster_ = r[n][j] /\ InChain(z.file.curCluster_, r[n])
      BY <3>1 DEF ClusterFor, InChain, j
    <3>4. QED
      BY <3>1, <3>2, <3>3
  <2>2. CASE ~StartOfCluster(s)
    <3>1. a = s
      BY <2>2
    <3>2. p % ClusterBytes # 0 /\ p # 0
      <4>1. p % ClusterBytes # 0
        BY <2>2 DEF StartOfCluster
      <4>2. 0 % ClusterBytes = 0
        <5> DEFINE e == ClusterBytes
        <5>1. e \in Nat \ {0} /\ e * 0 = 0
          BY Sizes, Z3
        <5> HIDE DEF e
        <5>2. 0 % e = 0
          BY <5>1, EuclidUnique
        <5>3. QED
          BY <5>2 DEF e
      <4>3. QED
        BY <4>1, <4>2
    <3>3. Index(p) = j /\ j <= Len(g)
      <4> DEFINE k == Len(g)
      <4>1. p \in Nat /\ k \in Nat /\ p <= k * ClusterBytes
        BY <1>2, <1>3
      <4> HIDE DEF k, p
      <4>2. Index(p) = p \div ClusterBytes + 1
        BY <4>1, <3>2, IndexIs
      <4>3. Index(p) <= k
        BY <4>1, IndexWithin
      <4>4. QED
        BY <4>2, <4>3 DEF j, k
    <3>4. g # <<>> /\ f.firstCluster_ = g[1]
      <4>1. g # <<>>
        BY <3>3, <1>3, <1>5
      <4>2. QED
        BY <4>1, <1>2 DEF BeginsAt
    <3>5. InChain(f.curCluster_, g) /\ (f.curCluster_ = g[j] \/ Stuck(s.vol))
      <4>1. Placed(f, g) => f.curCluster_ = g[j]
        BY <3>2, <3>3 DEF Placed
      <4>2. j \in 1 .. Len(g)
        BY <3>3, <1>3, <1>5
      <4>3. f.curCluster_ = g[j] => InChain(f.curCluster_, g)
        BY <4>2 DEF InChain
      <4>4. QED
        BY <4>1, <4>3, <1>2
    <3>6. Wrote(s, s, q, q, n)
      BY <1>2, WroteSelf
    <3> HIDE DEF a
    <3>7. QED
      BY <3>1, <3>3, <3>4, <3>5, <3>6
  <2>3. QED
    BY <2>1, <2>2
<1> HIDE DEF a
<1>7. PICK r : /\ Wrote(s, a, q, r, n)
               /\ ~a.ok => r = q /\ a.file = f
               /\ a.ok => /\ j <= Len(r[n])
                          /\ a.file.curPosition_ = p /\ a.file.writeError = f.writeError
                          /\ a.file.firstCluster_ = r[n][1]
                          /\ InChain(a.file.curCluster_, r[n])
                          /\ a.file.curCluster_ = r[n][j] \/ Stuck(a.vol)
  BY <1>6
<1>8. r[n] \in Seq(Clusters) /\ Len(r[n]) \in Nat /\ Extends(g, r[n]) /\ Sound(a, r)
      /\ Grown(q, r, n)
  BY <1>7 DEF Wrote, Grown, Extends
<1>9. CASE ~a.ok
  <2>1. t = a
    BY <1>1, <1>9 DEF u
  <2>2. Extends(g, g) /\ (Stuck(s.vol) => Stuck(a.vol))
    BY <1>3, <1>7 DEF Extends, Wrote
  <2>3. FileOK(f, g, a.vol)
    BY <2>2, FileGrows
  <2>4. QED
    BY <2>1, <2>3, <1>7, <1>9 DEF t
<1>10. CASE a.ok
  <2>1. a.file.curCluster_ \in Clusters
    BY <1>7, <1>8, <1>10, InChainIs
  <2>2. /\ Sound(b, r) /\ b.file = a.file /\ (~b.ok => Stuck(a.vol))
        /\ SameFiles(a, b)
        /\ Stuck(a.vol) => Stuck(b.vol)
    <3>1. a.file.curPosition_ \in Nat
      BY <1>2, <1>7, <1>10
    <3> DEFINE z == IF Len(bytes) = BlockSize THEN writeWhole(a, bytes)
                    ELSE writePart(a, bytes)
    <3>2. /\ Sound(z, r) /\ z.file = a.file /\ (~z.ok => Stuck(a.vol))
          /\ SameFiles(a, z)
          /\ Stuck(a.vol) => Stuck(z.vol)
      BY <3>1, <2>1, <1>8, <1>10, PutIs
    <3>3. b = z
      BY DEF b
    <3> HIDE DEF z
    <3>4. QED
      BY <3>2, <3>3
  <2>3. Wrote(a, b, r, r, n)
    BY <2>2, <1>7, <1>8, GrownSelf DEF Wrote, Grown, SameFiles, Covered
  <2>4. Wrote(s, b, q, r, n)
    BY <2>3, <1>7, WroteTrans
  <2>5. p + m <= Len(r[n]) * ClusterBytes
    <3> DEFINE k == Len(r[n])
    <3>1. k \in Nat /\ p \div ClusterBytes + 1 <= k
      BY <1>7, <1>8, <1>10 DEF j
    <3> HIDE DEF k, p, m
    <3>2. p + m <= k * ClusterBytes
      BY <3>1, <1>2, <1>4, Covers
    <3>3. QED
      BY <3>2 DEF k
  <2>6. r[n] # <<>>
    BY <1>5, <1>7, <1>8, <1>10
  <2>7. CASE ~b.ok
    <3>1. t = b
      BY <2>7, <1>1, <1>10 DEF u
    <3>2. p <= Len(r[n]) * ClusterBytes
      <4> DEFINE most == Len(r[n]) * ClusterBytes
      <4>1. most \in Nat /\ p + m <= most
        BY <2>5, <1>8, Multiples
      <4> HIDE DEF most, p, m
      <4>2. p <= most
        BY <4>1, <1>2, <1>4
      <4>3. QED
        BY <4>2 DEF most
    <3>3. /\ b.file.firstCluster_ = r[n][1] /\ b.file.writeError \in BOOLEAN
          /\ b.file.curPosition_ = p
          /\ Stuck(b.vol) /\ InChain(b.file.curCluster_, r[n])
      BY <2>2, <2>7, <1>2, <1>7, <1>10
    <3>4. FileOK(b.file, r[n], b.vol)
      <4>1. b.file.curPosition_ \in Nat /\ b.file.curPosition_ <= Len(r[n]) * ClusterBytes
        BY <3>2, <3>3, <1>2
      <4>2. QED
        BY <4>1, <3>3, <2>4, <2>6, WrittenFile
    <3>5. QED
      BY <3>1, <3>4, <2>4, <2>7 DEF t
  <2>8. CASE b.ok
    <3> DEFINE h == [b.file EXCEPT !.curPosition_ = p + m]
    <3>1. IsFile(b.file) /\ IsFile(h) /\ IsCall(b)
      BY <2>2 DEF Sound, IsCall, IsFile, FileFields
    <3>2. b.file.curPosition_ = p
      BY <2>2, <1>7, <1>10
    <3>3. t = [b EXCEPT !.file = h]
      <4>1. t = [b EXCEPT !.file.curPosition_ = b.file.curPosition_ + m]
        BY <2>8, <1>1, <1>10 DEF u
      <4>2. QED
        BY <4>1, <3>1, <3>2 DEF IsCall, CallFields
    <3>4. /\ h.curPosition_ = p + m /\ h.curCluster_ = a.file.curCluster_
          /\ h.firstCluster_ = a.file.firstCluster_ /\ h.writeError = a.file.writeError
          /\ h.dirIndex_ = b.file.dirIndex_ /\ h.writable = b.file.writable
          /\ h.fileSize_ = b.file.fileSize_ /\ h.dirDirty = b.file.dirDirty
          /\ b.file.firstCluster_ = a.file.firstCluster_
      BY <3>1, <2>2 DEF IsFile, FileFields
    <3> HIDE DEF h
    <3> DEFINE z == [b EXCEPT !.file = h]
    <3>5. Sound(z, r) /\ z.file = h /\ z.ok = b.ok /\ z.vol = b.vol
      BY <3>1, <2>2, FileSet
    <3>6. t = z
      BY <3>3
    <3> HIDE DEF z
    <3>7. Wrote(s, t, q, r, n)
      BY <3>4, <3>5, <3>6, <2>4 DEF Wrote
    <3>8. Placed(h, r[n]) \/ (Stuck(t.vol) /\ InChain(h.curCluster_, r[n]))
      <4>1. CASE a.file.curCluster_ = r[n][j]
        <5>1. p + m # 0
          BY <1>2, <1>4
        <5>2. QED
          BY <5>1, <4>1, <3>4, <1>5 DEF Placed
      <4>2. CASE Stuck(a.vol)
        BY <4>2, <3>4, <3>5, <3>6, <2>2, <1>7, <1>10
      <4>3. QED
        BY <4>1, <4>2, <1>7, <1>10
    <3>9. FileOK(t.file, r[n], t.vol)
      <4>1. /\ t.file = h /\ h.firstCluster_ = r[n][1] /\ h.writeError \in BOOLEAN
            /\ h.curPosition_ \in Nat /\ h.curPosition_ <= Len(r[n]) * ClusterBytes
        BY <3>4, <3>5, <3>6, <2>5, <1>2, <1>4, <1>7, <1>10
      <4>2. QED
        BY <4>1, <3>7, <3>8, <2>6, WrittenFile
    <3>10. QED
      BY <3>4, <3>5, <3>6, <3>7, <3>9 DEF t
  <2>9. QED
    BY <2>7, <2>8
<1>11. QED
  BY <1>9, <1>10

\* The body of the loop of write().
writeStep(s, bytes, t, n) ==
    IF t.ok
      THEN writeTurn(t, SubSeq(bytes, t.file.curPosition_ - s.file.curPosition_ + 1,
                               t.file.curPosition_ - s.file.curPosition_ + n))
      ELSE t

LEMMA WriteTurnsDef ==
    ASSUME NEW s, NEW bytes, NEW turns, Len(turns) \in Nat
    PROVE  \E f : /\ f = [k \in 0 .. Len(turns) |->
                             IF k = 0 THEN s ELSE writeStep(s, bytes, f[k - 1], turns[k])]
                  /\ writeTurns(s, bytes, turns) = f[Len(turns)]
<1> DEFINE n == Len(turns)
           turn(t, m) ==
               LET from == t.file.curPosition_ - s.file.curPosition_
               IN  writeTurn(t, SubSeq(bytes, from + 1, from + m))
           done[k \in 0 .. n] ==
               IF k = 0 THEN s ELSE Then(done[k - 1], LAMBDA t : turn(t, turns[k]))
           step(x, k) == Then(x, LAMBDA t : turn(t, turns[k]))
           Is(f, N) == f = [k \in 0 .. N |-> IF k = 0 THEN s ELSE step(f[k - 1], k)]
<1>1. writeTurns(s, bytes, turns) = done[n]
  BY DEF writeTurns
<1>2. ASSUME NEW x, NEW k PROVE step(x, k) = writeStep(s, bytes, x, turns[k])
  BY DEF Then, writeStep
<1>3. done = CHOOSE g : Is(g, n)
  OBVIOUS
<1> HIDE DEF step
<1>4. \A N \in Nat : \E f : Is(f, N)
  <2> DEFINE S == {N \in Nat : \E f : Is(f, N)}
  <2>1. 0 \in S
    <3>1. Is([k \in 0 .. 0 |-> s], 0)
      OBVIOUS
    <3>2. QED
      BY <3>1
  <2>2. ASSUME NEW N \in Nat, N \in S PROVE N + 1 \in S
    <3>1. PICK f : Is(f, N)
      BY <2>2
    <3> DEFINE g == [k \in 0 .. N + 1 |-> IF k = N + 1 THEN step(f[N], k) ELSE f[k]]
    <3>2. Is(g, N + 1)
      BY <3>1
    <3> HIDE DEF g, Is
    <3>3. QED
      BY <3>2
  <2> HIDE DEF S
  <2>3. Nat \subseteq S
    BY <2>1, <2>2, SetInduction
  <2>4. QED
    BY <2>3 DEF S
<1>5. PICK f : Is(f, n)
  BY <1>4
<1> HIDE DEF done
<1>6. Is(done, n)
  BY <1>3, <1>5
<1>7. done = [k \in 0 .. n |-> IF k = 0 THEN s ELSE writeStep(s, bytes, done[k - 1], turns[k])]
  BY <1>2, <1>6
<1>8. QED
  BY <1>1, <1>7

\* All its turns do.
LEMMA TurnsWritten ==
    ASSUME NEW s, NEW q, Sound(s, q), s.ok, NEW n \in Name,
           FileOK(s.file, q[n], s.vol), s.file.writable,
           NEW A, NEW bytes \in Seq(A), NEW turns,
           Fits(turns, s.file.curPosition_, Len(bytes))
    PROVE  LET t == writeTurns(s, bytes, turns)
           IN  \E r : /\ Wrote(s, t, q, r, n) /\ FileOK(t.file, r[n], t.vol)
                      /\ t.ok => t.file.curPosition_ = s.file.curPosition_ + Len(bytes)
<1> DEFINE K == Len(turns)  p == s.file.curPosition_  L == Len(bytes)
<1>1. turns \in Seq(Nat \ {0}) /\ K \in Nat /\ L \in Nat
  BY DEF Fits
<1>2. PICK at \in [0 .. K -> p .. p + L] :
         /\ at[0] = p /\ at[K] = p + L
         /\ \A k \in 1 .. K : /\ turns[k] <= BlockSize - offsetInBlock(at[k - 1])
                              /\ at[k] = at[k - 1] + turns[k]
  BY DEF Fits
<1>3. PICK f : /\ f = [k \in 0 .. K |->
                          IF k = 0 THEN s ELSE writeStep(s, bytes, f[k - 1], turns[k])]
               /\ writeTurns(s, bytes, turns) = f[K]
  BY <1>1, WriteTurnsDef
<1>4. f[0] = s /\ \A k \in 0 .. K : k # 0 => f[k] = writeStep(s, bytes, f[k - 1], turns[k])
  <2>1. K \in Nat
    BY <1>1
  <2>2. f = [k \in 0 .. K |-> IF k = 0 THEN s ELSE writeStep(s, bytes, f[k - 1], turns[k])]
    BY <1>3
  <2> HIDE DEF K
  <2>3. 0 \in 0 .. K
    BY <2>1
  <2>4. QED
    BY <2>2, <2>3
<1>5. p \in Nat /\ s.file.dirDirty \in BOOLEAN
  BY DEF FileOK
<1> DEFINE Held(t, k) == \E r : /\ Wrote(s, t, q, r, n) /\ FileOK(t.file, r[n], t.vol)
                                /\ t.ok => t.file.curPosition_ = at[k]
           S == {k \in Nat : k \in 0 .. K => Held(f[k], k)}
<1>6. 0 \in S
  <2>1. Wrote(s, s, q, q, n)
    BY <1>5, WroteSelf
  <2>2. Held(s, 0)
    BY <2>1, <1>2
  <2> HIDE DEF Held
  <2>3. QED
    BY <2>2, <1>4
<1>7. ASSUME NEW k \in Nat, k \in S PROVE k + 1 \in S
  <2>1. SUFFICES ASSUME k + 1 \in 0 .. K PROVE Held(f[k + 1], k + 1)
    OBVIOUS
  <2> DEFINE t == f[k]  m == turns[k + 1]  from == at[k] - p
             piece == SubSeq(bytes, from + 1, from + m)
  <2>2. PICK r : /\ Wrote(s, t, q, r, n) /\ FileOK(t.file, r[n], t.vol)
                 /\ t.ok => t.file.curPosition_ = at[k]
    BY <1>7, <2>1
  <2>3. f[k + 1] = writeStep(s, bytes, t, m)
    <3>1. k + 1 # 0 /\ (k + 1) - 1 = k
      OBVIOUS
    <3> HIDE DEF K
    <3>2. f[k + 1] = writeStep(s, bytes, f[(k + 1) - 1], turns[k + 1])
      BY <1>4, <2>1, <3>1
    <3>3. QED
      BY <3>1, <3>2
  <2>4. /\ k \in 0 .. K /\ k + 1 \in 1 .. K /\ m \in Nat \ {0}
        /\ at[k] \in p .. p + L /\ at[k + 1] \in p .. p + L
        /\ at[k + 1] = at[k] + m /\ m <= BlockSize - offsetInBlock(at[k])
    <3>1. k \in 0 .. K /\ k + 1 \in 1 .. K /\ k + 1 \in 0 .. K /\ (k + 1) - 1 = k
      BY <2>1, <1>1
    <3>2. m \in Nat \ {0}
      BY <3>1, <1>1
    <3>3. at[k] \in p .. p + L /\ at[k + 1] \in p .. p + L
      BY <3>1, <1>2
    <3>4. /\ turns[k + 1] <= BlockSize - offsetInBlock(at[(k + 1) - 1])
          /\ at[k + 1] = at[(k + 1) - 1] + turns[k + 1]
      BY <3>1, <1>2
    <3>5. QED
      BY <3>1, <3>2, <3>3, <3>4
  <2> HIDE DEF t, m, L, p
  <2>5. CASE ~t.ok
    <3>1. f[k + 1] = t
      BY <2>3, <2>5 DEF writeStep
    <3>2. QED
      BY <3>1, <2>2, <2>5
  <2>6. CASE t.ok
    <3>1. f[k + 1] = writeTurn(t, piece)
      BY <2>2, <2>3, <2>6 DEF writeStep, p
    <3>2. from \in Nat /\ from + 1 \in 1 .. L + 1 /\ from + m \in from .. L
          /\ (from + m) - (from + 1) + 1 = m
      <4> DEFINE a == at[k]
      <4>1. a \in Int /\ a >= p /\ a + m <= p + L /\ m \in Nat /\ L \in Nat /\ p \in Nat
        BY <2>4, <1>1, <1>5 DEF L, p
      <4>2. from = a - p
        OBVIOUS
      <4> HIDE DEF a, from
      <4>3. from \in Nat /\ from + m <= L
        BY <4>1, <4>2
      <4>4. QED
        BY <4>1, <4>3
    <3>3. Len(piece) = m
      BY <3>2, <2>4, <1>1 DEF L
    <3> HIDE DEF piece, from
    <3>4. /\ Len(piece) \in Nat \ {0}
          /\ Len(piece) <= BlockSize - offsetInBlock(t.file.curPosition_)
      BY <3>3, <2>2, <2>4, <2>6
    <3>5. Sound(t, r) /\ t.file.writable
      BY <2>2 DEF Wrote
    <3> DEFINE u == writeTurn(t, piece)
    <3>6. PICK x : /\ Wrote(t, u, r, x, n) /\ FileOK(u.file, x[n], u.vol)
                   /\ u.ok => u.file.curPosition_ = t.file.curPosition_ + Len(piece)
      BY <3>4, <3>5, <2>2, <2>6, TurnWritten
    <3> HIDE DEF u
    <3>7. Wrote(s, u, q, x, n)
      BY <3>6, <2>2, WroteTrans
    <3>8. u.ok => u.file.curPosition_ = at[k + 1]
      BY <3>3, <3>6, <2>2, <2>4, <2>6
    <3>9. f[k + 1] = u
      BY <3>1 DEF u
    <3>10. QED
      BY <3>6, <3>7, <3>8, <3>9
  <2>7. QED
    BY <2>5, <2>6
<1> HIDE DEF S, Held
<1>8. Nat \subseteq S
  BY <1>6, <1>7, SetInduction
<1>9. Held(f[K], K)
  BY <1>1, <1>8 DEF S
<1>10. QED
  BY <1>2, <1>3, <1>9 DEF Held

\* write() leaves the file in order with a chain that may have grown; what the
\* entry does not tell is marked dirty.
LEMMA WriteIs ==
    ASSUME NEW s, NEW q, Sound(s, q), s.ok, NEW n \in Name,
           FileOK(s.file, q[n], s.vol), s.file.writable,
           NEW A, NEW bytes \in Seq(A)
    PROVE  LET t == write(s, bytes)
           IN  \E r : /\ Grown(q, r, n) /\ Sound(t, r) /\ FileOK(t.file, r[n], t.vol)
                      /\ Dir(Seen(t.vol)) = Dir(Seen(s.vol))
                      /\ Stuck(s.vol) => Stuck(t.vol)
                      /\ Covered(s.vol, q) => Covered(t.vol, r)
                      /\ t.ok /\ Len(bytes) > 0 => t.file.fileSize_ # 0
                      /\ t.file.dirIndex_ = s.file.dirIndex_ /\ t.file.writable
                      /\ ~t.file.dirDirty =>
                            /\ ~s.file.dirDirty
                            /\ t.file.firstCluster_ = s.file.firstCluster_
                            /\ t.file.fileSize_ = s.file.fileSize_
<1> DEFINE t == write(s, bytes)  f == s.file
           turns == Pieces(f.curPosition_, Len(bytes))
           u == writeTurns(s, bytes, turns)
<1>1. f.curPosition_ \in Nat /\ Len(bytes) \in Nat
  BY DEF FileOK
<1>2. Fits(turns, f.curPosition_, Len(bytes))
  BY <1>1, PiecesFit
<1> HIDE DEF turns
<1>3. PICK r : /\ Wrote(s, u, q, r, n) /\ FileOK(u.file, r[n], u.vol)
               /\ u.ok => u.file.curPosition_ = f.curPosition_ + Len(bytes)
  BY <1>2, TurnsWritten
<1>4. t = Ended(u)
  BY DEF write, turns
<1> HIDE DEF u, t
<1> DEFINE e == u.file
           h == IF ~u.ok THEN [e EXCEPT !.writeError = TRUE]
                ELSE IF e.curPosition_ <= e.fileSize_ THEN e
                ELSE [e EXCEPT !.fileSize_ = e.curPosition_, !.dirDirty = TRUE]
<1>5. IsFile(e) /\ IsCall(u) /\ Sound(u, r)
  BY <1>3 DEF Wrote, Sound, IsCall
<1>6. t = [u EXCEPT !.file = h]
  <2>1. CASE ~u.ok
    BY <2>1, <1>4, <1>5 DEF Ended, IsCall, CallFields
  <2>2. CASE u.ok /\ e.curPosition_ <= e.fileSize_
    BY <2>2, <1>4, <1>5 DEF Ended, IsCall, CallFields
  <2>3. CASE u.ok /\ ~(e.curPosition_ <= e.fileSize_)
    BY <2>3, <1>4, <1>5 DEF Ended, IsCall, CallFields
  <2>4. QED
    BY <2>1, <2>2, <2>3
<1>7. e.writable /\ e.writable \in BOOLEAN /\ e.curPosition_ \in Nat /\ e.fileSize_ \in Nat
  BY <1>3 DEF Wrote, FileOK, BeginsAt
<1>8. /\ IsFile(h) /\ h.writable = e.writable /\ h.dirIndex_ = e.dirIndex_
      /\ h.firstCluster_ = e.firstCluster_ /\ h.curCluster_ = e.curCluster_
      /\ h.curPosition_ = e.curPosition_
      /\ h.writeError = IF u.ok THEN e.writeError ELSE TRUE
      /\ h.dirDirty = IF u.ok /\ ~(e.curPosition_ <= e.fileSize_) THEN TRUE ELSE e.dirDirty
      /\ h.fileSize_ = IF u.ok /\ ~(e.curPosition_ <= e.fileSize_) THEN e.curPosition_
                       ELSE e.fileSize_
  BY <1>5 DEF IsFile, FileFields
<1> HIDE DEF h
<1> DEFINE z == [u EXCEPT !.file = h]
<1>9. Sound(z, r) /\ z.file = h /\ z.vol = u.vol /\ z.ok = u.ok
  BY <1>5, <1>8, FileSet
<1>10. t = z
  BY <1>6
<1> HIDE DEF z
<1>11. FileOK(h, r[n], u.vol)
  <2> DEFINE g == r[n]
  <2>1. /\ BeginsAt(e.firstCluster_, e.fileSize_, g)
        /\ e.curPosition_ <= Len(g) * ClusterBytes
        /\ e.firstCluster_ = 0 => g = <<>>
    BY <1>3, <1>7 DEF FileOK
  <2>2. g = <<>> => e.curPosition_ <= 0
    <3>1. g = <<>> => Len(g) = 0
      OBVIOUS
    <3>2. 0 * ClusterBytes = 0
      BY Sizes, Z3
    <3>3. QED
      BY <3>1, <3>2, <2>1
  <2>3. h.fileSize_ \in Nat /\ h.fileSize_ <= Len(g) * ClusterBytes
    BY <2>1, <1>7, <1>8 DEF BeginsAt
  <2>4. e.firstCluster_ = 0 => h.fileSize_ = 0
    <3>1. e.firstCluster_ = 0 => e.curPosition_ = 0 /\ e.fileSize_ = 0
      BY <2>1, <2>2, <1>7 DEF BeginsAt
    <3>2. QED
      BY <3>1, <1>8
  <2>5. BeginsAt(h.firstCluster_, h.fileSize_, g)
    BY <2>1, <2>3, <2>4, <1>8 DEF BeginsAt
  <2>6. /\ h.dirDirty \in BOOLEAN /\ h.writeError \in BOOLEAN /\ h.dirIndex_ \in 1 .. DirSlots
    BY <1>3, <1>8 DEF FileOK
  <2>7. Placed(h, g) \/ (Stuck(u.vol) /\ InChain(h.curCluster_, g))
    BY <1>3, <1>8 DEF FileOK, Placed
  <2> HIDE DEF g
  <2>8. QED
    BY <2>1, <2>5, <2>6, <2>7, <1>7, <1>8 DEF FileOK, g
<1>12. u.ok /\ Len(bytes) > 0 => h.fileSize_ # 0
  <2> DEFINE p == e.curPosition_  z0 == e.fileSize_
  <2>1. u.ok /\ Len(bytes) > 0 => p \in Nat /\ z0 \in Nat /\ p > 0
    BY <1>1, <1>3, <1>7
  <2>2. u.ok => h.fileSize_ = IF ~(p <= z0) THEN p ELSE z0
    BY <1>8
  <2> HIDE DEF p, z0
  <2>3. QED
    BY <2>1, <2>2
<1>13. QED
  BY <1>3, <1>7, <1>8, <1>9, <1>10, <1>11, <1>12 DEF Wrote, t

----------------------------------------------------------------------------
(* Reading *)

LEMMA OutSet ==
    ASSUME NEW s, NEW q, Sound(s, q), NEW x
    PROVE  LET t == [s EXCEPT !.out = x]
           IN  Sound(t, q) /\ t.file = s.file /\ t.ok = s.ok /\ t.vol = s.vol
<1> DEFINE t == [s EXCEPT !.out = x]
<1>1. IsCall(t) /\ t.file = s.file /\ t.ok = s.ok /\ t.vol = s.vol
  BY DEF Sound, IsCall, CallFields
<1> HIDE DEF t
<1>2. QED
  BY <1>1 DEF Sound, t

\* A file moved from f.
Moved(f, h) ==
    h = [f EXCEPT !.curCluster_ = h.curCluster_, !.curPosition_ = h.curPosition_]

LEMMA TakenIs ==
    ASSUME NEW s, NEW q, Sound(s, q), NEW x, NEW n
    PROVE  LET t == Taken(s, x, n)
           IN  /\ Sound(t, q) /\ t.ok = s.ok /\ t.vol = s.vol
               /\ t.file = [s.file EXCEPT !.curPosition_ = s.file.curPosition_ + n]
<1> DEFINE h == [s.file EXCEPT !.curPosition_ = s.file.curPosition_ + n]
           y == [i \in 1 .. n |-> x[offsetInBlock(s.file.curPosition_) + i - 1]]
           u == [s EXCEPT !.file = h]
           w == [u EXCEPT !.out = y]
           t == Taken(s, x, n)
<1>1. IsFile(h)
  BY DEF Sound, IsCall, IsFile, FileFields
<1>2. t = [s EXCEPT !.file.curPosition_ = @ + n, !.out = y]
  BY DEF Taken
<1> HIDE DEF y, t
<1>3. t = w
  BY <1>2 DEF Sound, IsCall, CallFields
<1> HIDE DEF h
<1>4. Sound(u, q) /\ u.file = h /\ u.ok = s.ok /\ u.vol = s.vol
  BY <1>1, FileSet
<1> HIDE DEF u
<1>5. Sound(w, q) /\ w.file = u.file /\ w.ok = u.ok /\ w.vol = u.vol
  BY <1>4, OutSet
<1> HIDE DEF w
<1>6. QED
  BY <1>3, <1>4, <1>5 DEF h, t

\* A block is read from the cache or past it.
LEMMA BlockRead ==
    ASSUME NEW s, NEW q, Sound(s, q), s.ok, s.file.curCluster_ \in Clusters,
           s.file.curPosition_ \in Nat, NEW n
    PROVE  LET t == readBlock(s, n)
           IN  /\ Sound(t, q) /\ Quiet(s, t)
               /\ ~t.ok => Stuck(s.vol) /\ t.file = s.file
               /\ t.ok => t.file = [s.file EXCEPT !.curPosition_ = s.file.curPosition_ + n]
<1> DEFINE b == currentBlock(s)  u == cacheRawBlock(s, b, FALSE)  t == readBlock(s, n)
<1>1. b \in SeenBlocks
  BY CurrentIs
<1>2. t = IF n = BlockSize /\ b # s.vol.cacheBlockNumber_ THEN Taken(s, s.vol.card[b], n)
          ELSE IF u.ok THEN Taken(u, u.vol.cacheBuffer_, n) ELSE u
  BY DEF readBlock, Then
<1> HIDE DEF b
<1>3. /\ Sound(u, q) /\ Idle(s, u) /\ u.ok = ~Stuck(s.vol)
  BY <1>1, RawClean
<1> HIDE DEF u
<1>4. ASSUME NEW z, NEW x, Sound(z, q), Idle(s, z), t = Taken(z, x, n)
      PROVE  /\ Sound(t, q) /\ Quiet(s, t) /\ t.ok = z.ok
             /\ t.file = [s.file EXCEPT !.curPosition_ = s.file.curPosition_ + n]
  <2> DEFINE y == Taken(z, x, n)
  <2>1. /\ Sound(y, q) /\ y.ok = z.ok /\ y.vol = z.vol
        /\ y.file = [z.file EXCEPT !.curPosition_ = z.file.curPosition_ + n]
    BY <1>4, TakenIs
  <2> HIDE DEF y, t
  <2>2. t = y
    BY <1>4 DEF y
  <2>3. QED
    BY <2>1, <2>2, <1>4 DEF Quiet, Idle
<1> HIDE DEF t
<1>5. CASE n = BlockSize /\ b # s.vol.cacheBlockNumber_
  <2>1. Idle(s, s)
    BY DEF Idle
  <2>2. t = Taken(s, s.vol.card[b], n)
    BY <1>2, <1>5
  <2>3. QED
    BY <2>1, <2>2, <1>4 DEF t
<1>6. CASE ~(n = BlockSize /\ b # s.vol.cacheBlockNumber_) /\ u.ok
  <2>1. t = Taken(u, u.vol.cacheBuffer_, n)
    BY <1>2, <1>6
  <2>2. QED
    BY <2>1, <1>3, <1>4, <1>6 DEF t
<1>7. CASE ~(n = BlockSize /\ b # s.vol.cacheBlockNumber_) /\ ~u.ok
  <2>1. t = u
    BY <1>2, <1>7
  <2>2. QED
    BY <2>1, <1>3, <1>7 DEF t, Quiet, Idle
<1>8. QED
  BY <1>5, <1>6, <1>7

\* The cluster of a position that a file has.
LEMMA ClusterHas ==
    ASSUME NEW p \in Nat, NEW size \in Nat, NEW k \in Nat, size <= k * ClusterBytes, p < size
    PROVE  p \div ClusterBytes + 1 \in 1 .. k
<1> DEFINE most == k * ClusterBytes
<1>1. most \in Nat
  BY Multiples
<1> HIDE DEF most
<1>2. p < most /\ p <= most
  BY <1>1 DEF most
<1>3. p \div ClusterBytes + 1 <= k
  BY <1>2, IndexWithin DEF most
<1>4. p \div ClusterBytes \in Nat
  BY IndexIs
<1>5. QED
  BY <1>3, <1>4

\* The cluster of the current position is found, in the chain g.
ClusterFound(s, t, q, g) ==
    LET f == s.file  j == f.curPosition_ \div ClusterBytes + 1
    IN  /\ Sound(t, q) /\ Quiet(s, t)
        /\ ~t.ok => t.file = f
        /\ j \in 1 .. Len(g)
        /\ t.ok => \E c : /\ t.file = [f EXCEPT !.curCluster_ = c]
                          /\ InChain(c, g)
                          /\ c = g[j] \/ Stuck(s.vol)

\* A turn of read() at the start of a cluster follows the chain first.
LEMMA ClusterRead ==
    ASSUME NEW s, NEW q, Sound(s, q), s.ok, NEW n \in Name,
           FileOK(s.file, q[n], s.vol), s.file.curPosition_ < s.file.fileSize_
    PROVE  ClusterFound(s, readCluster(s), q, q[n])
<1> DEFINE t == readCluster(s)  f == s.file  g == q[n]  p == f.curPosition_
           cur == f.curCluster_  fat == Fat(Seen(s.vol))  j == p \div ClusterBytes + 1
<1>1. SUFFICES /\ Sound(t, q) /\ Quiet(s, t)
               /\ ~t.ok => t.file = f
               /\ j \in 1 .. Len(g)
               /\ t.ok => \E c : /\ t.file = [f EXCEPT !.curCluster_ = c]
                                 /\ InChain(c, g)
                                 /\ c = g[j] \/ Stuck(s.vol)
  BY DEF ClusterFound
<1>2. /\ IsFile(f) /\ Chained(fat, q) /\ IsCall(s)
  BY DEF Sound, IsCall
<1>3. g \in Seq(Clusters) /\ Len(g) \in Nat
  BY <1>2 DEF Chained
<1>4. /\ p \in Nat /\ p <= Len(g) * ClusterBytes
      /\ f.fileSize_ \in Nat /\ f.fileSize_ <= Len(g) * ClusterBytes
      /\ BeginsAt(f.firstCluster_, f.fileSize_, g)
      /\ Placed(f, g) \/ (Stuck(s.vol) /\ InChain(cur, g))
  BY DEF FileOK, BeginsAt
<1>5. j \in 1 .. Len(g)
  <2> DEFINE k == Len(g)  size == f.fileSize_
  <2>1. k \in Nat /\ size \in Nat /\ size <= k * ClusterBytes /\ p < size
    BY <1>3, <1>4
  <2> HIDE DEF k, size, p
  <2>2. p \div ClusterBytes + 1 \in 1 .. k
    BY <2>1, <1>4, ClusterHas
  <2>3. QED
    BY <2>2 DEF k
<1>6. f = [f EXCEPT !.curCluster_ = cur]
  BY <1>2 DEF IsFile, FileFields
<1>7. /\ p = 0 => j = 1
      /\ p # 0 /\ p % ClusterBytes = 0 => j = Index(p) + 1
      /\ p % ClusterBytes # 0 => j = Index(p) /\ p # 0
  <2> DEFINE e == ClusterBytes
  <2>1. e \in Nat \ {0} /\ e * 0 <= 0 /\ 0 < e * 0 + e
    BY Sizes, Z3
  <2> HIDE DEF e, p
  <2>2. 0 \div e = 0 /\ 0 % e = 0 - e * 0
    BY <2>1, EuclidUnique
  <2>3. 0 % e = 0
    BY <2>1, <2>2, Z3
  <2>4. /\ p % e = 0 => Index(p) = p \div e
        /\ p % e # 0 => Index(p) = p \div e + 1
    BY <1>4, IndexIs DEF e
  <2>5. QED
    BY <2>2, <2>3, <2>4 DEF e
<1> HIDE DEF j, t
<1>8. CASE ~StartOfCluster(s)
  <2>1. t = s
    BY <1>8 DEF readCluster, t
  <2>2. j = Index(p) /\ p # 0
    BY <1>7, <1>8 DEF StartOfCluster
  <2>3. Placed(f, g) => cur = g[j]
    BY <2>2 DEF Placed
  <2>4. cur = g[j] => InChain(cur, g)
    BY <1>5 DEF InChain
  <2>5. InChain(cur, g) /\ (cur = g[j] \/ Stuck(s.vol))
    BY <2>3, <2>4, <1>4
  <2>6. Quiet(s, s)
    BY DEF Quiet
  <2> HIDE DEF cur, f, g
  <2>7. QED
    BY <2>1, <2>5, <2>6, <1>5, <1>6 DEF t, f, g, j, p
<1>9. CASE StartOfCluster(s) /\ p = 0
  <2> DEFINE h == [f EXCEPT !.curCluster_ = g[1]]
  <2>1. f.firstCluster_ = g[1] /\ j = 1
    <3>1. f.firstCluster_ # 0
      BY <1>4 DEF BeginsAt
    <3>2. QED
      BY <3>1, <1>4, <1>7, <1>9 DEF BeginsAt
  <2>2. t = [s EXCEPT !.file = h]
    BY <2>1, <1>2, <1>9 DEF readCluster, t, IsCall, CallFields
  <2>3. IsFile(h)
    BY <1>2 DEF IsFile, FileFields
  <2> HIDE DEF h
  <2> DEFINE z == [s EXCEPT !.file = h]
  <2>4. Sound(z, q) /\ z.file = h /\ z.ok = s.ok /\ Quiet(s, z)
    <3> HIDE DEF f, g, p, cur
    <3>1. QED
      BY <2>3, FileSet
  <2>5. t = z
    BY <2>2
  <2> HIDE DEF z
  <2>6. InChain(g[1], g)
    BY <2>1, <1>5 DEF InChain
  <2>7. QED
    BY <2>1, <2>4, <2>5, <2>6, <1>5 DEF t, h, j
<1>10. CASE StartOfCluster(s) /\ p # 0
  <2> DEFINE z == nextLink(s)
  <2>1. t = z
    BY <1>10 DEF readCluster, t
  <2>2. cur \in Clusters
    <3>1. CASE Placed(f, g)
      <4>1. InChain(cur, g)
        BY <3>1, <1>3, <1>4, <1>10, PlacedIs
      <4>2. QED
        BY <4>1, <1>3, InChainIs
    <3>2. CASE InChain(cur, g)
      BY <3>2, <1>3, InChainIs
    <3>3. QED
      BY <3>1, <3>2, <1>4
  <2>3. /\ Sound(z, q) /\ Quiet(s, z) /\ z.ok = ~Stuck(s.vol)
        /\ ~z.ok => z.file = s.file
        /\ z.ok => z.file = [s.file EXCEPT !.curCluster_ = Fat(Seen(s.vol))[s.file.curCluster_]]
    BY <2>2, LinkIs
  <2> HIDE DEF z
  <2>4. z.ok => fat[cur] = g[j] /\ InChain(g[j], g)
    <3>1. SUFFICES ASSUME z.ok PROVE fat[cur] = g[j] /\ InChain(g[j], g)
      OBVIOUS
    <3> DEFINE i == Index(p)
    <3>2. Placed(f, g)
      BY <3>1, <2>3, <1>4
    <3>3. i \in 1 .. Len(g)
      BY <3>2, <1>3, <1>4, <1>10, PlacedIs
    <3>4. cur = g[i]
      BY <3>2, <1>10 DEF Placed
    <3>5. j = i + 1
      BY <1>7, <1>10 DEF StartOfCluster
    <3> HIDE DEF i
    <3>6. i < Len(g)
      BY <3>3, <3>5, <1>3, <1>5
    <3>7. fat[g[i]] = IF i < Len(g) THEN g[i + 1] ELSE EOC
      BY <3>3, <1>2 DEF Chained
    <3>8. QED
      BY <3>4, <3>5, <3>6, <3>7, <1>5 DEF InChain
  <2>5. QED
    BY <2>1, <2>3, <2>4, <1>5 DEF t, j
<1>11. QED
  BY <1>8, <1>9, <1>10

\* A turn of read() leaves the file in order.
LEMMA TurnRead ==
    ASSUME NEW s, NEW q, Sound(s, q), s.ok, NEW n \in Name,
           FileOK(s.file, q[n], s.vol), NEW m \in Nat \ {0},
           m <= BlockSize - offsetInBlock(s.file.curPosition_),
           s.file.curPosition_ + m <= s.file.fileSize_
    PROVE  LET t == readTurn(s, m)
           IN  /\ Sound(t, q) /\ Quiet(s, t) /\ Moved(s.file, t.file)
               /\ FileOK(t.file, q[n], t.vol)
               /\ t.ok => t.file.curPosition_ = s.file.curPosition_ + m
<1> DEFINE t == readTurn(s, m)  f == s.file  g == q[n]  p == f.curPosition_
           j == p \div ClusterBytes + 1
           a == readCluster(s)  b == readBlock(a, m)
           u == IF a.ok THEN b ELSE a
           w == [u EXCEPT !.out = s.out \o u.out]
<1>1. t = IF u.ok THEN w ELSE u
  BY DEF readTurn, Then
<1>2. /\ p \in Nat /\ f.fileSize_ \in Nat /\ p < f.fileSize_ /\ p <= f.fileSize_
      /\ f.fileSize_ <= Len(g) * ClusterBytes /\ p + m <= f.fileSize_
  BY DEF FileOK, BeginsAt
<1>3. g \in Seq(Clusters) /\ Len(g) \in Nat /\ IsFile(f)
  BY DEF Sound, Chained, IsCall
<1>4. /\ Sound(a, q) /\ Quiet(s, a)
      /\ ~a.ok => a.file = f
      /\ j \in 1 .. Len(g)
      /\ a.ok => \E c : /\ a.file = [f EXCEPT !.curCluster_ = c]
                        /\ InChain(c, g) /\ (c = g[j] \/ Stuck(s.vol))
  <2>1. s.file.curPosition_ < s.file.fileSize_
    BY <1>2
  <2> HIDE DEF t, f, g, p, j, a, b, u, w
  <2>2. ClusterFound(s, readCluster(s), q, q[n])
    BY <2>1, ClusterRead
  <2>3. QED
    BY <2>2 DEF ClusterFound, f, g, p, j, a
<1>5. Index(p + m) = j /\ p + m # 0
  <2>1. p + m # 0
    BY <1>2
  <2> HIDE DEF p
  <2>2. Index(p + m) = p \div ClusterBytes + 1
    BY <1>2, IndexInBlock DEF p
  <2>3. QED
    BY <2>1, <2>2
<1>6. p + m <= Len(g) * ClusterBytes /\ p <= Len(g) * ClusterBytes
  <2> DEFINE most == Len(g) * ClusterBytes
  <2>1. most \in Nat
    BY <1>3, Multiples
  <2> HIDE DEF most
  <2>2. p + m <= most /\ p <= most
    BY <2>1, <1>2 DEF most
  <2>3. QED
    BY <2>2 DEF most
<1> HIDE DEF a, b, j
<1>7. ASSUME NEW v, Sound(v, q), Quiet(s, v), NEW c, NEW pos, pos = p \/ pos = p + m,
             v.file = [f EXCEPT !.curCluster_ = c, !.curPosition_ = pos],
             (pos = p + m /\ c = g[j]) \/ (Stuck(s.vol) /\ InChain(c, g))
      PROVE  /\ FileOK(v.file, g, v.vol) /\ Moved(f, v.file)
             /\ v.file.curPosition_ = pos
  <2> DEFINE h == [f EXCEPT !.curCluster_ = c, !.curPosition_ = pos]
  <2>1. h.curCluster_ = c /\ h.curPosition_ = pos
    BY <1>3 DEF IsFile, FileFields
  <2>2. Placed(h, g) \/ (Stuck(v.vol) /\ InChain(c, g))
    BY <2>1, <1>5, <1>7 DEF Placed, Quiet
  <2>3. pos \in Nat /\ pos <= Len(g) * ClusterBytes /\ pos <= f.fileSize_
    BY <1>2, <1>6, <1>7
  <2>4. FileOK(f, g, v.vol)
    <3>1. Extends(g, g)
      BY <1>3 DEF Extends
    <3>2. Stuck(s.vol) => Stuck(v.vol)
      BY <1>7 DEF Quiet
    <3> HIDE DEF g, f
    <3>3. QED
      BY <3>1, <3>2, FileGrows DEF f, g
  <2>5. FileOK(h, g, v.vol)
    <3> HIDE DEF g, f, p
    <3>1. QED
      BY <2>2, <2>3, <2>4, MovedFile
  <2>6. Moved(f, h)
    BY <2>1 DEF Moved
  <2> HIDE DEF h
  <2>7. QED
    BY <2>1, <2>5, <2>6, <1>7 DEF h
<1>8. CASE ~a.ok
  <2>1. t = a
    BY <1>1, <1>8
  <2>2. FileOK(f, g, a.vol)
    <3>1. Extends(g, g)
      BY <1>3 DEF Extends
    <3>2. Stuck(s.vol) => Stuck(a.vol)
      BY <1>4 DEF Quiet
    <3> HIDE DEF g, f
    <3>3. QED
      BY <3>1, <3>2, FileGrows DEF f, g
  <2>3. Moved(f, f)
    BY <1>3 DEF Moved, IsFile, FileFields
  <2> HIDE DEF t
  <2>4. QED
    BY <2>1, <2>2, <2>3, <1>4, <1>8 DEF t
<1>9. CASE a.ok
  <2>1. PICK c : /\ a.file = [f EXCEPT !.curCluster_ = c]
                 /\ InChain(c, g) /\ (c = g[j] \/ Stuck(s.vol))
    BY <1>4, <1>9
  <2>2. a.file.curCluster_ = c /\ a.file.curPosition_ = p /\ c \in Clusters
    <3>1. c \in Clusters
      BY <2>1, <1>3, InChainIs
    <3>2. QED
      BY <3>1, <2>1, <1>3 DEF IsFile, FileFields
  <2>3. /\ Sound(b, q) /\ Quiet(a, b)
        /\ ~b.ok => Stuck(a.vol) /\ b.file = a.file
        /\ b.ok => b.file = [a.file EXCEPT !.curPosition_ = a.file.curPosition_ + m]
    <3>1. Sound(a, q) /\ a.ok /\ a.file.curCluster_ \in Clusters /\ a.file.curPosition_ \in Nat
      BY <2>2, <1>2, <1>4, <1>9
    <3>2. QED
      BY <3>1, BlockRead DEF b
  <2>4. Quiet(s, b)
    BY <2>3, <1>4 DEF Quiet
  <2>5. CASE ~b.ok
    <3>1. t = b
      BY <2>5, <1>1, <1>9
    <3>2. b.file = [f EXCEPT !.curCluster_ = c, !.curPosition_ = p]
      BY <2>1, <2>3, <2>5, <1>3 DEF IsFile, FileFields
    <3>3. Stuck(s.vol)
      BY <2>3, <2>5, <1>4 DEF Quiet
    <3>4. /\ FileOK(b.file, g, b.vol) /\ Moved(f, b.file)
      BY <3>2, <3>3, <2>1, <2>3, <2>4, <1>7
    <3> HIDE DEF t
    <3>5. QED
      BY <3>1, <3>4, <2>3, <2>4, <2>5 DEF t
  <2>6. CASE b.ok
    <3> DEFINE z == [b EXCEPT !.out = s.out \o b.out]
    <3>1. t = z
      BY <2>6, <1>1, <1>9
    <3>2. Sound(z, q) /\ z.file = b.file /\ z.ok = b.ok /\ z.vol = b.vol
      BY <2>3, OutSet
    <3> HIDE DEF z, t
    <3>3. z.file = [f EXCEPT !.curCluster_ = c, !.curPosition_ = p + m]
      BY <3>2, <2>1, <2>2, <2>3, <2>6, <1>3 DEF IsFile, FileFields
    <3>4. Quiet(s, z)
      BY <3>2, <2>4 DEF Quiet
    <3>5. /\ FileOK(z.file, g, z.vol) /\ Moved(f, z.file) /\ z.file.curPosition_ = p + m
      <4> DEFINE pos == p + m
      <4>1. pos = p + m /\ (pos = p \/ pos = p + m)
        OBVIOUS
      <4>2. (pos = p + m /\ c = g[j]) \/ (Stuck(s.vol) /\ InChain(c, g))
        BY <2>1
      <4>3. z.file = [f EXCEPT !.curCluster_ = c, !.curPosition_ = pos]
        BY <3>3
      <4>4. Sound(z, q)
        BY <3>2
      <4> HIDE DEF pos
      <4>5. FileOK(z.file, g, z.vol) /\ Moved(f, z.file) /\ z.file.curPosition_ = pos
        <5>1. pos = p \/ pos = p + m
          BY <4>1
        <5> HIDE DEF p, f, g
        <5>2. QED
          BY <5>1, <4>2, <4>3, <4>4, <3>4, <1>7, Zenon
      <4>6. QED
        BY <4>5 DEF pos
    <3>6. QED
      BY <3>1, <3>2, <3>4, <3>5 DEF t
  <2>7. QED
    BY <2>5, <2>6
<1>10. QED
  BY <1>8, <1>9

\* The body of the loop of read().
readStep(t, n) == IF t.ok THEN readTurn(t, n) ELSE t

LEMMA ReadTurnsDef ==
    ASSUME NEW s, NEW turns, Len(turns) \in Nat
    PROVE  \E f : /\ f = [k \in 0 .. Len(turns) |->
                             IF k = 0 THEN [s EXCEPT !.out = <<>>]
                             ELSE readStep(f[k - 1], turns[k])]
                  /\ readTurns(s, turns) = f[Len(turns)]
<1> DEFINE n == Len(turns)  s0 == [s EXCEPT !.out = <<>>]
           done[k \in 0 .. n] ==
               IF k = 0 THEN s0 ELSE Then(done[k - 1], LAMBDA t : readTurn(t, turns[k]))
           step(x, k) == Then(x, LAMBDA t : readTurn(t, turns[k]))
           Is(f, N) == f = [k \in 0 .. N |-> IF k = 0 THEN s0 ELSE step(f[k - 1], k)]
<1>1. readTurns(s, turns) = done[n]
  BY DEF readTurns
<1>2. ASSUME NEW x, NEW k PROVE step(x, k) = readStep(x, turns[k])
  BY DEF Then, readStep
<1>3. done = CHOOSE g : Is(g, n)
  OBVIOUS
<1> HIDE DEF step, s0
<1>4. \A N \in Nat : \E f : Is(f, N)
  <2> DEFINE S == {N \in Nat : \E f : Is(f, N)}
  <2>1. 0 \in S
    <3>1. Is([k \in 0 .. 0 |-> s0], 0)
      OBVIOUS
    <3>2. QED
      BY <3>1
  <2>2. ASSUME NEW N \in Nat, N \in S PROVE N + 1 \in S
    <3>1. PICK f : Is(f, N)
      BY <2>2
    <3> DEFINE g == [k \in 0 .. N + 1 |-> IF k = N + 1 THEN step(f[N], k) ELSE f[k]]
    <3>2. Is(g, N + 1)
      BY <3>1
    <3> HIDE DEF g, Is
    <3>3. QED
      BY <3>2
  <2> HIDE DEF S
  <2>3. Nat \subseteq S
    BY <2>1, <2>2, SetInduction
  <2>4. QED
    BY <2>3 DEF S
<1>5. PICK f : Is(f, n)
  BY <1>4
<1> HIDE DEF done
<1>6. Is(done, n)
  BY <1>3, <1>5
<1>7. done = [k \in 0 .. n |-> IF k = 0 THEN s0 ELSE readStep(done[k - 1], turns[k])]
  BY <1>2, <1>6
<1>8. QED
  BY <1>1, <1>7 DEF s0

LEMMA MovedTrans ==
    ASSUME NEW f, NEW g, NEW h, IsFile(f), Moved(f, g), Moved(g, h)
    PROVE  Moved(f, h)
<1> DEFINE cur == h.curCluster_  pos == h.curPosition_
<1>1. g = [f EXCEPT !.curCluster_ = g.curCluster_, !.curPosition_ = g.curPosition_]
  BY DEF Moved
<1>2. h = [g EXCEPT !.curCluster_ = cur, !.curPosition_ = pos]
  BY DEF Moved
<1> HIDE DEF cur, pos
<1>3. h = [f EXCEPT !.curCluster_ = cur, !.curPosition_ = pos]
  BY <1>1, <1>2 DEF IsFile, FileFields
<1>4. QED
  BY <1>3 DEF Moved, cur, pos

\* All its turns do.
LEMMA TurnsRead ==
    ASSUME NEW s, NEW q, Sound(s, q), s.ok, NEW n \in Name,
           FileOK(s.file, q[n], s.vol), NEW L \in Nat,
           s.file.curPosition_ + L <= s.file.fileSize_, NEW turns,
           Fits(turns, s.file.curPosition_, L)
    PROVE  LET t == readTurns(s, turns)
           IN  /\ Sound(t, q) /\ Quiet(s, t) /\ Moved(s.file, t.file)
               /\ FileOK(t.file, q[n], t.vol)
<1> DEFINE K == Len(turns)  p == s.file.curPosition_  s0 == [s EXCEPT !.out = <<>>]
<1>1. turns \in Seq(Nat \ {0}) /\ K \in Nat
  BY DEF Fits
<1>2. PICK at \in [0 .. K -> p .. p + L] :
         /\ at[0] = p /\ at[K] = p + L
         /\ \A k \in 1 .. K : /\ turns[k] <= BlockSize - offsetInBlock(at[k - 1])
                              /\ at[k] = at[k - 1] + turns[k]
  BY DEF Fits
<1>3. PICK f : /\ f = [k \in 0 .. K |-> IF k = 0 THEN s0 ELSE readStep(f[k - 1], turns[k])]
               /\ readTurns(s, turns) = f[K]
  BY <1>1, ReadTurnsDef
<1> HIDE DEF s0
<1>4. f[0] = s0 /\ \A k \in 0 .. K : k # 0 => f[k] = readStep(f[k - 1], turns[k])
  <2>1. K \in Nat
    BY <1>1
  <2>2. f = [k \in 0 .. K |-> IF k = 0 THEN s0 ELSE readStep(f[k - 1], turns[k])]
    BY <1>3
  <2> HIDE DEF K
  <2>3. 0 \in 0 .. K
    BY <2>1
  <2>4. QED
    BY <2>2, <2>3
<1>5. p \in Nat /\ s.file.fileSize_ \in Nat /\ p + L <= s.file.fileSize_ /\ IsFile(s.file)
  BY DEF FileOK, BeginsAt, Sound, IsCall
<1> DEFINE Held(t, k) == /\ Sound(t, q) /\ Quiet(s, t) /\ Moved(s.file, t.file)
                         /\ FileOK(t.file, q[n], t.vol)
                         /\ t.ok => t.file.curPosition_ = at[k]
           S == {k \in Nat : k \in 0 .. K => Held(f[k], k)}
<1>6. 0 \in S
  <2>1. Sound(s0, q) /\ s0.file = s.file /\ s0.vol = s.vol
    BY OutSet DEF s0
  <2>2. Moved(s.file, s.file)
    BY <1>5 DEF Moved, IsFile, FileFields
  <2>3. Held(s0, 0)
    BY <2>1, <2>2, <1>2 DEF Quiet
  <2> HIDE DEF Held
  <2>4. QED
    BY <2>3, <1>4
<1>7. ASSUME NEW k \in Nat, k \in S PROVE k + 1 \in S
  <2>1. SUFFICES ASSUME k + 1 \in 0 .. K PROVE Held(f[k + 1], k + 1)
    OBVIOUS
  <2> DEFINE t == f[k]  m == turns[k + 1]
  <2>2. Held(t, k)
    BY <1>7, <2>1
  <2>3. f[k + 1] = readStep(t, m)
    <3>1. k + 1 # 0 /\ (k + 1) - 1 = k
      OBVIOUS
    <3> HIDE DEF K
    <3>2. f[k + 1] = readStep(f[(k + 1) - 1], turns[k + 1])
      BY <1>4, <2>1, <3>1
    <3>3. QED
      BY <3>1, <3>2
  <2>4. /\ m \in Nat \ {0}
        /\ at[k] \in p .. p + L /\ at[k + 1] \in p .. p + L
        /\ at[k + 1] = at[k] + m /\ m <= BlockSize - offsetInBlock(at[k])
    <3>1. k \in 0 .. K /\ k + 1 \in 1 .. K /\ k + 1 \in 0 .. K /\ (k + 1) - 1 = k
      <4>1. K \in Nat
        BY <1>1
      <4> HIDE DEF K
      <4>2. QED
        BY <2>1, <4>1
    <3>2. m \in Nat \ {0}
      BY <3>1, <1>1
    <3>3. at[k] \in p .. p + L /\ at[k + 1] \in p .. p + L
      BY <3>1, <1>2
    <3>4. /\ turns[k + 1] <= BlockSize - offsetInBlock(at[(k + 1) - 1])
          /\ at[k + 1] = at[(k + 1) - 1] + turns[k + 1]
      BY <3>1, <1>2
    <3>5. QED
      BY <3>1, <3>2, <3>3, <3>4
  <2> HIDE DEF t, m
  <2>5. CASE ~t.ok
    <3>1. f[k + 1] = t
      BY <2>3, <2>5 DEF readStep
    <3>2. QED
      BY <3>1, <2>2, <2>5
  <2>6. CASE t.ok
    <3> DEFINE u == readTurn(t, m)
    <3>1. f[k + 1] = u
      BY <2>3, <2>6 DEF readStep
    <3>2. t.file.fileSize_ = s.file.fileSize_ /\ t.file.curPosition_ = at[k]
      BY <2>2, <2>6, <1>5 DEF Moved, IsFile, FileFields
    <3>3. t.file.curPosition_ + m <= t.file.fileSize_
      BY <3>2, <2>4, <1>5
    <3>4. m <= BlockSize - offsetInBlock(t.file.curPosition_)
      BY <3>2, <2>4
    <3>5. /\ Sound(u, q) /\ Quiet(t, u) /\ Moved(t.file, u.file)
          /\ FileOK(u.file, q[n], u.vol)
          /\ u.ok => u.file.curPosition_ = t.file.curPosition_ + m
      <4>1. Sound(t, q) /\ FileOK(t.file, q[n], t.vol)
        BY <2>2
      <4>2. QED
        BY <4>1, <3>3, <3>4, <2>4, <2>6, TurnRead
    <3> HIDE DEF u
    <3>6. Moved(s.file, u.file)
      BY <3>5, <2>2, <1>5, MovedTrans
    <3>7. Quiet(s, u)
      BY <3>5, <2>2 DEF Quiet
    <3>8. QED
      BY <3>1, <3>2, <3>5, <3>6, <3>7, <2>4
  <2>7. QED
    BY <2>5, <2>6
<1> HIDE DEF S, Held
<1>8. Nat \subseteq S
  BY <1>6, <1>7, SetInduction
<1>9. Held(f[K], K)
  BY <1>1, <1>8 DEF S
<1>10. QED
  BY <1>3, <1>9 DEF Held

\* read() moves the file along its chain, and nothing else.
LEMMA ReadIs ==
    ASSUME NEW s, NEW q, Sound(s, q), s.ok, NEW n \in Name,
           FileOK(s.file, q[n], s.vol), s.file.curPosition_ <= s.file.fileSize_,
           NEW nbyte \in Nat
    PROVE  LET t == read(s, nbyte)
           IN  /\ Sound(t, q) /\ Quiet(s, t) /\ Moved(s.file, t.file)
               /\ FileOK(t.file, q[n], t.vol)
<1> DEFINE p == s.file.curPosition_
           L == Least(nbyte, s.file.fileSize_ - p)
           turns == Pieces(p, L)
<1>1. p \in Nat /\ s.file.fileSize_ \in Nat
  BY DEF FileOK, BeginsAt
<1>2. L \in Nat /\ p + L <= s.file.fileSize_
  BY <1>1 DEF Least
<1> HIDE DEF L
<1>3. Fits(turns, p, L)
  BY <1>1, <1>2, PiecesFit
<1> HIDE DEF turns
<1> DEFINE t == readTurns(s, turns)
<1>4. /\ Sound(t, q) /\ Quiet(s, t) /\ Moved(s.file, t.file)
      /\ FileOK(t.file, q[n], t.vol)
  BY <1>2, <1>3, TurnsRead
<1>5. read(s, nbyte) = t
  BY DEF read, turns, L
<1>6. QED
  BY <1>4, <1>5

----------------------------------------------------------------------------
(* Opening *)

\* First is one of the set.
LEMMA FirstIs ==
    ASSUME NEW S, S \subseteq Nat, S # {}
    PROVE  First(S) \in S
<1> DEFINE R == OpToRel(<, Nat)
<1>1. IsWellFoundedOn(R, Nat)
  BY NatLessThanWellFounded
<1>2. PICK x \in S : \A y \in S : ~(<<y, x>> \in R)
  <2> HIDE DEF R
  <2>1. QED
    BY <1>1, WFMin
<1>3. \A y \in S : x <= y
  <2>1. SUFFICES ASSUME NEW y \in S, y < x PROVE FALSE
    OBVIOUS
  <2>2. <<y, x>> \in Nat \X Nat /\ <<y, x>>[1] < <<y, x>>[2]
    BY <2>1
  <2>3. <<y, x>> \in R
    BY <2>2 DEF OpToRel
  <2>4. QED
    BY <2>3, <1>2
<1> HIDE DEF R
<1>4. \E i \in S : \A j \in S : i <= j
  BY <1>3
<1>5. QED
  BY <1>4 DEF First

\* A file just opened stands at its beginning.
LEMMA OpenedIs ==
    ASSUME NEW i, NEW e, NEW w
    PROVE  LET f == Opened(i, e, w)
           IN  /\ IsFile(f) /\ f.dirIndex_ = i /\ f.writable = w /\ f.dirDirty = FALSE
               /\ f.firstCluster_ = e.firstCluster /\ f.fileSize_ = e.fileSize
               /\ f.curCluster_ = 0 /\ f.curPosition_ = 0 /\ f.writeError = FALSE
  BY DEF Opened, IsFile, FileFields

\* An entry is created: the directory is written, the file opened.
LEMMA NewEntryIs ==
    ASSUME NEW s, NEW q, Sound(s, q), s.ok, ~Stuck(s.vol),
           s.vol.cacheBlockNumber_ = rootDirStart_,
           NEW i \in 1 .. DirSlots, NEW n, NEW w
    PROVE  LET t == newEntry(s, i, n, w)
           IN  /\ Sound(t, q) /\ t.ok /\ ~Stuck(t.vol)
               /\ DirTo(s, t, [Dir(Seen(s.vol)) EXCEPT ![i] = [NoEntry EXCEPT !.name = n]])
               /\ t.file = Opened(i, NoEntry, w)
<1> DEFINE e == [NoEntry EXCEPT !.name = n]
           v == s.vol
           x == [v.cacheBuffer_ EXCEPT ![i] = e]
           y == [v EXCEPT !.cacheBuffer_ = x, !.cacheDirty_ = TRUE]
           a == [s EXCEPT !.vol.cacheBuffer_[i] = e, !.vol.cacheDirty_ = TRUE]
           u == cacheFlush(a)
           f == Opened(i, NoEntry, w)
           t == newEntry(s, i, n, w)
<1>1. IsCall(s) /\ IsVolume(v)
  BY DEF Sound, IsCall
<1>2. IsEntry(e)
  BY DEF IsEntry, EntryFields, NoEntry
<1>3. t = IF u.ok THEN [u EXCEPT !.file = f] ELSE u
  BY DEF newEntry, Then
<1> HIDE DEF e, u, t, f
<1>4. a = [s EXCEPT !.vol = y]
  <2>1. [v EXCEPT !.cacheBuffer_[i] = e, !.cacheDirty_ = TRUE] = y
    BY <1>1 DEF IsVolume, VolumeFields
  <2> HIDE DEF y, x
  <2>2. QED
    BY <2>1, <1>1 DEF IsCall, CallFields
<1> HIDE DEF x
<1>5. /\ IsVolume(y) /\ y.card = v.card /\ y.cacheBlockNumber_ = v.cacheBlockNumber_
      /\ y.cacheBuffer_ = x /\ y.cacheDirty_ = TRUE
      /\ y.cacheMirrorBlock_ = v.cacheMirrorBlock_
      /\ y.allocSearchStart_ = v.allocSearchStart_
  BY <1>1 DEF IsVolume, VolumeFields
<1> HIDE DEF a, y
<1>6. IsCall(a) /\ a.vol = y /\ a.ok
  BY <1>1, <1>4, <1>5 DEF IsCall, CallFields
<1>7. /\ Sound(a, q) /\ ~Stuck(a.vol)
      /\ DirTo(s, a, [Dir(Seen(s.vol)) EXCEPT ![i] = e])
  <2>1. /\ a.vol.card = s.vol.card
        /\ a.vol.cacheBlockNumber_ = s.vol.cacheBlockNumber_
        /\ a.vol.cacheBuffer_ = [s.vol.cacheBuffer_ EXCEPT ![i] = e]
        /\ a.vol.cacheDirty_ = TRUE
        /\ a.vol.cacheMirrorBlock_ = s.vol.cacheMirrorBlock_
        /\ a.vol.allocSearchStart_ = s.vol.allocSearchStart_
    BY <1>5, <1>6 DEF x
  <2> HIDE DEF v
  <2>2. QED
    BY <2>1, <1>2, <1>6, DirStoreIs
<1>8. /\ Sound(u, q) /\ Idle(a, u) /\ u.ok = ~Stuck(a.vol)
  BY <1>6, <1>7, FlushSound DEF u
<1> DEFINE z == [u EXCEPT !.file = f]
<1>9. IsFile(f)
  BY OpenedIs DEF f
<1>10. Sound(z, q) /\ z.file = f /\ z.ok = u.ok /\ z.vol = u.vol
  BY <1>8, <1>9, FileSet
<1>11. t = z
  BY <1>3, <1>7, <1>8
<1> HIDE DEF z
<1>12. DirTo(s, z, [Dir(Seen(s.vol)) EXCEPT ![i] = e])
  BY <1>7, <1>8, <1>10 DEF DirTo, Idle
<1>13. QED
  BY <1>7, <1>8, <1>10, <1>11, <1>12 DEF Idle, t, e, f

\* What open() leaves: the file of an entry it has found or created.
OpenedFile(s, t, n, w, creat) ==
    LET dir == Dir(Seen(s.vol))
    IN  \/ /\ Seen(t.vol) = Seen(s.vol)
           /\ \E i \in SlotsOf(dir, n) : t.file = Opened(i, dir[i], w)
        \/ /\ creat /\ SlotsOf(dir, n) = {}
           /\ \E i \in EmptySlots(dir) :
                 /\ DirTo(s, t, [dir EXCEPT ![i] = [NoEntry EXCEPT !.name = n]])
                 /\ t.file = Opened(i, NoEntry, w)

LEMMA SlotsIs ==
    ASSUME NEW dir, NEW n
    PROVE  /\ SlotsOf(dir, n) \subseteq 1 .. DirSlots
           /\ EmptySlots(dir) \subseteq 1 .. DirSlots
           /\ SlotsOf(dir, n) \subseteq Nat /\ EmptySlots(dir) \subseteq Nat
<1>1. 1 .. DirSlots \subseteq Nat
  OBVIOUS
<1>2. QED
  BY <1>1 DEF SlotsOf, EmptySlots, Searched

\* openFile() changes the directory by the new entry at most.
LEMMA OpenFileIs ==
    ASSUME NEW s, NEW q, Sound(s, q), s.ok, NEW n, NEW w, NEW creat
    PROVE  LET t == openFile(s, n, w, creat)
           IN  /\ Sound(t, q) /\ (Stuck(t.vol) <=> Stuck(s.vol))
               /\ ~t.ok => Seen(t.vol) = Seen(s.vol)
               /\ t.ok => ~Stuck(s.vol) /\ OpenedFile(s, t, n, w, creat)
<1> DEFINE t == openFile(s, n, w, creat)
           u == cacheRawBlock(s, rootDirStart_, FALSE)
           dir == Dir(Seen(s.vol))
<1>1. /\ Sound(u, q) /\ Idle(s, u) /\ u.ok = ~Stuck(s.vol)
      /\ u.ok => /\ u.vol.cacheBlockNumber_ = rootDirStart_
                 /\ u.vol.cacheBuffer_ = Seen(s.vol)[rootDirStart_]
  BY Regions, RawClean
<1>2. t = IF u.ok THEN openIn(u, u.vol.cacheBuffer_, n, w, creat) ELSE u
  BY DEF openFile, cacheDirEntry, Then
<1> HIDE DEF u, t
<1>3. CASE ~u.ok
  BY <1>1, <1>2, <1>3 DEF Idle, t
<1>4. CASE u.ok
  <2>1. t = openIn(u, dir, n, w, creat) /\ ~Stuck(s.vol) /\ ~Stuck(u.vol)
        /\ Seen(u.vol) = Seen(s.vol)
    BY <1>1, <1>2, <1>4 DEF Dir, Idle
  <2> HIDE DEF dir
  <2>2. CASE SlotsOf(dir, n) # {}
    <3> DEFINE i == First(SlotsOf(dir, n))  f == Opened(i, dir[i], w)
               z == [u EXCEPT !.file = f]
    <3>1. i \in SlotsOf(dir, n)
      BY <2>2, SlotsIs, FirstIs
    <3>2. t = z
      BY <2>1, <2>2 DEF openIn, openEntry
    <3>3. IsFile(f)
      BY OpenedIs
    <3> HIDE DEF f
    <3>4. Sound(z, q) /\ z.file = f /\ z.ok = u.ok /\ z.vol = u.vol
      BY <1>1, <3>3, FileSet
    <3> HIDE DEF z, i
    <3>5. OpenedFile(s, z, n, w, creat)
      BY <2>1, <3>1, <3>4 DEF OpenedFile, dir, f
    <3>6. QED
      BY <2>1, <3>2, <3>4, <3>5, <1>4 DEF t
  <2>3. CASE SlotsOf(dir, n) = {} /\ (~creat \/ EmptySlots(dir) = {})
    <3> DEFINE z == Failed(u)
    <3>1. t = z
      BY <2>1, <2>3 DEF openIn
    <3>2. Sound(z, q) /\ z.ok = FALSE /\ z.vol = u.vol
      BY <1>1, FailedSound
    <3> HIDE DEF z
    <3>3. QED
      BY <2>1, <3>1, <3>2 DEF t
  <2>4. CASE SlotsOf(dir, n) = {} /\ ~(~creat \/ EmptySlots(dir) = {})
    <3> DEFINE i == First(EmptySlots(dir))  z == newEntry(u, i, n, w)
    <3>1. i \in EmptySlots(dir) /\ i \in 1 .. DirSlots
      BY <2>4, SlotsIs, FirstIs
    <3>2. t = z
      BY <2>1, <2>4 DEF openIn
    <3> HIDE DEF i
    <3>3. /\ Sound(z, q) /\ z.ok /\ ~Stuck(z.vol)
          /\ DirTo(u, z, [Dir(Seen(u.vol)) EXCEPT ![i] = [NoEntry EXCEPT !.name = n]])
          /\ z.file = Opened(i, NoEntry, w)
      BY <1>1, <1>4, <2>1, <3>1, NewEntryIs
    <3> HIDE DEF z
    <3>4. DirTo(s, z, [dir EXCEPT ![i] = [NoEntry EXCEPT !.name = n]])
      BY <2>1, <3>3 DEF DirTo, dir
    <3>5. OpenedFile(s, z, n, w, creat)
      BY <2>4, <3>1, <3>3, <3>4 DEF OpenedFile, dir
    <3>6. QED
      BY <2>1, <3>2, <3>3, <3>5 DEF t
  <2>5. QED
    BY <2>2, <2>3, <2>4
<1>5. QED
  BY <1>3, <1>4

----------------------------------------------------------------------------
(* Removing *)

\* Nothing in the directory has changed but slot i.
DirBut(s, t, i) ==
    \A k \in 1 .. DirSlots : k # i => Dir(Seen(t.vol))[k] = Dir(Seen(s.vol))[k]

\* A chain may be forgotten: its clusters stay marked, and are nobody's.
LEMMA SoundDropped ==
    ASSUME NEW s, NEW q, Sound(s, q), NEW n \in Name
    PROVE  Sound(s, [q EXCEPT ![n] = <<>>])
<1>1. Chained(Fat(Seen(s.vol)), q)
  BY DEF Sound
<1> DEFINE fat == Fat(Seen(s.vol))
<1>2. fat \in [Clusters -> Clusters \cup {FREE, EOC}]
  BY <1>1 DEF Chained
<1> HIDE DEF fat
<1>3. Chained(fat, [q EXCEPT ![n] = <<>>])
  BY <1>1, <1>2, ChainDropped DEF fat
<1>4. QED
  BY <1>3 DEF Sound, fat

\* A chain that is freed leaves every marked cluster its chain.
LEMMA CoveredFreed ==
    ASSUME NEW q \in [Name -> Seq(Clusters)], NEW n \in Name, NEW v, NEW w,
           Covered(v, q), Fat(Seen(w)) = FreedFat(Fat(Seen(v)), q, n, Len(q[n]))
    PROVE  Covered(w, [q EXCEPT ![n] = <<>>])
<1> DEFINE r == [q EXCEPT ![n] = <<>>]
<1>1. \A m \in Name : m # n => r[m] = q[m]
  OBVIOUS
<1> HIDE DEF r
<1>2. ASSUME NEW c \in Clusters, Fat(Seen(w))[c] # FREE
      PROVE  \E m \in Name : InChain(c, r[m])
  <2>1. ~InChain(c, q[n]) /\ Fat(Seen(v))[c] # FREE
    <3>1. \A i \in 1 .. Len(q[n]) : i <= Len(q[n])
      OBVIOUS
    <3>2. QED
      BY <3>1, <1>2 DEF FreedFat, InChain
  <2>2. PICK m \in Name : InChain(c, q[m])
    BY <2>1 DEF Covered
  <2>3. QED
    BY <2>1, <2>2, <1>1
<1>3. QED
  BY <1>2 DEF Covered, r

\* A change of the FAT alone leaves the directory.
LEMMA FatLeavesDir ==
    ASSUME NEW x, NEW y, SameRest(x, y) PROVE Dir(y) = Dir(x)
  BY Regions DEF SameRest, Dir

\* truncate(0) frees the chain of the file and writes its entry; where the size
\* is 0 it does neither, and a chain there is forgotten.
LEMMA TruncateIs ==
    ASSUME NEW s, NEW q, Sound(s, q), s.ok, ~Stuck(s.vol), NEW n \in Name,
           FileOK(s.file, q[n], s.vol), s.file.writable
    PROVE  LET t == truncate(s)
           IN  /\ Sound(t, [q EXCEPT ![n] = <<>>]) /\ t.ok /\ ~Stuck(t.vol)
               /\ t.file.dirIndex_ = s.file.dirIndex_
               /\ DirBut(s, t, s.file.dirIndex_)
               /\ Covered(s.vol, q) /\ (s.file.fileSize_ = 0 => q[n] = <<>>) =>
                     Covered(t.vol, [q EXCEPT ![n] = <<>>])
<1> DEFINE t == truncate(s)  f == s.file  q0 == [q EXCEPT ![n] = <<>>]
           a == seekSet(s, 0)  b == freeChain(a, f.firstCluster_)
           h == [b.file EXCEPT !.firstCluster_ = 0, !.fileSize_ = 0, !.dirDirty = TRUE]
           c == [b EXCEPT !.file = h]
           d == sync(c)
<1>1. f.fileSize_ \in Nat /\ f.dirIndex_ \in 1 .. DirSlots /\ IsFile(f)
  BY DEF FileOK, BeginsAt
<1>2. CASE f.fileSize_ = 0
  <2>1. t = s
    BY <1>2 DEF truncate
  <2>2. Sound(s, q0)
    BY SoundDropped
  <2>3. q[n] = <<>> => q0 = q
    BY DEF Sound, Chained
  <2> HIDE DEF t, q0
  <2>4. QED
    BY <2>1, <2>2, <2>3, <1>2 DEF t, q0, DirBut
<1>3. CASE f.fileSize_ # 0
  <2>1. q[n] # <<>> /\ f.firstCluster_ = q[n][1]
    BY <1>3 DEF FileOK, BeginsAt
  <2>2. t = IF b.ok
              THEN sync([b EXCEPT !.file.firstCluster_ = 0, !.file.fileSize_ = 0,
                                  !.file.dirDirty = TRUE])
              ELSE b
    BY <1>3 DEF truncate, Then
  <2> HIDE DEF a, b, t
  <2>3. /\ Sound(a, q) /\ a.ok /\ a.vol = s.vol /\ IsFile(a.file)
        /\ a.file.dirIndex_ = f.dirIndex_
    <3> DEFINE z == seekSet(s, 0)
    <3>1. /\ Sound(z, q)
          /\ z.file = [s.file EXCEPT !.curCluster_ = z.file.curCluster_,
                                     !.curPosition_ = z.file.curPosition_]
          /\ z.ok /\ z.vol = s.vol
      <4>1. 0 \in Nat /\ 0 <= s.file.fileSize_
        BY <1>1
      <4>2. QED
        BY <4>1, SeekIs
    <3>2. a = z
      BY DEF a
    <3> HIDE DEF z
    <3>3. z.file.dirIndex_ = f.dirIndex_
      BY <3>1, <1>1 DEF IsFile, FileFields
    <3>4. QED
      BY <3>1, <3>2, <3>3 DEF Sound, IsCall
  <2>4. /\ b.ok /\ Sound(b, q0) /\ b.file = a.file /\ ~Stuck(b.vol)
        /\ SameRest(Seen(s.vol), Seen(b.vol))
        /\ Fat(Seen(b.vol)) = FreedFat(Fat(Seen(s.vol)), q, n, Len(q[n]))
    <3> DEFINE z == freeChain(a, q[n][1])
    <3>1. /\ z.ok = ~Stuck(a.vol)
          /\ z.ok => /\ Sound(z, [q EXCEPT ![n] = <<>>])
                     /\ z.file = a.file /\ ~Stuck(z.vol)
                     /\ SameRest(Seen(a.vol), Seen(z.vol))
                     /\ Fat(Seen(z.vol)) = FreedFat(Fat(Seen(a.vol)), q, n, Len(q[n]))
      BY <2>1, <2>3, FreeChainIs
    <3>2. b = z
      BY <2>1 DEF b
    <3> HIDE DEF z
    <3>3. QED
      BY <3>1, <3>2, <2>3
  <2>5. /\ IsFile(h) /\ h.dirIndex_ = f.dirIndex_ /\ h.dirDirty = TRUE
    BY <2>3, <2>4 DEF IsFile, FileFields
  <2>6. t = d
    <3>1. [b EXCEPT !.file.firstCluster_ = 0, !.file.fileSize_ = 0, !.file.dirDirty = TRUE] = c
      BY <2>4 DEF Sound, IsCall, CallFields
    <3> HIDE DEF c
    <3>2. QED
      BY <3>1, <2>2, <2>4
  <2> HIDE DEF h, q0
  <2>7. Sound(c, q0) /\ c.file = h /\ c.ok = b.ok /\ c.vol = b.vol
    BY <2>4, <2>5, FileSet
  <2> HIDE DEF c
  <2>8. /\ d.ok = ~Stuck(c.vol) /\ Sound(d, q0) /\ (Stuck(d.vol) <=> Stuck(c.vol))
        /\ d.ok => /\ d.file = [c.file EXCEPT !.dirDirty = FALSE]
                   /\ DirTo(c, d, IF c.file.dirDirty
                                   THEN [Dir(Seen(c.vol)) EXCEPT ![c.file.dirIndex_] =
                                            EntryOf(Dir(Seen(c.vol))[c.file.dirIndex_], c.file)]
                                   ELSE Dir(Seen(c.vol)))
    <3>1. /\ c.ok /\ c.file.dirIndex_ \in 1 .. DirSlots /\ c.file.dirDirty \in BOOLEAN
      BY <2>4, <2>5, <2>7, <1>1
    <3>2. QED
      BY <3>1, <2>7, SyncIs
  <2> HIDE DEF d
  <2>9. d.file.dirIndex_ = f.dirIndex_
    BY <2>4, <2>5, <2>7, <2>8 DEF IsFile, FileFields
  <2>10. DirBut(s, d, f.dirIndex_)
    <3>1. Dir(Seen(c.vol)) = Dir(Seen(s.vol))
      BY <2>4, <2>7, FatLeavesDir
    <3>2. Dir(Seen(d.vol)) = [Dir(Seen(c.vol)) EXCEPT ![f.dirIndex_] =
                                  EntryOf(Dir(Seen(c.vol))[f.dirIndex_], c.file)]
      BY <2>4, <2>5, <2>7, <2>8 DEF DirTo
    <3>3. QED
      BY <3>1, <3>2 DEF DirBut
  <2>11. Covered(s.vol, q) => Covered(d.vol, q0)
    <3>1. q \in [Name -> Seq(Clusters)]
      BY DEF Sound, Chained
    <3>2. Covered(s.vol, q) => Covered(b.vol, q0)
      BY <3>1, <2>4, CoveredFreed DEF q0
    <3>3. Fat(Seen(d.vol)) = Fat(Seen(c.vol))
      BY <2>4, <2>7, <2>8, DirLeavesFat
    <3>4. QED
      BY <3>2, <3>3, <2>7 DEF Covered
  <2>12. QED
    BY <2>4, <2>6, <2>7, <2>8, <2>9, <2>10, <2>11 DEF q0, t
<1>4. QED
  BY <1>2, <1>3

\* remove() truncates the file and marks its entry as deleted.
LEMMA RemoveFileIs ==
    ASSUME NEW s, NEW q, Sound(s, q), s.ok, ~Stuck(s.vol), NEW n \in Name,
           FileOK(s.file, q[n], s.vol), s.file.writable
    PROVE  LET t == removeFile(s)  i == s.file.dirIndex_
           IN  /\ Sound(t, [q EXCEPT ![n] = <<>>]) /\ t.ok /\ ~Stuck(t.vol)
               /\ DirBut(s, t, i) /\ Dir(Seen(t.vol))[i].name = NameDeleted
               /\ Covered(s.vol, q) /\ (s.file.fileSize_ = 0 => q[n] = <<>>) =>
                     Covered(t.vol, [q EXCEPT ![n] = <<>>])
<1> DEFINE t == removeFile(s)  i == s.file.dirIndex_  q0 == [q EXCEPT ![n] = <<>>]
           a == truncate(s)  b == cacheRawBlock(a, rootDirStart_, TRUE)
           e == [b.vol.cacheBuffer_[i] EXCEPT !.name = NameDeleted]
           x == [b.vol.cacheBuffer_ EXCEPT ![i] = e]
           y == [b.vol EXCEPT !.cacheBuffer_ = x]
           c == [b EXCEPT !.vol = y]
           d == cacheFlush(c)
<1>1. i \in 1 .. DirSlots
  BY DEF FileOK
<1> HIDE DEF i, q0
<1>2. /\ Sound(a, q0) /\ a.ok /\ ~Stuck(a.vol)
      /\ a.file.dirIndex_ = i /\ DirBut(s, a, i)
      /\ Covered(s.vol, q) /\ (s.file.fileSize_ = 0 => q[n] = <<>>) => Covered(a.vol, q0)
  BY TruncateIs DEF i, q0
<1> HIDE DEF a
<1>3. /\ Sound(b, q0) /\ Idle(a, b) /\ b.ok
      /\ b.vol.cacheBlockNumber_ = rootDirStart_
      /\ b.vol.cacheBuffer_ = Seen(a.vol)[rootDirStart_]
      /\ b.vol.cacheDirty_
  <2>1. /\ Sound(b, q0) /\ Idle(a, b) /\ b.ok = ~Stuck(a.vol)
        /\ b.ok => /\ b.vol.cacheBlockNumber_ = rootDirStart_
                   /\ b.vol.cacheBuffer_ = Seen(a.vol)[rootDirStart_]
                   /\ TRUE => b.vol.cacheDirty_
    <3>1. rootDirStart_ \in SeenBlocks /\ rootDirStart_ \notin FatBlocks /\ TRUE \in BOOLEAN
      BY Regions
    <3> DEFINE z == cacheRawBlock(a, rootDirStart_, TRUE)
    <3>2. /\ Sound(z, q0) /\ Idle(a, z) /\ z.ok = ~Stuck(a.vol)
          /\ z.ok => /\ z.vol.cacheBlockNumber_ = rootDirStart_
                     /\ z.vol.cacheBuffer_ = Seen(a.vol)[rootDirStart_]
                     /\ TRUE => z.vol.cacheDirty_
      <4> HIDE DEF x, y, c, d, e, t
      <4>1. QED
        BY <1>2, <3>1, RawDirty
    <3> HIDE DEF z
    <3>3. b = z
      BY DEF z
    <3> HIDE DEF b
    <3>4. QED
      BY <3>2, <3>3
  <2> HIDE DEF b, x, y, c, d, e, t
  <2>2. b.ok
    BY <2>1, <1>2
  <2>3. QED
    BY <2>1, <2>2
<1>4. /\ IsCall(b) /\ IsVolume(b.vol) /\ b.file.dirIndex_ = i
      /\ b.vol.cacheDirty_ = TRUE
  BY <1>2, <1>3 DEF Sound, IsCall, Idle, CacheOK
<1>5. t = cacheFlush([b EXCEPT !.vol.cacheBuffer_[i].name = NameDeleted])
  <2> DEFINE u == IF a.ok THEN b ELSE a
  <2>1. t = IF u.ok THEN cacheFlush([u EXCEPT !.vol.cacheBuffer_[u.file.dirIndex_].name = NameDeleted])
            ELSE u
    BY DEF removeFile, cacheDirEntry, Then, a
  <2> HIDE DEF b, t
  <2>2. QED
    BY <2>1, <1>2, <1>3, <1>4
<1> HIDE DEF b, t
<1>6. [b EXCEPT !.vol.cacheBuffer_[i].name = NameDeleted] = c
  <2>1. [b.vol EXCEPT !.cacheBuffer_[i].name = NameDeleted] = y
    BY <1>4 DEF IsVolume, VolumeFields
  <2> HIDE DEF y
  <2>2. QED
    BY <2>1, <1>4 DEF IsCall, CallFields
<1>7. IsEntry(e)
  <2>1. WellFormed(Seen(a.vol))
    BY <1>2 DEF Sound
  <2>2. IsEntry(b.vol.cacheBuffer_[i])
    BY <2>1, <1>1, <1>3 DEF WellFormed
  <2>3. QED
    BY <2>2 DEF IsEntry, EntryFields
<1>8. e.name = NameDeleted
  <2>1. IsEntry(b.vol.cacheBuffer_[i])
    <3>1. WellFormed(Seen(a.vol))
      BY <1>2 DEF Sound
    <3>2. QED
      BY <3>1, <1>1, <1>3 DEF WellFormed
  <2>2. QED
    BY <2>1 DEF IsEntry, EntryFields
<1> HIDE DEF e, x
<1>9. /\ IsVolume(y) /\ y.card = b.vol.card /\ y.cacheBlockNumber_ = b.vol.cacheBlockNumber_
      /\ y.cacheBuffer_ = x /\ y.cacheDirty_ = b.vol.cacheDirty_
      /\ y.cacheMirrorBlock_ = b.vol.cacheMirrorBlock_
      /\ y.allocSearchStart_ = b.vol.allocSearchStart_
  BY <1>4 DEF IsVolume, VolumeFields
<1> HIDE DEF y
<1>10. IsCall(c) /\ c.vol = y /\ c.ok
  BY <1>3, <1>4, <1>9 DEF IsCall, CallFields
<1> HIDE DEF c
<1>11. /\ Sound(c, q0) /\ ~Stuck(c.vol)
       /\ DirTo(b, c, [Dir(Seen(b.vol)) EXCEPT ![i] = e])
  <2>1. /\ c.vol.card = b.vol.card
        /\ c.vol.cacheBlockNumber_ = b.vol.cacheBlockNumber_
        /\ c.vol.cacheBuffer_ = [b.vol.cacheBuffer_ EXCEPT ![i] = e]
        /\ c.vol.cacheDirty_ = TRUE
        /\ c.vol.cacheMirrorBlock_ = b.vol.cacheMirrorBlock_
        /\ c.vol.allocSearchStart_ = b.vol.allocSearchStart_
    BY <1>4, <1>9, <1>10 DEF x
  <2>2. QED
    BY <2>1, <1>1, <1>3, <1>7, <1>10, DirStoreIs
<1>12. /\ Sound(d, q0) /\ Idle(c, d) /\ d.ok = ~Stuck(c.vol)
  BY <1>10, <1>11, FlushSound
<1>13. t = d
  BY <1>5, <1>6
<1> HIDE DEF d
<1>14. Dir(Seen(d.vol)) = [Dir(Seen(a.vol)) EXCEPT ![i] = e]
  BY <1>3, <1>11, <1>12 DEF DirTo, Idle
<1>15. DOMAIN Dir(Seen(a.vol)) = 1 .. DirSlots
  <2>1. WellFormed(Seen(a.vol))
    BY <1>2 DEF Sound
  <2>2. QED
    BY <2>1 DEF WellFormed, Dir
<1>16. Dir(Seen(d.vol))[i].name = NameDeleted /\ DirBut(s, d, i)
  BY <1>1, <1>2, <1>8, <1>14, <1>15 DEF DirBut
<1>17. Covered(a.vol, q0) => Covered(d.vol, q0)
  <2>1. Fat(Seen(c.vol)) = Fat(Seen(b.vol))
    BY <1>11, DirLeavesFat
  <2>2. QED
    BY <2>1, <1>3, <1>12 DEF Idle, Covered
<1>18. QED
  BY <1>2, <1>11, <1>12, <1>13, <1>16, <1>17 DEF Idle, t, i, q0
=============================================================================
