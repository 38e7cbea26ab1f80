--------------------------- MODULE SdCard_proofs ---------------------------
(***************************************************************************)
(* Theorems about SdCard: with one writer for a file and no removal of an  *)
(* open one, every call keeps the FAT, the directory and the open files in *)
(* agreement about chains of clusters that have none in common, until the  *)
(* power is lost.                                                          *)
(***************************************************************************)
EXTENDS SdFile_proofs

USE VolumeAssumption DEF VolumeAssumption

----------------------------------------------------------------------------
(* The card *)

\* The volume, with the chains q.
VolOK(v, q) ==
    /\ CacheOK(v) /\ WellFormed(Seen(v))
    /\ v.allocSearchStart_ \in 2 .. clusterCount_ + 2
    /\ Chained(Fat(Seen(v)), q)

\* The directory: what names it has, and where their chains begin.
DirOK(dir, q) ==
    /\ \A i, j \in 1 .. DirSlots :
          dir[i].name \in Name /\ dir[i].name = dir[j].name => i = j
    /\ \A i, j \in 1 .. DirSlots :
          i < j /\ dir[i].name = NameFree => dir[j].name = NameFree
    /\ \A i \in 1 .. DirSlots : dir[i].name \in Name =>
          BeginsAt(dir[i].firstCluster, dir[i].fileSize, q[dir[i].name])
    /\ \A n \in Name : q[n] # <<>> => \E i \in 1 .. DirSlots : dir[i].name = n

\* What a handle holds.
One(f, n)  == {[file |-> f, name |-> n]}
TheFile(x) == (CHOOSE o \in x : TRUE).file
TheName(x) == (CHOOSE o \in x : TRUE).name

\* The directory entry of a file that has nothing to write to it.
Agrees(e, f) ==
    f.writable /\ ~f.dirDirty =>
        e.firstCluster = f.firstCluster_ /\ e.fileSize = f.fileSize_

OpenedOK(f, n, v, q) ==
    /\ n \in Name /\ FileOK(f, q[n], v)
    /\ Dir(Seen(v))[f.dirIndex_].name = n
    /\ Agrees(Dir(Seen(v))[f.dirIndex_], f)

\* h is open, to write under name n; for any name.
Writes(open, h, n) ==
    open[h] # Closed /\ TheName(open[h]) = n /\ TheFile(open[h]).writable
NoWriter(open, H, n) == \A h \in H : ~Writes(open, h, n)

OpenOK(open, H, v, q) ==
    /\ open = [h \in H |-> open[h]]
    /\ \A h \in H : open[h] # Closed =>
          /\ open[h] = One(TheFile(open[h]), TheName(open[h]))
          /\ OpenedOK(TheFile(open[h]), TheName(open[h]), v, q)
    /\ \A n \in Name : \A g, h \in H : Writes(open, g, n) /\ Writes(open, h, n) => g = h
    /\ ~Stuck(v) => \A i \in 1 .. DirSlots :
          LET e == Dir(Seen(v))[i]
          IN  e.name \in Name /\ e.firstCluster = 0 /\ NoWriter(open, H, e.name)
                => q[e.name] = <<>>

\* A file of no bytes has no chain.
Filled(open, H, v, q) ==
    /\ \A h \in H : /\ open[h] # Closed /\ TheFile(open[h]).writable
                    /\ TheFile(open[h]).fileSize_ = 0
          => q[TheName(open[h])] = <<>>
    /\ \A i \in 1 .. DirSlots :
          LET e == Dir(Seen(v))[i]
          IN  e.name \in Name /\ e.fileSize = 0 /\ NoWriter(open, H, e.name)
                => q[e.name] = <<>>
Fine(open, H, v, q) ==
    Covered(v, q) /\ (~Stuck(v) => Filled(open, H, v, q))

\* The card is in order; fits says that all that was written has fitted on it,
\* and then no cluster is lost either.
CardOK(open, H, v, q, fits) ==
    /\ VolOK(v, q) /\ DirOK(Dir(Seen(v)), q) /\ OpenOK(open, H, v, q)
    /\ fits => Fine(open, H, v, q)

LEMMA OneIs ==
    ASSUME NEW f, NEW n
    PROVE  One(f, n) # Closed /\ TheFile(One(f, n)) = f /\ TheName(One(f, n)) = n
<1> DEFINE o == [file |-> f, name |-> n]
<1>1. (CHOOSE x \in One(f, n) : TRUE) = o
  BY DEF One
<1>2. QED
  BY <1>1 DEF TheFile, TheName, One, Closed

\* A call begins and ends with a volume in order.
LEMMA SoundIsVol ==
    ASSUME NEW s, NEW q, Sound(s, q) PROVE VolOK(s.vol, q)
  BY DEF Sound, VolOK

LEMMA CallSound ==
    ASSUME NEW v, NEW q, VolOK(v, q), NEW f, IsFile(f)
    PROVE  LET s == Call(v, f)
           IN  Sound(s, q) /\ s.ok /\ s.vol = v /\ s.file = f
<1> DEFINE s == Call(v, f)
<1>1. IsCall(s) /\ s.vol = v /\ s.file = f /\ s.ok
  BY DEF Call, IsCall, CallFields, VolOK, CacheOK
<1> HIDE DEF s
<1>2. QED
  BY <1>1 DEF Sound, VolOK, s

\* A longer chain begins where it did.
LEMMA BeginsGrows ==
    ASSUME NEW first, NEW size, NEW g, NEW h, BeginsAt(first, size, g), Extends(g, h)
    PROVE  BeginsAt(first, size, h)
<1>1. Len(g) \in Nat /\ Len(h) \in Nat /\ Len(g) <= Len(h)
  BY DEF Extends
<1>2. Len(g) * ClusterBytes <= Len(h) * ClusterBytes
      /\ Len(g) * ClusterBytes \in Nat /\ Len(h) * ClusterBytes \in Nat
  BY <1>1, Multiples
<1>3. g # <<>> => h # <<>> /\ h[1] = g[1]
  <2>1. g # <<>> => Len(g) > 0
    BY DEF Extends
  <2>2. g # <<>> => 1 \in 1 .. Len(g) /\ Len(h) > 0
    BY <2>1, <1>1
  <2>3. QED
    BY <2>2 DEF Extends
<1> DEFINE a == Len(g) * ClusterBytes  b == Len(h) * ClusterBytes
<1>4. size \in Nat /\ size <= a /\ (first = 0 => size = 0)
      /\ (first = 0 \/ (g # <<>> /\ first = g[1]))
  BY DEF BeginsAt
<1>5. a \in Nat /\ b \in Nat /\ a <= b
  BY <1>2
<1> HIDE DEF a, b
<1>6. size <= b
  BY <1>4, <1>5
<1>7. QED
  BY <1>3, <1>4, <1>6 DEF BeginsAt, b

\* The file of an open handle has changed, its chain has got longer, or its
\* entry in the directory is brought up to date.
LEMMA HandleStep ==
    ASSUME NEW open, NEW H, NEW v, NEW q, NEW fits, CardOK(open, H, v, q, fits),
           NEW h \in H, NEW n, NEW f, open[h] = One(f, n),
           NEW w, NEW r, NEW f2, VolOK(w, r), Grown(q, r, n), FileOK(f2, r[n], w),
           Stuck(v) => Stuck(w),
           f2.dirIndex_ = f.dirIndex_, f2.writable = f.writable,
           ~f.writable => r = q /\ Dir(Seen(w)) = Dir(Seen(v)),
           Dir(Seen(w))[f.dirIndex_].name = n,
           BeginsAt(Dir(Seen(w))[f.dirIndex_].firstCluster,
                    Dir(Seen(w))[f.dirIndex_].fileSize, r[n]),
           \A k \in 1 .. DirSlots : k # f.dirIndex_ => Dir(Seen(w))[k] = Dir(Seen(v))[k],
           Agrees(Dir(Seen(w))[f.dirIndex_], f2),
           fits => Covered(w, r),
           fits /\ ~Stuck(w) /\ f2.writable /\ f2.fileSize_ = 0 => r[n] = <<>>
    PROVE  CardOK([open EXCEPT ![h] = One(f2, n)], H, w, r, fits)
<1> DEFINE dir == Dir(Seen(v))  dir2 == Dir(Seen(w))  i == f.dirIndex_
           open2 == [open EXCEPT ![h] = One(f2, n)]
<1>1. open[h] # Closed /\ TheFile(open[h]) = f /\ TheName(open[h]) = n
  BY OneIs
<1>2. /\ n \in Name /\ FileOK(f, q[n], v) /\ dir[i].name = n /\ i \in 1 .. DirSlots
      /\ open = [g \in H |-> open[g]]
  BY <1>1 DEF CardOK, OpenOK, OpenedOK, FileOK
<1>3. \A m \in Name : Extends(q[m], r[m]) /\ (m # n => r[m] = q[m])
  BY <1>2 DEF Grown, Extends
<1>4. \A k \in 1 .. DirSlots : dir2[k].name = dir[k].name
  BY <1>2
<1>5. DirOK(dir2, r)
  <2>1. ASSUME NEW k \in 1 .. DirSlots, dir2[k].name \in Name
        PROVE  BeginsAt(dir2[k].firstCluster, dir2[k].fileSize, r[dir2[k].name])
    <3>1. CASE k = i
      BY <3>1
    <3>2. CASE k # i
      <4>1. dir2[k] = dir[k]
        BY <3>2
      <4> DEFINE e == dir[k]  m == e.name
      <4>2. BeginsAt(e.firstCluster, e.fileSize, q[m]) /\ Extends(q[m], r[m])
        BY <2>1, <4>1, <1>3 DEF CardOK, DirOK
      <4> HIDE DEF m, e
      <4>3. BeginsAt(e.firstCluster, e.fileSize, r[m])
        BY <4>2, BeginsGrows
      <4>4. QED
        BY <4>1, <4>3 DEF e, m
    <3>3. QED
      BY <3>1, <3>2
  <2>2. \A m \in Name : r[m] # <<>> => \E k \in 1 .. DirSlots : dir2[k].name = m
    <3>1. \A m \in Name : m # n /\ r[m] # <<>> => \E k \in 1 .. DirSlots : dir2[k].name = m
      BY <1>3, <1>4 DEF CardOK, DirOK
    <3>2. QED
      BY <3>1, <1>2, <1>4
  <2>3. /\ \A k, j \in 1 .. DirSlots :
              dir2[k].name \in Name /\ dir2[k].name = dir2[j].name => k = j
        /\ \A k, j \in 1 .. DirSlots :
              k < j /\ dir2[k].name = NameFree => dir2[j].name = NameFree
    BY <1>4 DEF CardOK, DirOK
  <2> HIDE DEF dir2
  <2>4. QED
    BY <2>1, <2>2, <2>3 DEF DirOK
<1>6. /\ open2 = [g \in H |-> open2[g]]
      /\ open2[h] = One(f2, n) /\ open2[h] # Closed
      /\ TheFile(open2[h]) = f2 /\ TheName(open2[h]) = n
      /\ \A g \in H : g # h => open2[g] = open[g]
  BY <1>2, OneIs
<1> HIDE DEF open2
<1>7. \A g \in H : \A m : Writes(open2, g, m) <=> Writes(open, g, m)
  BY <1>1, <1>6 DEF Writes
<1>8. ASSUME NEW g \in H, open2[g] # Closed
      PROVE  /\ open2[g] = One(TheFile(open2[g]), TheName(open2[g]))
             /\ OpenedOK(TheFile(open2[g]), TheName(open2[g]), w, r)
  <2>1. CASE g = h
    BY <2>1, <1>2, <1>6 DEF OpenedOK
  <2>2. CASE g # h
    <3> DEFINE x == TheFile(open[g])  m == TheName(open[g])
    <3>1. open2[g] = open[g] /\ open[g] # Closed
      BY <2>2, <1>6, <1>8
    <3>2. open[g] = One(x, m) /\ OpenedOK(x, m, v, q)
      BY <3>1 DEF CardOK, OpenOK
    <3>3. m \in Name /\ FileOK(x, q[m], v) /\ x.dirIndex_ \in 1 .. DirSlots
          /\ dir[x.dirIndex_].name = m /\ Agrees(dir[x.dirIndex_], x)
      BY <3>2 DEF OpenedOK, FileOK
    <3>4. x.writable => r[m] = q[m] /\ dir2[x.dirIndex_] = dir[x.dirIndex_]
      <4>1. CASE m = n /\ x.writable
        <5>1. Writes(open, g, m)
          BY <3>1, <4>1 DEF Writes
        <5>2. Writes(open, h, m) => g = h
          BY <5>1, <3>3 DEF CardOK, OpenOK
        <5>3. ~f.writable
          BY <5>2, <2>2, <1>1, <4>1 DEF Writes
        <5>4. QED
          BY <5>3
      <4>2. CASE m # n
        <5>1. r[m] = q[m]
          BY <4>2, <3>3, <1>3
        <5>2. x.dirIndex_ # i
          BY <4>2, <3>3, <1>2
        <5>3. QED
          BY <5>1, <5>2, <3>3
      <4>3. QED
        BY <4>1, <4>2
    <3> HIDE DEF x, m, dir, dir2
    <3>5. FileOK(x, r[m], w)
      <4>1. Extends(q[m], r[m]) /\ (~x.writable \/ r[m] = q[m])
        BY <1>3, <3>3, <3>4
      <4>2. QED
        BY <4>1, <3>3, FileGrows
    <3>6. dir2[x.dirIndex_].name = m /\ Agrees(dir2[x.dirIndex_], x)
      BY <1>4, <3>3, <3>4 DEF Agrees
    <3>7. QED
      BY <3>1, <3>2, <3>3, <3>5, <3>6 DEF OpenedOK, x, m, dir2
  <2>3. QED
    BY <2>1, <2>2
<1>9. \A m \in Name : \A g, k \in H : Writes(open2, g, m) /\ Writes(open2, k, m) => g = k
  BY <1>7 DEF CardOK, OpenOK
<1>10. ASSUME NEW k \in 1 .. DirSlots, dir2[k].name \in Name,
              NoWriter(open2, H, dir2[k].name)
       PROVE  /\ dir2[k] = dir[k] /\ r[dir2[k].name] = q[dir2[k].name]
              /\ NoWriter(open, H, dir[k].name)
  <2>1. NoWriter(open, H, dir[k].name) /\ dir[k].name = dir2[k].name
    BY <1>4, <1>7, <1>10 DEF NoWriter
  <2>2. CASE k = i
    <3>1. ~f.writable
      BY <2>1, <2>2, <1>1, <1>2 DEF NoWriter, Writes
    <3>2. QED
      BY <3>1, <2>1
  <2>3. CASE k # i
    <3>1. dir[k].name # n
      BY <2>1, <2>3, <1>2, <1>10 DEF CardOK, DirOK
    <3>2. QED
      BY <3>1, <2>1, <2>3, <1>3, <1>10
  <2>4. QED
    BY <2>2, <2>3
<1>11. ~Stuck(w) => \A k \in 1 .. DirSlots :
          dir2[k].name \in Name /\ dir2[k].firstCluster = 0
            /\ NoWriter(open2, H, dir2[k].name) => r[dir2[k].name] = <<>>
  BY <1>10 DEF CardOK, OpenOK
<1>12. OpenOK(open2, H, w, r)
  BY <1>6, <1>8, <1>9, <1>11 DEF OpenOK
<1>13. ASSUME fits, ~Stuck(w) PROVE Filled(open2, H, w, r)
  <2>1. Filled(open, H, v, q)
    BY <1>13 DEF CardOK, Fine
  <2>2. ASSUME NEW g \in H, open2[g] # Closed, TheFile(open2[g]).writable,
               TheFile(open2[g]).fileSize_ = 0
        PROVE  r[TheName(open2[g])] = <<>>
    <3>1. CASE g = h
      BY <3>1, <2>2, <1>6, <1>13
    <3>2. CASE g # h
      <4> DEFINE m == TheName(open[g])
      <4>1. open2[g] = open[g] /\ open[g] # Closed /\ TheFile(open[g]).writable
        BY <3>2, <2>2, <1>6
      <4>2. m \in Name /\ Writes(open, g, m)
        BY <4>1 DEF CardOK, OpenOK, OpenedOK, Writes
      <4>3. q[m] = <<>>
        BY <4>1, <2>1, <2>2 DEF Filled
      <4>4. r[m] = q[m]
        <5>1. CASE m = n
          <6>1. Writes(open, h, m) => g = h
            BY <4>2 DEF CardOK, OpenOK
          <6>2. ~f.writable
            BY <6>1, <5>1, <3>2, <1>1 DEF Writes
          <6>3. QED
            BY <6>2
        <5>2. CASE m # n
          BY <5>2, <4>2, <1>3
        <5>3. QED
          BY <5>1, <5>2
      <4>5. QED
        BY <4>1, <4>3, <4>4
    <3>3. QED
      BY <3>1, <3>2
  <2>3. \A k \in 1 .. DirSlots :
          dir2[k].name \in Name /\ dir2[k].fileSize = 0
            /\ NoWriter(open2, H, dir2[k].name) => r[dir2[k].name] = <<>>
    BY <2>1, <1>10 DEF Filled
  <2>4. QED
    BY <2>2, <2>3 DEF Filled
<1>14. QED
  BY <1>5, <1>12, <1>13 DEF CardOK, Fine, open2

\* Nothing has changed that the program can see.
LEMMA QuietStep ==
    ASSUME NEW open, NEW H, NEW v, NEW q, NEW fits, CardOK(open, H, v, q, fits),
           NEW w, VolOK(w, q), Dir(Seen(w)) = Dir(Seen(v)),
           Fat(Seen(w)) = Fat(Seen(v)), Stuck(w) <=> Stuck(v)
    PROVE  CardOK(open, H, w, q, fits)
<1> DEFINE dir == Dir(Seen(v))  dir2 == Dir(Seen(w))
<1>1. dir2 = dir
  OBVIOUS
<1>2. ASSUME NEW f, NEW n, OpenedOK(f, n, v, q) PROVE OpenedOK(f, n, w, q)
  <2>1. FileOK(f, q[n], v)
    BY <1>2 DEF OpenedOK
  <2>2. FileOK(f, q[n], w)
    BY <2>1 DEF FileOK
  <2>3. QED
    BY <1>2, <2>2 DEF OpenedOK
<1>3. OpenOK(open, H, w, q)
  BY <1>1, <1>2 DEF OpenOK, CardOK
<1>4. fits => Fine(open, H, w, q)
  BY <1>1 DEF CardOK, Fine, Filled, Covered
<1>5. QED
  BY <1>1, <1>3, <1>4 DEF CardOK

\* A handle is closed: what its file had to write has been written, or never
\* can be.
LEMMA CloseStep ==
    ASSUME NEW open, NEW H, NEW v, NEW q, NEW fits, CardOK(open, H, v, q, fits),
           NEW h \in H, NEW n, NEW f, open[h] = One(f, n), Stuck(v) \/ ~f.dirDirty
    PROVE  CardOK([open EXCEPT ![h] = Closed], H, v, q, fits)
<1> DEFINE dir == Dir(Seen(v))  i == f.dirIndex_
           open2 == [open EXCEPT ![h] = Closed]
<1>1. open[h] # Closed /\ TheFile(open[h]) = f /\ TheName(open[h]) = n
  BY OneIs
<1>2. /\ n \in Name /\ FileOK(f, q[n], v) /\ dir[i].name = n /\ i \in 1 .. DirSlots
      /\ Agrees(dir[i], f) /\ open = [g \in H |-> open[g]]
  BY <1>1 DEF CardOK, OpenOK, OpenedOK, FileOK
<1>3. /\ open2 = [g \in H |-> open2[g]] /\ open2[h] = Closed
      /\ \A g \in H : g # h => open2[g] = open[g]
  BY <1>2
<1> HIDE DEF open2
<1>4. \A g \in H : \A m : Writes(open2, g, m) <=> (g # h /\ Writes(open, g, m))
  BY <1>3 DEF Writes
<1>5. ASSUME ~Stuck(v), NEW k \in 1 .. DirSlots, dir[k].name \in Name,
             dir[k].firstCluster = 0, NoWriter(open2, H, dir[k].name)
      PROVE  q[dir[k].name] = <<>>
  <2>1. CASE NoWriter(open, H, dir[k].name)
    BY <2>1, <1>5 DEF CardOK, OpenOK
  <2>2. CASE ~NoWriter(open, H, dir[k].name)
    <3>1. Writes(open, h, dir[k].name)
      BY <2>2, <1>4, <1>5 DEF NoWriter
    <3>2. dir[k].name = n /\ f.writable
      BY <3>1, <1>1 DEF Writes
    <3>3. k = i
      BY <3>2, <1>2 DEF CardOK, DirOK
    <3>4. f.firstCluster_ = 0
      BY <3>2, <3>3, <1>2, <1>5 DEF Agrees
    <3>5. QED
      BY <3>2, <3>4, <1>2 DEF FileOK
  <2>3. QED
    BY <2>1, <2>2
<1>6. \A g \in H : open2[g] # Closed =>
          /\ open2[g] = One(TheFile(open2[g]), TheName(open2[g]))
          /\ OpenedOK(TheFile(open2[g]), TheName(open2[g]), v, q)
  BY <1>3 DEF CardOK, OpenOK
<1>7. \A m \in Name : \A g, k \in H : Writes(open2, g, m) /\ Writes(open2, k, m) => g = k
  BY <1>4 DEF CardOK, OpenOK
<1>8. OpenOK(open2, H, v, q)
  BY <1>3, <1>5, <1>6, <1>7 DEF OpenOK
<1>9. ASSUME fits, ~Stuck(v) PROVE Filled(open2, H, v, q)
  <2>1. Filled(open, H, v, q)
    BY <1>9 DEF CardOK, Fine
  <2>2. ASSUME NEW k \in 1 .. DirSlots, dir[k].name \in Name,
               dir[k].fileSize = 0, NoWriter(open2, H, dir[k].name)
        PROVE  q[dir[k].name] = <<>>
    <3>1. CASE NoWriter(open, H, dir[k].name)
      BY <3>1, <2>1, <2>2 DEF Filled
    <3>2. CASE ~NoWriter(open, H, dir[k].name)
      <4>1. Writes(open, h, dir[k].name)
        BY <3>2, <1>4, <2>2 DEF NoWriter
      <4>2. dir[k].name = n /\ f.writable
        BY <4>1, <1>1 DEF Writes
      <4>3. k = i
        BY <4>2, <1>2 DEF CardOK, DirOK
      <4>4. f.fileSize_ = 0
        BY <4>2, <4>3, <1>2, <1>9, <2>2 DEF Agrees
      <4>5. QED
        BY <4>2, <4>4, <2>1, <1>1 DEF Filled
    <3>3. QED
      BY <3>1, <3>2
  <2>3. QED
    BY <2>1, <2>2, <1>3 DEF Filled
<1>10. QED
  BY <1>8, <1>9 DEF CardOK, Fine, open2

\* A handle gets a file.
LEMMA OpenStep ==
    ASSUME NEW open, NEW H, NEW v, NEW q, NEW fits, CardOK(open, H, v, q, fits),
           NEW h \in H, open[h] = Closed, NEW n \in Name, NEW f, OpenedOK(f, n, v, q),
           ~f.dirDirty, f.writable => NoWriter(open, H, n)
    PROVE  CardOK([open EXCEPT ![h] = One(f, n)], H, v, q, fits)
<1> DEFINE dir == Dir(Seen(v))
           open2 == [open EXCEPT ![h] = One(f, n)]
<1>1. open = [g \in H |-> open[g]]
  BY DEF CardOK, OpenOK
<1>2. /\ open2 = [g \in H |-> open2[g]] /\ open2[h] = One(f, n) /\ open2[h] # Closed
      /\ TheFile(open2[h]) = f /\ TheName(open2[h]) = n
      /\ \A g \in H : g # h => open2[g] = open[g]
  BY <1>1, OneIs
<1> HIDE DEF open2
<1>3. \A g \in H : \A m : Writes(open2, g, m) <=>
          IF g = h THEN m = n /\ f.writable ELSE Writes(open, g, m)
  BY <1>2 DEF Writes
<1>4. \A m : \A g \in H : Writes(open, g, m) => Writes(open2, g, m)
  BY <1>3 DEF Writes
<1>5. ~Stuck(v) => \A i \in 1 .. DirSlots :
          dir[i].name \in Name /\ dir[i].firstCluster = 0 /\ NoWriter(open2, H, dir[i].name)
            => q[dir[i].name] = <<>>
  BY <1>4 DEF CardOK, OpenOK, NoWriter
<1>6. \A g \in H : open2[g] # Closed =>
          /\ open2[g] = One(TheFile(open2[g]), TheName(open2[g]))
          /\ OpenedOK(TheFile(open2[g]), TheName(open2[g]), v, q)
  <2> SUFFICES ASSUME NEW g \in H, open2[g] # Closed
               PROVE  /\ open2[g] = One(TheFile(open2[g]), TheName(open2[g]))
                      /\ OpenedOK(TheFile(open2[g]), TheName(open2[g]), v, q)
    OBVIOUS
  <2>1. CASE g = h
    BY <2>1, <1>2
  <2>2. CASE g # h
    BY <2>2, <1>2 DEF CardOK, OpenOK
  <2>3. QED
    BY <2>1, <2>2
<1>7. \A m \in Name : \A g, k \in H : Writes(open2, g, m) /\ Writes(open2, k, m) => g = k
  <2>1. \A m \in Name : \A g, k \in H : Writes(open, g, m) /\ Writes(open, k, m) => g = k
    BY DEF CardOK, OpenOK
  <2>2. ASSUME NEW g \in H, Writes(open2, h, n), Writes(open2, g, n) PROVE g = h
    <3>1. f.writable
      BY <2>2, <1>2 DEF Writes
    <3>2. ~Writes(open, g, n)
      BY <3>1 DEF NoWriter
    <3>3. QED
      BY <3>2, <2>2, <1>2 DEF Writes
  <2>3. \A m : \A g \in H : g # h /\ Writes(open2, g, m) => Writes(open, g, m)
    BY <1>2 DEF Writes
  <2>4. \A m : Writes(open2, h, m) => m = n
    BY <1>2 DEF Writes
  <2>5. QED
    BY <2>1, <2>2, <2>3, <2>4
<1>8. OpenOK(open2, H, v, q)
  BY <1>2, <1>5, <1>6, <1>7 DEF OpenOK
<1>9. ASSUME fits, ~Stuck(v) PROVE Filled(open2, H, v, q)
  <2>1. Filled(open, H, v, q)
    BY <1>9 DEF CardOK, Fine
  <2>2. ASSUME f.writable, f.fileSize_ = 0 PROVE q[n] = <<>>
    <3> DEFINE i == f.dirIndex_
    <3>1. i \in 1 .. DirSlots /\ dir[i].name = n /\ Agrees(dir[i], f)
      BY DEF OpenedOK, FileOK
    <3>2. dir[i].fileSize = 0 /\ NoWriter(open, H, dir[i].name) /\ dir[i].name \in Name
      BY <2>2, <3>1 DEF Agrees
    <3> HIDE DEF i
    <3>3. q[dir[i].name] = <<>>
      BY <2>1, <3>1, <3>2 DEF Filled
    <3>4. QED
      BY <3>1, <3>3
  <2>3. \A g \in H : /\ open2[g] # Closed /\ TheFile(open2[g]).writable
                      /\ TheFile(open2[g]).fileSize_ = 0
          => q[TheName(open2[g])] = <<>>
    <3> SUFFICES ASSUME NEW g \in H, open2[g] # Closed, TheFile(open2[g]).writable,
                        TheFile(open2[g]).fileSize_ = 0
                 PROVE  q[TheName(open2[g])] = <<>>
      OBVIOUS
    <3>1. CASE g = h
      BY <3>1, <2>2, <1>2
    <3>2. CASE g # h
      BY <3>2, <2>1, <1>2 DEF Filled
    <3>3. QED
      BY <3>1, <3>2
  <2>4. \A m : NoWriter(open2, H, m) => NoWriter(open, H, m)
    BY <1>4 DEF NoWriter
  <2>5. QED
    BY <2>1, <2>3, <2>4 DEF Filled
<1>10. QED
  BY <1>8, <1>9 DEF CardOK, Fine, open2

\* A name that the search for it does not find is not in the directory.
LEMMA NotThere ==
    ASSUME NEW dir, NEW q, DirOK(dir, q), NEW n \in Name, SlotsOf(dir, n) = {}
    PROVE  (\A k \in 1 .. DirSlots : dir[k].name # n) /\ q[n] = <<>>
<1>1. n # NameFree
  BY CardAssumption DEF CardAssumption
<1>2. ASSUME NEW k \in 1 .. DirSlots, dir[k].name = n PROVE FALSE
  <2>1. k \notin Searched(dir)
    BY <1>2 DEF SlotsOf
  <2>2. PICK j \in 1 .. k - 1 : dir[j].name = NameFree
    BY <2>1 DEF Searched
  <2>3. j \in 1 .. DirSlots /\ j < k
    OBVIOUS
  <2>4. dir[k].name = NameFree
    BY <2>2, <2>3 DEF DirOK
  <2>5. QED
    BY <2>4, <1>1, <1>2
<1>3. QED
  BY <1>2 DEF DirOK

\* An entry for a new name.
LEMMA NewEntryStep ==
    ASSUME NEW open, NEW H, NEW v, NEW q, NEW fits, CardOK(open, H, v, q, fits),
           NEW n \in Name, SlotsOf(Dir(Seen(v)), n) = {},
           NEW i \in EmptySlots(Dir(Seen(v))),
           NEW w, VolOK(w, q), Stuck(w) <=> Stuck(v),
           Fat(Seen(w)) = Fat(Seen(v)),
           Dir(Seen(w)) = [Dir(Seen(v)) EXCEPT ![i] = [NoEntry EXCEPT !.name = n]]
    PROVE  /\ CardOK(open, H, w, q, fits) /\ q[n] = <<>> /\ i \in 1 .. DirSlots
           /\ Dir(Seen(w))[i] = [NoEntry EXCEPT !.name = n]
           /\ NoWriter(open, H, n)
<1> DEFINE dir == Dir(Seen(v))  dir2 == Dir(Seen(w))  e == [NoEntry EXCEPT !.name = n]
<1>1. /\ e.name = n /\ e.firstCluster = 0 /\ e.fileSize = 0
  BY DEF NoEntry
<1>2. /\ i \in 1 .. DirSlots /\ dir[i].name \in {NameFree, NameDeleted}
      /\ \A j \in 1 .. i - 1 : dir[j].name # NameFree
  BY DEF EmptySlots, SlotsOf, Searched
<1>3. DOMAIN dir = 1 .. DirSlots
  BY DEF CardOK, VolOK, WellFormed, Dir
<1>4. /\ dir2[i] = e
      /\ \A k \in 1 .. DirSlots : k # i => dir2[k] = dir[k]
  BY <1>2, <1>3
<1>5. (\A k \in 1 .. DirSlots : dir[k].name # n) /\ q[n] = <<>>
  BY NotThere DEF CardOK
<1>6. n \notin {NameFree, NameDeleted} /\ dir[i].name \notin Name
  BY <1>2, CardAssumption DEF CardAssumption
<1>7. DirOK(dir, q) /\ OpenOK(open, H, v, q)
  BY DEF CardOK
<1> HIDE DEF dir, dir2, e
<1>8. DirOK(dir2, q)
  <2>1. \A k, j \in 1 .. DirSlots :
              dir2[k].name \in Name /\ dir2[k].name = dir2[j].name => k = j
    BY <1>1, <1>4, <1>5, <1>7 DEF DirOK
  <2>2. \A k, j \in 1 .. DirSlots :
              k < j /\ dir2[k].name = NameFree => dir2[j].name = NameFree
    BY <1>1, <1>2, <1>4, <1>6, <1>7 DEF DirOK
  <2>3. \A k \in 1 .. DirSlots : dir2[k].name \in Name =>
          BeginsAt(dir2[k].firstCluster, dir2[k].fileSize, q[dir2[k].name])
    <3>1. BeginsAt(0, 0, q[n])
      BY <1>5, Sizes DEF BeginsAt
    <3>2. QED
      BY <3>1, <1>1, <1>4, <1>7 DEF DirOK
  <2>4. \A m \in Name : q[m] # <<>> => \E k \in 1 .. DirSlots : dir2[k].name = m
    BY <1>4, <1>6, <1>7 DEF DirOK
  <2>5. QED
    BY <2>1, <2>2, <2>3, <2>4 DEF DirOK
<1>9. ASSUME NEW f, NEW m, OpenedOK(f, m, v, q) PROVE OpenedOK(f, m, w, q) /\ m # n
  <2>1. m \in Name /\ FileOK(f, q[m], v) /\ f.dirIndex_ \in 1 .. DirSlots
        /\ dir[f.dirIndex_].name = m /\ Agrees(dir[f.dirIndex_], f)
    BY <1>9 DEF OpenedOK, FileOK, dir
  <2>2. FileOK(f, q[m], w)
    BY <2>1 DEF FileOK
  <2>3. f.dirIndex_ # i
    BY <2>1, <1>6
  <2>4. QED
    BY <2>1, <2>2, <2>3, <1>4, <1>5 DEF OpenedOK, dir2
<1>10. OpenOK(open, H, w, q)
  <2>1. \A h \in H : open[h] # Closed =>
            /\ open[h] = One(TheFile(open[h]), TheName(open[h]))
            /\ OpenedOK(TheFile(open[h]), TheName(open[h]), w, q)
    BY <1>7, <1>9 DEF OpenOK
  <2>2. ~Stuck(w) => \A k \in 1 .. DirSlots :
          dir2[k].name \in Name /\ dir2[k].firstCluster = 0
            /\ NoWriter(open, H, dir2[k].name) => q[dir2[k].name] = <<>>
    BY <1>1, <1>4, <1>5, <1>7 DEF OpenOK, dir
  <2>3. QED
    BY <1>7, <2>1, <2>2 DEF OpenOK, dir2
<1>11. NoWriter(open, H, n)
  BY <1>7, <1>9 DEF OpenOK, NoWriter, Writes
<1>12. ASSUME fits PROVE Fine(open, H, w, q)
  <2>1. Fine(open, H, v, q)
    BY <1>12 DEF CardOK
  <2>2. Covered(w, q)
    BY <2>1 DEF Fine, Covered
  <2>3. ASSUME ~Stuck(w), Filled(open, H, v, q) PROVE Filled(open, H, w, q)
    <3>1. \A k \in 1 .. DirSlots :
             dir2[k].name \in Name /\ dir2[k].fileSize = 0
               /\ NoWriter(open, H, dir2[k].name) => q[dir2[k].name] = <<>>
      BY <2>3, <1>1, <1>4, <1>5 DEF Filled, dir
    <3>2. QED
      BY <2>3, <3>1 DEF Filled, dir2
  <2>4. QED
    BY <2>1, <2>2, <2>3 DEF Fine
<1>13. QED
  BY <1>2, <1>4, <1>5, <1>8, <1>10, <1>11, <1>12 DEF CardOK, dir2, e

\* The file of a name that is not open is removed.
LEMMA RemoveStep ==
    ASSUME NEW open, NEW H, NEW v, NEW q, NEW fits, CardOK(open, H, v, q, fits),
           NEW n \in Name, \A h \in H : open[h] # Closed => TheName(open[h]) # n,
           NEW i \in 1 .. DirSlots, Dir(Seen(v))[i].name = n,
           NEW w, VolOK(w, [q EXCEPT ![n] = <<>>]), ~Stuck(v), ~Stuck(w),
           Dir(Seen(w))[i].name = NameDeleted,
           \A k \in 1 .. DirSlots : k # i => Dir(Seen(w))[k] = Dir(Seen(v))[k],
           fits => Covered(w, [q EXCEPT ![n] = <<>>])
    PROVE  CardOK(open, H, w, [q EXCEPT ![n] = <<>>], fits)
<1> DEFINE dir == Dir(Seen(v))  dir2 == Dir(Seen(w))  r == [q EXCEPT ![n] = <<>>]
<1>1. q \in [Name -> Seq(Clusters)]
  BY DEF CardOK, VolOK, Chained
<1>2. r[n] = <<>> /\ \A m \in Name : m # n => r[m] = q[m]
  BY <1>1
<1>3. NameDeleted \notin Name /\ NameDeleted # NameFree
  BY CardAssumption DEF CardAssumption, NameDeleted, NameFree
<1>4. n \notin {NameFree, NameDeleted}
  BY CardAssumption DEF CardAssumption
<1>5. DirOK(dir, q) /\ OpenOK(open, H, v, q) /\ VolOK(w, r)
  BY DEF CardOK
<1>6. /\ dir[i].name = n /\ dir2[i].name = NameDeleted
      /\ \A k \in 1 .. DirSlots : k # i => dir2[k] = dir[k] /\ dir[k].name # n
  BY <1>5 DEF DirOK
<1> HIDE DEF dir, dir2, r
<1>7. DirOK(dir2, r)
  <2>1. \A k, j \in 1 .. DirSlots :
              dir2[k].name \in Name /\ dir2[k].name = dir2[j].name => k = j
    BY <1>3, <1>5, <1>6 DEF DirOK
  <2>2. \A k, j \in 1 .. DirSlots :
              k < j /\ dir2[k].name = NameFree => dir2[j].name = NameFree
    <3> SUFFICES ASSUME NEW k \in 1 .. DirSlots, NEW j \in 1 .. DirSlots,
                        k < j, dir2[k].name = NameFree
                 PROVE  dir2[j].name = NameFree
      OBVIOUS
    <3>1. k # i
      BY <1>3, <1>6
    <3>2. dir[j].name = NameFree
      BY <3>1, <1>5, <1>6 DEF DirOK
    <3>3. j # i
      BY <3>2, <1>4, <1>6
    <3>4. QED
      BY <3>2, <3>3, <1>6
  <2>3. \A k \in 1 .. DirSlots : dir2[k].name \in Name =>
          BeginsAt(dir2[k].firstCluster, dir2[k].fileSize, r[dir2[k].name])
    BY <1>2, <1>3, <1>5, <1>6 DEF DirOK
  <2>4. \A m \in Name : r[m] # <<>> => \E k \in 1 .. DirSlots : dir2[k].name = m
    BY <1>2, <1>5, <1>6 DEF DirOK
  <2>5. QED
    BY <2>1, <2>2, <2>3, <2>4 DEF DirOK
<1>8. ASSUME NEW f, NEW m, OpenedOK(f, m, v, q), m # n PROVE OpenedOK(f, m, w, r)
  <2>1. m \in Name /\ FileOK(f, q[m], v) /\ f.dirIndex_ \in 1 .. DirSlots
        /\ dir[f.dirIndex_].name = m /\ Agrees(dir[f.dirIndex_], f)
    BY <1>8 DEF OpenedOK, FileOK, dir
  <2>2. FileOK(f, q[m], w)
    BY <2>1 DEF FileOK
  <2>3. f.dirIndex_ # i /\ r[m] = q[m]
    BY <2>1, <1>2, <1>6, <1>8
  <2>4. QED
    BY <2>1, <2>2, <2>3, <1>6 DEF OpenedOK, dir2
<1>9. OpenOK(open, H, w, r)
  <2>1. \A h \in H : open[h] # Closed =>
            /\ open[h] = One(TheFile(open[h]), TheName(open[h]))
            /\ OpenedOK(TheFile(open[h]), TheName(open[h]), w, r)
    BY <1>5, <1>8 DEF OpenOK
  <2>2. \A k \in 1 .. DirSlots :
          dir2[k].name \in Name /\ dir2[k].firstCluster = 0
            /\ NoWriter(open, H, dir2[k].name) => r[dir2[k].name] = <<>>
    BY <1>2, <1>3, <1>5, <1>6 DEF OpenOK, dir
  <2>3. QED
    BY <1>5, <2>1, <2>2 DEF OpenOK, dir2
<1>10. ASSUME fits PROVE Filled(open, H, w, r)
  <2>1. Filled(open, H, v, q)
    BY <1>10 DEF CardOK, Fine
  <2>2. \A h \in H : /\ open[h] # Closed /\ TheFile(open[h]).writable
                      /\ TheFile(open[h]).fileSize_ = 0
          => r[TheName(open[h])] = <<>>
    <3>1. \A h \in H : open[h] # Closed => TheName(open[h]) \in Name
      BY <1>5 DEF OpenOK, OpenedOK
    <3>2. QED
      BY <2>1, <3>1, <1>2 DEF Filled
  <2>3. \A k \in 1 .. DirSlots :
          dir2[k].name \in Name /\ dir2[k].fileSize = 0
            /\ NoWriter(open, H, dir2[k].name) => r[dir2[k].name] = <<>>
    BY <2>1, <1>2, <1>3, <1>6 DEF Filled, dir
  <2>4. QED
    BY <2>2, <2>3 DEF Filled, dir2
<1>11. fits => Covered(w, r)
  BY DEF r
<1>12. QED
  BY <1>5, <1>7, <1>9, <1>10, <1>11 DEF CardOK, Fine, r, dir2

----------------------------------------------------------------------------
(* Calls for an open file *)

\* The state of a call for the file of handle h.
At(s, open, H, h, n, q, fits) ==
    /\ Sound(s, q) /\ CardOK(open, H, s.vol, q, fits)
    /\ h \in H /\ open[h] = One(s.file, n)

\* What a call for an open file may count on.
LEMMA AtIs ==
    ASSUME NEW s, NEW open, NEW H, NEW h, NEW n, NEW q, NEW fits, At(s, open, H, h, n, q, fits)
    PROVE  /\ n \in Name /\ FileOK(s.file, q[n], s.vol)
           /\ s.file.dirIndex_ \in 1 .. DirSlots
           /\ Dir(Seen(s.vol))[s.file.dirIndex_].name = n
           /\ Agrees(Dir(Seen(s.vol))[s.file.dirIndex_], s.file)
           /\ BeginsAt(Dir(Seen(s.vol))[s.file.dirIndex_].firstCluster,
                       Dir(Seen(s.vol))[s.file.dirIndex_].fileSize, q[n])
           /\ q \in [Name -> Seq(Clusters)]
           /\ open = [g \in H |-> open[g]]
<1>1. open[h] # Closed /\ TheFile(open[h]) = s.file /\ TheName(open[h]) = n
  BY OneIs DEF At
<1>2. OpenedOK(s.file, n, s.vol, q) /\ open = [g \in H |-> open[g]]
  BY <1>1 DEF At, CardOK, OpenOK
<1>3. q \in [Name -> Seq(Clusters)]
  BY DEF At, Sound, Chained
<1>4. s.file.dirIndex_ \in 1 .. DirSlots
  BY <1>2 DEF OpenedOK, FileOK
<1>5. DirOK(Dir(Seen(s.vol)), q)
  BY DEF At, CardOK
<1>6. QED
  BY <1>2, <1>3, <1>4, <1>5 DEF OpenedOK, DirOK

\* A call for an open file begins with it.
LEMMA StartIs ==
    ASSUME NEW open, NEW H, NEW v, NEW q, NEW fits, CardOK(open, H, v, q, fits),
           NEW h \in H, open[h] # Closed
    PROVE  LET s == Call(v, TheFile(open[h]))
           IN  /\ At(s, open, H, h, TheName(open[h]), q, fits) /\ s.ok /\ s.vol = v
               /\ s.file = TheFile(open[h])
<1> DEFINE f == TheFile(open[h])  n == TheName(open[h])  s == Call(v, f)
<1>1. open[h] = One(f, n) /\ OpenedOK(f, n, v, q)
  BY DEF CardOK, OpenOK
<1>2. IsFile(f) /\ VolOK(v, q)
  BY <1>1 DEF OpenedOK, FileOK, CardOK
<1> HIDE DEF f, n
<1>3. Sound(s, q) /\ s.ok /\ s.vol = v /\ s.file = f
  BY <1>2, CallSound
<1> HIDE DEF s
<1>4. QED
  BY <1>1, <1>3 DEF At, s, f, n

\* Whether the call has failed does not matter to the file.
LEMMA OkSet ==
    ASSUME NEW s, NEW q, Sound(s, q), NEW b \in BOOLEAN
    PROVE  LET t == [s EXCEPT !.ok = b]
           IN  Sound(t, q) /\ t.ok = b /\ t.vol = s.vol /\ t.file = s.file
<1> DEFINE t == [s EXCEPT !.ok = b]
<1>1. IsCall(t) /\ t.ok = b /\ t.vol = s.vol /\ t.file = s.file
  BY DEF Sound, IsCall, CallFields
<1> HIDE DEF t
<1>2. QED
  BY <1>1 DEF Sound, t

\* The position in the file has changed.
LEMMA MovedStep ==
    ASSUME NEW s, NEW open, NEW H, NEW h, NEW n, NEW q, NEW fits, At(s, open, H, h, n, q, fits),
           NEW t, Sound(t, q), Quiet(s, t), Moved(s.file, t.file),
           FileOK(t.file, q[n], t.vol)
    PROVE  At(t, [open EXCEPT ![h] = One(t.file, n)], H, h, n, q, fits)
<1> DEFINE f == s.file  f2 == t.file  v == s.vol  w == t.vol
           open2 == [open EXCEPT ![h] = One(f2, n)]
<1>1. /\ n \in Name /\ IsFile(f) /\ f.dirIndex_ \in 1 .. DirSlots
      /\ Dir(Seen(v))[f.dirIndex_].name = n /\ Agrees(Dir(Seen(v))[f.dirIndex_], f)
      /\ BeginsAt(Dir(Seen(v))[f.dirIndex_].firstCluster,
                  Dir(Seen(v))[f.dirIndex_].fileSize, q[n])
      /\ q \in [Name -> Seq(Clusters)] /\ open = [g \in H |-> open[g]]
  BY AtIs DEF FileOK
<1>2. /\ f2.dirIndex_ = f.dirIndex_ /\ f2.writable = f.writable /\ f2.dirDirty = f.dirDirty
      /\ f2.firstCluster_ = f.firstCluster_ /\ f2.fileSize_ = f.fileSize_
  BY <1>1 DEF Moved, IsFile, FileFields
<1>3. CardOK(open, H, v, q, fits) /\ h \in H /\ open[h] = One(f, n)
  BY DEF At
<1>4. Seen(w) = Seen(v) /\ (Stuck(w) <=> Stuck(v)) /\ VolOK(w, q)
  BY SoundIsVol DEF Quiet
<1>5. FileOK(f2, q[n], w)
  OBVIOUS
<1>6. Grown(q, q, n)
  BY <1>1, GrownSelf
<1>7. Agrees(Dir(Seen(w))[f.dirIndex_], f2)
  BY <1>1, <1>2, <1>4 DEF Agrees
<1> HIDE DEF f, f2, v, w
<1>8. fits => Covered(w, q)
  BY <1>3, <1>4 DEF CardOK, Fine, Covered
<1>9. fits /\ ~Stuck(w) /\ f2.writable /\ f2.fileSize_ = 0 => q[n] = <<>>
  <2>1. open[h] # Closed /\ TheFile(open[h]) = f /\ TheName(open[h]) = n
    BY <1>3, OneIs
  <2>2. QED
    BY <2>1, <1>2, <1>3, <1>4 DEF CardOK, Fine, Filled
<1>10. CardOK(open2, H, w, q, fits)
  BY <1>1, <1>2, <1>3, <1>4, <1>5, <1>6, <1>7, <1>8, <1>9, HandleStep
<1>11. open2[h] = One(f2, n)
  BY <1>1, <1>3
<1>12. QED
  BY <1>3, <1>10, <1>11 DEF At, f2, w

LEMMA SeekStep ==
    ASSUME NEW s, NEW open, NEW H, NEW h, NEW n, NEW q, NEW fits,
           At(s, open, H, h, n, q, fits), s.ok,
           NEW pos \in Nat, pos <= s.file.fileSize_
    PROVE  LET t == seekSet(s, pos)
           IN  At(t, [open EXCEPT ![h] = One(t.file, n)], H, h, n, q, fits)
<1> DEFINE t == seekSet(s, pos)
<1>1. n \in Name /\ FileOK(s.file, q[n], s.vol) /\ Sound(s, q)
  BY AtIs DEF At
<1>2. /\ Sound(t, q) /\ Quiet(s, t) /\ FileOK(t.file, q[n], s.vol)
      /\ t.file = [s.file EXCEPT !.curCluster_ = t.file.curCluster_,
                                 !.curPosition_ = t.file.curPosition_]
  BY <1>1, SeekIs
<1> HIDE DEF t
<1>3. FileOK(t.file, q[n], t.vol) /\ Moved(s.file, t.file)
  BY <1>2 DEF FileOK, Quiet, Moved
<1>4. At(t, [open EXCEPT ![h] = One(t.file, n)], H, h, n, q, fits)
  BY <1>2, <1>3, MovedStep
<1>5. QED
  BY <1>4 DEF t

LEMMA ReadStep ==
    ASSUME NEW s, NEW open, NEW H, NEW h, NEW n, NEW q, NEW fits,
           At(s, open, H, h, n, q, fits), s.ok,
           s.file.curPosition_ <= s.file.fileSize_, NEW nbyte \in Nat
    PROVE  LET t == read(s, nbyte)
           IN  At(t, [open EXCEPT ![h] = One(t.file, n)], H, h, n, q, fits)
<1> DEFINE t == read(s, nbyte)
<1>1. n \in Name /\ FileOK(s.file, q[n], s.vol) /\ Sound(s, q)
  BY AtIs DEF At
<1>2. /\ Sound(t, q) /\ Quiet(s, t) /\ Moved(s.file, t.file)
      /\ FileOK(t.file, q[n], t.vol)
  BY <1>1, ReadIs
<1> HIDE DEF t
<1>3. At(t, [open EXCEPT ![h] = One(t.file, n)], H, h, n, q, fits)
  BY <1>2, MovedStep
<1>4. QED
  BY <1>3 DEF t

LEMMA WriteStep ==
    ASSUME NEW s, NEW open, NEW H, NEW h, NEW n, NEW q, NEW fits,
           At(s, open, H, h, n, q, fits), s.ok,
           s.file.writable, NEW A, NEW bytes \in Seq(A), Len(bytes) > 0
    PROVE  LET t == write(s, bytes)
           IN  \E r : At(t, [open EXCEPT ![h] = One(t.file, n)], H, h, n, r, fits /\ t.ok)
<1> DEFINE t == write(s, bytes)  f == s.file  v == s.vol
<1>1. /\ n \in Name /\ FileOK(f, q[n], v) /\ f.dirIndex_ \in 1 .. DirSlots
      /\ Dir(Seen(v))[f.dirIndex_].name = n /\ Agrees(Dir(Seen(v))[f.dirIndex_], f)
      /\ BeginsAt(Dir(Seen(v))[f.dirIndex_].firstCluster,
                  Dir(Seen(v))[f.dirIndex_].fileSize, q[n])
      /\ open = [g \in H |-> open[g]]
  BY AtIs
<1>2. PICK r : /\ Grown(q, r, n) /\ Sound(t, r) /\ FileOK(t.file, r[n], t.vol)
               /\ Dir(Seen(t.vol)) = Dir(Seen(s.vol))
               /\ Stuck(s.vol) => Stuck(t.vol)
               /\ Covered(s.vol, q) => Covered(t.vol, r)
               /\ t.ok => t.file.fileSize_ # 0
               /\ t.file.dirIndex_ = s.file.dirIndex_ /\ t.file.writable
               /\ ~t.file.dirDirty =>
                     /\ ~s.file.dirDirty
                     /\ t.file.firstCluster_ = s.file.firstCluster_
                     /\ t.file.fileSize_ = s.file.fileSize_
  BY <1>1, WriteIs DEF At
<1> HIDE DEF t
<1> DEFINE f2 == t.file  w == t.vol  open2 == [open EXCEPT ![h] = One(f2, n)]
           fits2 == fits /\ t.ok
<1>3. CardOK(open, H, v, q, fits2) /\ h \in H /\ open[h] = One(f, n) /\ f.writable
  BY DEF At, CardOK
<1>4. /\ VolOK(w, r) /\ Grown(q, r, n) /\ FileOK(f2, r[n], w) /\ (Stuck(v) => Stuck(w))
      /\ f2.dirIndex_ = f.dirIndex_ /\ f2.writable = TRUE /\ f.writable = TRUE
      /\ Dir(Seen(w)) = Dir(Seen(v))
  <2>1. f.writable \in BOOLEAN /\ f2.writable \in BOOLEAN
    BY <1>1, <1>2 DEF FileOK
  <2>2. QED
    BY <2>1, <1>2, <1>3, SoundIsVol
<1>5. Agrees(Dir(Seen(w))[f.dirIndex_], f2)
  BY <1>1, <1>2, <1>4 DEF Agrees
<1>6. BeginsAt(Dir(Seen(w))[f.dirIndex_].firstCluster,
               Dir(Seen(w))[f.dirIndex_].fileSize, r[n])
  <2> DEFINE e == Dir(Seen(v))[f.dirIndex_]
  <2>1. BeginsAt(e.firstCluster, e.fileSize, q[n]) /\ Extends(q[n], r[n])
    BY <1>1, <1>2 DEF Grown
  <2> HIDE DEF e
  <2>2. BeginsAt(e.firstCluster, e.fileSize, r[n])
    BY <2>1, BeginsGrows
  <2>3. QED
    BY <2>2, <1>4 DEF e
<1>7. fits2 => Covered(w, r) /\ f2.fileSize_ # 0
  BY <1>2, <1>3 DEF CardOK, Fine
<1> HIDE DEF f, f2, v, w, fits2
<1>8. CardOK(open2, H, w, r, fits2)
  BY <1>1, <1>3, <1>4, <1>5, <1>6, <1>7, HandleStep
<1>9. open2[h] = One(f2, n)
  BY <1>1, <1>3
<1>10. At(t, open2, H, h, n, r, fits2)
  BY <1>2, <1>3, <1>8, <1>9 DEF At, f2, w
<1>11. QED
  BY <1>10 DEF t, f2, fits2

LEMMA FlushStep ==
    ASSUME NEW s, NEW open, NEW H, NEW h, NEW n, NEW q, NEW fits,
           At(s, open, H, h, n, q, fits), s.ok
    PROVE  LET t == sync(s)
           IN  /\ At(t, [open EXCEPT ![h] = One(t.file, n)], H, h, n, q, fits)
               /\ Stuck(t.vol) \/ ~t.file.dirDirty
<1> DEFINE t == sync(s)  f == s.file  v == s.vol  i == f.dirIndex_  dir == Dir(Seen(v))
           f2 == t.file  w == t.vol  open2 == [open EXCEPT ![h] = One(f2, n)]
<1>1. /\ n \in Name /\ FileOK(f, q[n], v) /\ i \in 1 .. DirSlots
      /\ dir[i].name = n /\ Agrees(dir[i], f)
      /\ BeginsAt(dir[i].firstCluster, dir[i].fileSize, q[n])
      /\ q \in [Name -> Seq(Clusters)] /\ open = [g \in H |-> open[g]]
  BY AtIs
<1>2. CardOK(open, H, v, q, fits) /\ h \in H /\ open[h] = One(f, n) /\ Sound(s, q)
  BY DEF At
<1>3. /\ t.ok = ~Stuck(v)
      /\ Sound(t, q) /\ (Stuck(w) <=> Stuck(v))
      /\ ~t.ok => f2 = f /\ Seen(w) = Seen(v)
      /\ t.ok => /\ f2 = [f EXCEPT !.dirDirty = FALSE]
                 /\ DirTo(s, t, IF f.dirDirty THEN [dir EXCEPT ![i] = EntryOf(dir[i], f)]
                                ELSE dir)
  <2>1. f.dirDirty \in BOOLEAN
    BY <1>1 DEF FileOK
  <2>2. QED
    BY <2>1, <1>1, <1>2, SyncIs
<1> HIDE DEF t
<1>4. /\ IsFile(f) /\ f.dirDirty \in BOOLEAN /\ f.writable \in BOOLEAN
      /\ ~f.writable => ~f.dirDirty
      /\ BeginsAt(f.firstCluster_, f.fileSize_, q[n])
  BY <1>1 DEF FileOK
<1>5. DOMAIN dir = 1 .. DirSlots /\ IsEntry(dir[i])
  BY <1>1, <1>2 DEF Sound, WellFormed, Dir
<1>6. VolOK(w, q)
  BY <1>3, SoundIsVol
<1>7. CASE ~t.ok
  <2>1. FileOK(f2, q[n], w) /\ Moved(s.file, t.file) /\ Quiet(s, t)
    <3>1. FileOK(f, q[n], w)
      BY <1>1, <1>3 DEF FileOK
    <3>2. f = [f EXCEPT !.curCluster_ = f.curCluster_, !.curPosition_ = f.curPosition_]
      BY <1>4 DEF IsFile
    <3>3. QED
      BY <3>1, <3>2, <1>3, <1>7 DEF Moved, Quiet
  <2>2. At(t, open2, H, h, n, q, fits)
    BY <2>1, <1>3, MovedStep
  <2>3. Stuck(w)
    BY <1>3, <1>7
  <2>4. QED
    BY <2>2, <2>3 DEF t
<1>8. CASE t.ok
  <2> DEFINE dir2 == Dir(Seen(w))
  <2>1. f2 = [f EXCEPT !.dirDirty = FALSE] /\ ~Stuck(v) /\ ~Stuck(w)
        /\ dir2 = IF f.dirDirty THEN [dir EXCEPT ![i] = EntryOf(dir[i], f)] ELSE dir
    BY <1>3, <1>8 DEF DirTo
  <2>2. Fat(Seen(w)) = Fat(Seen(v))
    BY <1>3, <1>8, DirLeavesFat
  <2>3. /\ f2.dirIndex_ = i /\ f2.writable = f.writable /\ ~f2.dirDirty
        /\ f2.firstCluster_ = f.firstCluster_ /\ f2.fileSize_ = f.fileSize_
    BY <2>1, <1>4 DEF IsFile, FileFields
  <2>4. FileOK(f2, q[n], w)
    <3>1. /\ IsFile(f2) /\ f2.curPosition_ = f.curPosition_ /\ f2.curCluster_ = f.curCluster_
          /\ f2.writeError = f.writeError /\ f2.dirDirty = FALSE
      BY <2>1, <1>4 DEF IsFile, FileFields
    <3> HIDE DEF f, f2, v, w, dir2
    <3>2. QED
      BY <3>1, <2>1, <2>3, <1>1 DEF FileOK, Placed, i
  <2>5. /\ dir2[i].name = n
        /\ f.dirDirty => /\ dir2[i].firstCluster = f.firstCluster_
                         /\ dir2[i].fileSize = f.fileSize_
        /\ ~f.dirDirty => dir2[i] = dir[i]
        /\ \A k \in 1 .. DirSlots : k # i => dir2[k] = dir[k]
        /\ ~f.writable => dir2 = dir
    <3>1. CASE ~f.dirDirty
      BY <3>1, <2>1, <1>1
    <3>2. CASE f.dirDirty
      <4>1. dir2 = [dir EXCEPT ![i] = EntryOf(dir[i], f)]
        BY <3>2, <2>1
      <4>2. /\ EntryOf(dir[i], f).name = dir[i].name
            /\ EntryOf(dir[i], f).firstCluster = f.firstCluster_
            /\ EntryOf(dir[i], f).fileSize = f.fileSize_
        BY <1>5 DEF EntryOf, IsEntry, EntryFields
      <4> HIDE DEF dir2, dir, i
      <4>3. QED
        BY <4>1, <4>2, <3>2, <1>1, <1>4, <1>5
    <3>3. QED
      BY <3>1, <3>2
  <2>6. BeginsAt(dir2[i].firstCluster, dir2[i].fileSize, q[n])
    BY <2>5, <1>1, <1>4
  <2>7. Agrees(dir2[i], f2)
    BY <2>3, <2>5, <1>1 DEF Agrees
  <2>8. Grown(q, q, n)
    BY <1>1, GrownSelf
  <2>9. fits => Covered(w, q)
    BY <1>2, <2>2 DEF CardOK, Fine, Covered
  <2>10. fits /\ ~Stuck(w) /\ f2.writable /\ f2.fileSize_ = 0 => q[n] = <<>>
    <3>1. open[h] # Closed /\ TheFile(open[h]) = f /\ TheName(open[h]) = n
      BY <1>2, OneIs
    <3> HIDE DEF f, f2, v, w, open2, dir2
    <3>2. QED
      BY <3>1, <1>2, <2>1, <2>3 DEF CardOK, Fine, Filled
  <2> HIDE DEF f, f2, v, w, open2
  <2>11. /\ Dir(Seen(w))[f.dirIndex_].name = n
         /\ \A k \in 1 .. DirSlots : k # f.dirIndex_ =>
               Dir(Seen(w))[k] = Dir(Seen(v))[k]
         /\ ~f.writable => Dir(Seen(w)) = Dir(Seen(v))
         /\ Agrees(Dir(Seen(w))[f.dirIndex_], f2)
         /\ BeginsAt(Dir(Seen(w))[f.dirIndex_].firstCluster,
                     Dir(Seen(w))[f.dirIndex_].fileSize, q[n])
         /\ f2.dirIndex_ = f.dirIndex_ /\ f2.writable = f.writable
    BY <2>3, <2>5, <2>6, <2>7 DEF i, dir, dir2
  <2> HIDE DEF i, dir, dir2
  <2>12. CardOK(open2, H, w, q, fits)
    BY <1>2, <1>6, <2>1, <2>3, <2>4, <2>8, <2>9, <2>10, <2>11, HandleStep DEF open2
  <2>13. open2[h] = One(f2, n)
    BY <1>1, <1>2 DEF open2
  <2>14. At(t, open2, H, h, n, q, fits)
    BY <1>2, <1>3, <2>12, <2>13 DEF At, f2, w
  <2>15. QED
    BY <2>3, <2>14 DEF t, f2, open2
<1>9. QED
  BY <1>7, <1>8, <1>3

\* close() is sync() and forgets the handle.
LEMMA CloseCall ==
    ASSUME NEW s, NEW open, NEW H, NEW h, NEW n, NEW q, NEW fits,
           At(s, open, H, h, n, q, fits), s.ok
    PROVE  LET t == sync(s)
           IN  Sound(t, q) /\ CardOK([open EXCEPT ![h] = Closed], H, t.vol, q, fits)
<1> DEFINE t == sync(s)  open2 == [open EXCEPT ![h] = One(t.file, n)]
<1>1. At(t, open2, H, h, n, q, fits) /\ (Stuck(t.vol) \/ ~t.file.dirDirty)
  BY FlushStep
<1> HIDE DEF t
<1>2. [open2 EXCEPT ![h] = Closed] = [open EXCEPT ![h] = Closed]
  <2>1. open = [g \in H |-> open[g]]
    BY AtIs
  <2>2. QED
    BY <2>1
<1> HIDE DEF open2
<1>3. CardOK([open2 EXCEPT ![h] = Closed], H, t.vol, q, fits)
  BY <1>1, CloseStep DEF At
<1>4. QED
  BY <1>1, <1>2, <1>3 DEF At, t

----------------------------------------------------------------------------
(* Opening and removing *)

\* A file that has just been opened.
LEMMA JustOpened ==
    ASSUME NEW open, NEW H, NEW v, NEW q, NEW fits, CardOK(open, H, v, q, fits), ~Stuck(v),
           NEW n \in Name, NEW w \in BOOLEAN, w => NoWriter(open, H, n),
           NEW i \in 1 .. DirSlots, Dir(Seen(v))[i].name = n
    PROVE  OpenedOK(Opened(i, Dir(Seen(v))[i], w), n, v, q)
<1> DEFINE e == Dir(Seen(v))[i]  f == Opened(i, e, w)
<1>1. /\ IsFile(f) /\ f.dirIndex_ = i /\ f.writable = w /\ f.dirDirty = FALSE
      /\ f.firstCluster_ = e.firstCluster /\ f.fileSize_ = e.fileSize
      /\ f.curCluster_ = 0 /\ f.curPosition_ = 0 /\ f.writeError = FALSE
  <2> HIDE DEF e
  <2>1. IsFile(f)
    BY DEF Opened, IsFile, FileFields
  <2>2. /\ f.dirIndex_ = i /\ f.writable = w /\ f.dirDirty = FALSE
        /\ f.firstCluster_ = e.firstCluster /\ f.fileSize_ = e.fileSize
        /\ f.curCluster_ = 0 /\ f.curPosition_ = 0 /\ f.writeError = FALSE
    BY DEF Opened
  <2>3. QED
    BY <2>1, <2>2
<1>2. BeginsAt(e.firstCluster, e.fileSize, q[n]) /\ q[n] \in Seq(Clusters)
  BY DEF CardOK, DirOK, VolOK, Chained
<1>3. w /\ e.firstCluster = 0 => q[n] = <<>>
  BY DEF CardOK, OpenOK
<1>4. Len(q[n]) * ClusterBytes \in Nat
  <2>1. Len(q[n]) \in Nat
    BY <1>2
  <2>2. QED
    BY <2>1, Multiples
<1>5. 0 <= Len(q[n]) * ClusterBytes
  <2> DEFINE p == Len(q[n]) * ClusterBytes
  <2>1. p \in Nat
    BY <1>4
  <2> HIDE DEF p
  <2>2. QED
    BY <2>1 DEF p
<1>6. 0 <= e.fileSize
  BY <1>2 DEF BeginsAt
<1>7. Placed(f, q[n])
  BY <1>1 DEF Placed
<1> HIDE DEF f, e
<1>8. FileOK(f, q[n], v)
  <2> DEFINE p == Len(q[n]) * ClusterBytes
  <2>1. f.curPosition_ \in Nat /\ f.curPosition_ <= p /\ f.curPosition_ <= f.fileSize_
    BY <1>1, <1>5, <1>6
  <2>2. f.writable \in BOOLEAN /\ f.dirDirty \in BOOLEAN /\ f.writeError \in BOOLEAN
        /\ ~f.dirDirty /\ ~f.writeError
    BY <1>1
  <2>3. f.writable /\ f.firstCluster_ = 0 => q[n] = <<>>
    BY <1>1, <1>3
  <2>4. BeginsAt(f.firstCluster_, f.fileSize_, q[n])
    BY <1>1, <1>2
  <2>5. IsFile(f) /\ f.dirIndex_ \in 1 .. DirSlots
    BY <1>1
  <2>6. QED
    BY <2>1, <2>2, <2>3, <2>4, <2>5, <1>7 DEF FileOK
<1>9. QED
  BY <1>1, <1>8 DEF OpenedOK, Agrees, f, e

\* openFile() for a handle: in order, with no second writer.
LEMMA OpenIs ==
    ASSUME NEW s, NEW q, Sound(s, q), s.ok,
           NEW open, NEW H, NEW fits, CardOK(open, H, s.vol, q, fits), NEW n \in Name,
           NEW w \in BOOLEAN, w => NoWriter(open, H, n), NEW creat
    PROVE  LET t == openFile(s, n, w, creat)
           IN  /\ Sound(t, q) /\ CardOK(open, H, t.vol, q, fits)
               /\ t.ok => /\ ~Stuck(t.vol) /\ t.file.writable = w /\ ~t.file.dirDirty
                          /\ OpenedOK(t.file, n, t.vol, q)
<1> DEFINE t == openFile(s, n, w, creat)  dir == Dir(Seen(s.vol))
<1>1. /\ Sound(t, q) /\ (Stuck(t.vol) <=> Stuck(s.vol))
      /\ ~t.ok => Seen(t.vol) = Seen(s.vol)
      /\ t.ok => ~Stuck(s.vol) /\ OpenedFile(s, t, n, w, creat)
  BY OpenFileIs
<1> HIDE DEF t
<1>2. VolOK(t.vol, q)
  BY <1>1, SoundIsVol
<1>3. CASE ~t.ok
  <2>1. CardOK(open, H, t.vol, q, fits)
    BY <1>1, <1>2, <1>3, QuietStep
  <2>2. QED
    BY <2>1, <1>1, <1>3 DEF t
<1>4. CASE t.ok
  <2>1. ~Stuck(s.vol) /\ ~Stuck(t.vol) /\ OpenedFile(s, t, n, w, creat)
    BY <1>1, <1>4
  <2>2. CASE /\ Seen(t.vol) = Seen(s.vol)
             /\ \E i \in SlotsOf(dir, n) : t.file = Opened(i, dir[i], w)
    <3>1. PICK i \in SlotsOf(dir, n) : t.file = Opened(i, dir[i], w)
      BY <2>2
    <3>2. i \in 1 .. DirSlots /\ dir[i].name = n
      BY DEF SlotsOf, Searched
    <3>3. CardOK(open, H, t.vol, q, fits)
      BY <1>1, <1>2, <2>2, QuietStep
    <3>4. OpenedOK(Opened(i, Dir(Seen(t.vol))[i], w), n, t.vol, q)
      BY <3>2, <3>3, <2>1, <2>2, JustOpened
    <3>5. OpenedOK(t.file, n, t.vol, q)
      BY <3>1, <3>4, <2>2
    <3>6. t.file.writable = w /\ ~t.file.dirDirty
      BY <3>1 DEF Opened
    <3>7. QED
      BY <1>1, <2>1, <3>3, <3>5, <3>6 DEF t
  <2>3. CASE /\ creat /\ SlotsOf(dir, n) = {}
             /\ \E i \in EmptySlots(dir) :
                   /\ DirTo(s, t, [dir EXCEPT ![i] = [NoEntry EXCEPT !.name = n]])
                   /\ t.file = Opened(i, NoEntry, w)
    <3>1. PICK i \in EmptySlots(dir) :
             /\ DirTo(s, t, [dir EXCEPT ![i] = [NoEntry EXCEPT !.name = n]])
             /\ t.file = Opened(i, NoEntry, w)
      BY <2>3
    <3>2. /\ CardOK(open, H, t.vol, q, fits) /\ q[n] = <<>> /\ i \in 1 .. DirSlots
          /\ Dir(Seen(t.vol))[i] = [NoEntry EXCEPT !.name = n]
          /\ NoWriter(open, H, n)
      <4>1. /\ SlotsOf(dir, n) = {}
            /\ Dir(Seen(t.vol)) = [dir EXCEPT ![i] = [NoEntry EXCEPT !.name = n]]
        BY <3>1, <2>3 DEF DirTo
      <4>2. Fat(Seen(t.vol)) = Fat(Seen(s.vol))
        BY <3>1, DirLeavesFat
      <4>3. QED
        BY <4>1, <4>2, <1>1, <1>2, <3>1, NewEntryStep
    <3> DEFINE e == [NoEntry EXCEPT !.name = n]
    <3>3. e.name = n /\ Opened(i, e, w) = Opened(i, NoEntry, w)
      BY DEF NoEntry, Opened
    <3> HIDE DEF e
    <3>4. Dir(Seen(t.vol))[i] = e
      BY <3>2 DEF e
    <3>5. OpenedOK(Opened(i, Dir(Seen(t.vol))[i], w), n, t.vol, q)
      BY <3>2, <3>3, <3>4, <2>1, JustOpened
    <3>6. OpenedOK(t.file, n, t.vol, q)
      BY <3>1, <3>3, <3>4, <3>5
    <3>7. t.file.writable = w /\ ~t.file.dirDirty
      BY <3>1 DEF Opened
    <3>8. QED
      BY <1>1, <2>1, <3>2, <3>6, <3>7 DEF t
  <2>4. QED
    BY <2>1, <2>2, <2>3 DEF OpenedFile
<1>5. QED
  BY <1>3, <1>4

\* A handle for the file.
LEMMA OpenCallIs ==
    ASSUME NEW s, NEW q, Sound(s, q), s.ok,
           NEW open, NEW H, NEW fits, CardOK(open, H, s.vol, q, fits), NEW n \in Name,
           NEW w \in BOOLEAN, w => NoWriter(open, H, n), NEW creat,
           NEW h \in H, open[h] = Closed
    PROVE  LET t == openFile(s, n, w, creat)
           IN  /\ Sound(t, q) /\ CardOK(open, H, t.vol, q, fits)
               /\ t.ok => /\ t.file.writable = w
                          /\ At(t, [open EXCEPT ![h] = One(t.file, n)], H, h, n, q, fits)
<1> DEFINE t == openFile(s, n, w, creat)
<1>1. /\ Sound(t, q) /\ CardOK(open, H, t.vol, q, fits)
      /\ t.ok => /\ ~Stuck(t.vol) /\ t.file.writable = w /\ ~t.file.dirDirty
                 /\ OpenedOK(t.file, n, t.vol, q)
  BY OpenIs
<1> HIDE DEF t
<1> DEFINE open2 == [open EXCEPT ![h] = One(t.file, n)]
<1>2. t.ok => CardOK(open2, H, t.vol, q, fits)
  BY <1>1, OpenStep
<1>3. open2[h] = One(t.file, n)
  <2>1. open = [g \in H |-> open[g]]
    BY DEF CardOK, OpenOK
  <2>2. QED
    BY <2>1
<1> HIDE DEF open2
<1>4. t.ok => At(t, open2, H, h, n, q, fits)
  BY <1>1, <1>2, <1>3 DEF At
<1>5. QED
  BY <1>1, <1>4 DEF t, open2

\* SD.open(name, FILE_WRITE)
LEMMA OpenWriteIs ==
    ASSUME NEW s, NEW q, Sound(s, q), s.ok,
           NEW open, NEW H, NEW fits, CardOK(open, H, s.vol, q, fits), NEW n \in Name,
           NoWriter(open, H, n), NEW h \in H, open[h] = Closed
    PROVE  LET t == openWrite(s, n)
           IN  /\ Sound(t, q)
               /\ ~t.ok => CardOK(open, H, t.vol, q, fits)
               /\ t.ok => /\ t.file.writable
                          /\ At(t, [open EXCEPT ![h] = One(t.file, n)], H, h, n, q, fits)
<1> DEFINE t == openWrite(s, n)  u == openFile(s, n, TRUE, TRUE)
           a == seekSet(u, u.file.fileSize_)  b == [a EXCEPT !.ok = TRUE]
           open1 == [open EXCEPT ![h] = One(u.file, n)]
           open2 == [open1 EXCEPT ![h] = One(a.file, n)]
<1>1. /\ Sound(u, q) /\ CardOK(open, H, u.vol, q, fits)
      /\ u.ok => u.file.writable = TRUE /\ At(u, open1, H, h, n, q, fits)
  <2>1. TRUE \in BOOLEAN
    OBVIOUS
  <2> HIDE DEF t, a, b
  <2>2. QED
    BY <2>1, OpenCallIs
<1>2. t = IF u.ok THEN b ELSE u
  BY DEF openWrite, Then
<1> HIDE DEF t, u
<1>3. CASE ~u.ok
  BY <1>1, <1>2, <1>3 DEF t
<1>4. CASE u.ok
  <2>1. u.file.fileSize_ \in Nat /\ u.file.writable = TRUE /\ At(u, open1, H, h, n, q, fits)
    <3>1. FileOK(u.file, q[n], u.vol)
      BY <1>1, <1>4, AtIs
    <3>2. QED
      BY <3>1, <1>1, <1>4 DEF FileOK, BeginsAt
  <2> HIDE DEF open1
  <2>2. At(a, open2, H, h, n, q, fits)
    <3>1. u.file.fileSize_ <= u.file.fileSize_
      BY <2>1
    <3> HIDE DEF b
    <3>2. QED
      BY <3>1, <2>1, <1>4, SeekStep
  <2>3. a.file.writable
    <3>1. FileOK(u.file, q[n], u.vol) /\ n \in Name /\ Sound(u, q)
      BY <2>1, AtIs DEF At
    <3> HIDE DEF b, open2
    <3>2. a.file = [u.file EXCEPT !.curCluster_ = a.file.curCluster_,
                                  !.curPosition_ = a.file.curPosition_]
      <4>1. u.file.fileSize_ <= u.file.fileSize_
        BY <2>1
      <4>2. QED
        BY <4>1, <3>1, <2>1, <1>4, SeekIs
    <3> HIDE DEF a
    <3>3. IsFile(u.file)
      BY <3>1 DEF FileOK
    <3>4. QED
      BY <3>2, <3>3, <2>1 DEF IsFile, FileFields
  <2> HIDE DEF a
  <2>4. Sound(b, q) /\ b.ok = TRUE /\ b.vol = a.vol /\ b.file = a.file
    BY <2>2, OkSet DEF At
  <2> HIDE DEF b
  <2>5. open2 = [open EXCEPT ![h] = One(b.file, n)]
    <3>1. open = [g \in H |-> open[g]]
      BY DEF CardOK, OpenOK
    <3>2. QED
      BY <3>1, <2>4 DEF open1
  <2> HIDE DEF open2
  <2>6. At(b, open2, H, h, n, q, fits)
    BY <2>2, <2>4 DEF At
  <2>7. t = b
    BY <1>2, <1>4
  <2>8. QED
    BY <2>3, <2>4, <2>5, <2>6, <2>7 DEF t
<1>5. QED
  BY <1>3, <1>4

\* SD.exists(name)
LEMMA ExistsIs ==
    ASSUME NEW s, NEW q, Sound(s, q), s.ok,
           NEW open, NEW H, NEW fits, CardOK(open, H, s.vol, q, fits), NEW n \in Name
    PROVE  CardOK(open, H, exists(s, n).vol, q, fits)
<1> DEFINE u == openFile(s, n, FALSE, FALSE)  t == sync(u)
<1>1. /\ Sound(u, q) /\ CardOK(open, H, u.vol, q, fits)
      /\ u.ok => /\ ~Stuck(u.vol) /\ u.file.writable = FALSE /\ ~u.file.dirDirty
                 /\ OpenedOK(u.file, n, u.vol, q)
  <2>1. FALSE \in BOOLEAN
    OBVIOUS
  <2> HIDE DEF t
  <2>2. QED
    BY <2>1, OpenIs
<1>2. exists(s, n) = IF u.ok THEN t ELSE u
  BY DEF exists, openRead, Then
<1> HIDE DEF u
<1>3. CASE u.ok
  <2>1. u.file.dirIndex_ \in 1 .. DirSlots /\ u.file.dirDirty = FALSE
    BY <1>1, <1>3 DEF OpenedOK, FileOK
  <2>2. /\ Sound(t, q) /\ (Stuck(t.vol) <=> Stuck(u.vol))
        /\ ~t.ok => Seen(t.vol) = Seen(u.vol)
        /\ t.ok => DirTo(u, t, IF u.file.dirDirty
                                 THEN [Dir(Seen(u.vol)) EXCEPT ![u.file.dirIndex_] =
                                          EntryOf(Dir(Seen(u.vol))[u.file.dirIndex_], u.file)]
                                 ELSE Dir(Seen(u.vol)))
    <3>1. u.file.dirDirty \in BOOLEAN
      BY <2>1
    <3>2. QED
      BY <3>1, <2>1, <1>1, <1>3, SyncIs
  <2> HIDE DEF t
  <2>3. /\ Dir(Seen(t.vol)) = Dir(Seen(u.vol)) /\ VolOK(t.vol, q)
        /\ Fat(Seen(t.vol)) = Fat(Seen(u.vol))
    <3>1. VolOK(t.vol, q)
      BY <2>2, SoundIsVol
    <3>2. CASE ~t.ok
      BY <3>1, <3>2, <2>2
    <3>3. CASE t.ok
      <4>1. DirTo(u, t, Dir(Seen(u.vol)))
        BY <3>3, <2>1, <2>2
      <4>2. QED
        BY <4>1, <3>1, DirLeavesFat DEF DirTo
    <3>4. QED
      BY <3>2, <3>3
  <2>4. CardOK(open, H, t.vol, q, fits)
    BY <2>2, <2>3, <1>1, QuietStep
  <2>5. QED
    BY <2>4, <1>2, <1>3
<1>4. QED
  BY <1>1, <1>2, <1>3

\* SD.remove(name), of a file that is not open.
LEMMA RemoveIs ==
    ASSUME NEW s, NEW q, Sound(s, q), s.ok,
           NEW open, NEW H, NEW fits, CardOK(open, H, s.vol, q, fits), NEW n \in Name,
           \A h \in H : open[h] # Closed => TheName(open[h]) # n
    PROVE  LET t == remove(s, n)
           IN  \E r : Sound(t, r) /\ CardOK(open, H, t.vol, r, fits)
<1> DEFINE u == openFile(s, n, TRUE, FALSE)  t == removeFile(u)
           i == u.file.dirIndex_  r == [q EXCEPT ![n] = <<>>]
<1>1. /\ Sound(u, q) /\ CardOK(open, H, u.vol, q, fits)
      /\ u.ok => /\ ~Stuck(u.vol) /\ u.file.writable = TRUE /\ ~u.file.dirDirty
                 /\ OpenedOK(u.file, n, u.vol, q)
  <2>1. TRUE \in BOOLEAN /\ NoWriter(open, H, n)
    BY DEF NoWriter, Writes
  <2> HIDE DEF t, i
  <2>2. QED
    BY <2>1, OpenIs
<1>2. remove(s, n) = IF u.ok THEN t ELSE u
  BY DEF remove, Then
<1> HIDE DEF u
<1>3. CASE u.ok
  <2>1. FileOK(u.file, q[n], u.vol) /\ u.file.writable /\ i \in 1 .. DirSlots
        /\ Dir(Seen(u.vol))[i].name = n
    BY <1>1, <1>3 DEF OpenedOK, FileOK
  <2>2. /\ Sound(t, r) /\ t.ok /\ ~Stuck(t.vol)
        /\ DirBut(u, t, i) /\ Dir(Seen(t.vol))[i].name = NameDeleted
        /\ Covered(u.vol, q) /\ (u.file.fileSize_ = 0 => q[n] = <<>>) => Covered(t.vol, r)
    BY <2>1, <1>1, <1>3, RemoveFileIs
  <2> HIDE DEF t, i
  <2>3. VolOK(t.vol, r)
    BY <2>2, SoundIsVol
  <2>4. fits => Covered(t.vol, r)
    <3>1. SUFFICES ASSUME fits PROVE Covered(t.vol, r)
      OBVIOUS
    <3>2. Fine(open, H, u.vol, q) /\ ~Stuck(u.vol)
      BY <3>1, <1>1, <1>3 DEF CardOK
    <3>3. u.file.fileSize_ = 0 => q[n] = <<>>
      <4> DEFINE e == Dir(Seen(u.vol))[i]
      <4>1. Agrees(e, u.file) /\ NoWriter(open, H, n)
        BY <1>1, <1>3 DEF OpenedOK, NoWriter, Writes, i
      <4>2. u.file.fileSize_ = 0 => e.fileSize = 0
        BY <4>1, <1>1, <1>3 DEF Agrees
      <4>3. QED
        BY <4>1, <4>2, <3>2, <2>1 DEF Fine, Filled
    <3>4. QED
      BY <3>2, <3>3, <2>2 DEF Fine
  <2>5. CardOK(open, H, t.vol, r, fits)
    BY <2>1, <2>2, <2>3, <2>4, <1>1, <1>3, RemoveStep DEF DirBut
  <2> HIDE DEF r
  <2>6. QED
    BY <2>2, <2>5, <1>2, <1>3
<1>4. CASE ~u.ok
  BY <1>1, <1>2, <1>4
<1>5. QED
  BY <1>3, <1>4

----------------------------------------------------------------------------
(* A handle of the program's own, as write_file has one *)

\* A handle more or less, that is closed, makes no difference.
LEMMA MoreHandles ==
    ASSUME NEW open, NEW H, NEW v, NEW q, NEW fits, CardOK(open, H, v, q, fits), NEW x, x \notin H
    PROVE  CardOK([h \in H \cup {x} |-> IF h = x THEN Closed ELSE open[h]],
                  H \cup {x}, v, q, fits)
<1> DEFINE H2 == H \cup {x}  open2 == [h \in H2 |-> IF h = x THEN Closed ELSE open[h]]
           dir == Dir(Seen(v))
<1>1. open2[x] = Closed /\ \A h \in H : open2[h] = open[h] /\ h # x
  OBVIOUS
<1>2. open2 = [h \in H2 |-> open2[h]]
  OBVIOUS
<1>3. \A h \in H2 : h = x \/ h \in H
  OBVIOUS
<1> HIDE DEF open2, H2
<1>4. \A m : NoWriter(open2, H2, m) => NoWriter(open, H, m)
  BY <1>1 DEF NoWriter, Writes, H2
<1>5. ~Stuck(v) => \A i \in 1 .. DirSlots :
          dir[i].name \in Name /\ dir[i].firstCluster = 0 /\ NoWriter(open2, H2, dir[i].name)
            => q[dir[i].name] = <<>>
  BY <1>4 DEF CardOK, OpenOK
<1>6. \A g \in H2 : open2[g] # Closed =>
          /\ open2[g] = One(TheFile(open2[g]), TheName(open2[g]))
          /\ OpenedOK(TheFile(open2[g]), TheName(open2[g]), v, q)
  BY <1>1, <1>3 DEF CardOK, OpenOK
<1>7. \A m \in Name : \A g, k \in H2 : Writes(open2, g, m) /\ Writes(open2, k, m) => g = k
  BY <1>1, <1>3 DEF CardOK, OpenOK, Writes
<1>8. OpenOK(open2, H2, v, q)
  BY <1>2, <1>5, <1>6, <1>7 DEF OpenOK
<1>9. ASSUME Filled(open, H, v, q) PROVE Filled(open2, H2, v, q)
  BY <1>1, <1>3, <1>4, <1>9 DEF Filled
<1>10. QED
  BY <1>8, <1>9 DEF CardOK, Fine, open2, H2

LEMMA FewerHandles ==
    ASSUME NEW open, NEW H, NEW v, NEW q, NEW fits, NEW x, x \notin H,
           CardOK(open, H \cup {x}, v, q, fits), open[x] = Closed
    PROVE  CardOK([h \in H |-> open[h]], H, v, q, fits)
<1> DEFINE H2 == H \cup {x}  open2 == [h \in H |-> open[h]]  dir == Dir(Seen(v))
<1>1. /\ open2 = [h \in H |-> open2[h]]
      /\ \A h \in H : open2[h] = open[h] /\ h \in H2
      /\ \A h \in H2 : h \in H \/ h = x
  OBVIOUS
<1>2. CardOK(open, H2, v, q, fits)
  OBVIOUS
<1> HIDE DEF open2, H2
<1>3. \A m : NoWriter(open2, H, m) => NoWriter(open, H2, m)
  BY <1>1 DEF NoWriter, Writes
<1>4. ~Stuck(v) => \A i \in 1 .. DirSlots :
          dir[i].name \in Name /\ dir[i].firstCluster = 0 /\ NoWriter(open2, H, dir[i].name)
            => q[dir[i].name] = <<>>
  BY <1>2, <1>3 DEF CardOK, OpenOK
<1>5. \A g \in H : open2[g] # Closed =>
          /\ open2[g] = One(TheFile(open2[g]), TheName(open2[g]))
          /\ OpenedOK(TheFile(open2[g]), TheName(open2[g]), v, q)
  BY <1>1, <1>2 DEF CardOK, OpenOK
<1>6. \A m \in Name : \A g, k \in H : Writes(open2, g, m) /\ Writes(open2, k, m) => g = k
  <2>1. \A m \in Name : \A g, k \in H2 : Writes(open, g, m) /\ Writes(open, k, m) => g = k
    BY <1>2 DEF CardOK, OpenOK
  <2>2. \A m : \A h \in H : Writes(open2, h, m) => Writes(open, h, m) /\ h \in H2
    BY <1>1 DEF Writes
  <2>3. QED
    BY <2>1, <2>2
<1>7. OpenOK(open2, H, v, q)
  BY <1>1, <1>4, <1>5, <1>6 DEF OpenOK
<1>8. ASSUME Filled(open, H2, v, q) PROVE Filled(open2, H, v, q)
  BY <1>1, <1>3, <1>8 DEF Filled
<1>9. QED
  BY <1>2, <1>7, <1>8 DEF CardOK, Fine, open2

LEMMA BytesAre ==
    ASSUME NEW n, NEW a, NEW i, NEW k \in Nat \ {0}
    PROVE  \E A : Bytes(n, a, i, k) \in Seq(A) /\ Len(Bytes(n, a, i, k)) > 0
<1> DEFINE A == {Byte(n, a, i + j) : j \in 1 .. k}
<1>1. Bytes(n, a, i, k) \in [1 .. k -> A]
  BY DEF Bytes
<1> HIDE DEF A
<1>2. Bytes(n, a, i, k) \in Seq(A) /\ Len(Bytes(n, a, i, k)) > 0
  BY <1>1
<1>3. QED
  BY <1>2

LEMMA NewSound ==
    ASSUME NEW v, NEW q, VolOK(v, q)
    PROVE  LET s == Call(v, NoFile) IN Sound(s, q) /\ s.ok /\ s.vol = v
<1>1. IsFile(NoFile)
  BY OpenedIs DEF NoFile
<1>2. QED
  BY <1>1, CallSound

\* A card in order is in order whether or not what was written has fitted.
LEMMA Whatever ==
    ASSUME NEW open, NEW H, NEW v, NEW q, NEW fits, CardOK(open, H, v, q, fits), NEW b
    PROVE  CardOK(open, H, v, q, fits /\ b)
  BY DEF CardOK

\* write_file, by itself.
LEMMA TotalIs ==
    ASSUME NEW q, NEW fits, CardOK(files, Handle, volume, q, fits),
           NEW n \in Name, OpenAs(n) = {}
    PROVE  \E r : CardOK(files, Handle, TotalCall(n).vol, r, fits /\ TotalCall(n).ok)
<1>1. PICK x : x \notin Handle
  <2> DEFINE R == {y \in Handle : y \notin y}
  <2>1. R \notin Handle
    OBVIOUS
  <2>2. QED
    BY <2>1
<1> DEFINE H2 == Handle \cup {x}
           open == [h \in H2 |-> IF h = x THEN Closed ELSE files[h]]
           a == remove(New, n)
           b == [a EXCEPT !.ok = TRUE, !.file = NoFile]
           c == openWrite(b, n)
           bytes == Bytes(n, age[n] + 1, 0, RowSize)
           d == write(c, bytes)
           e == [d EXCEPT !.ok = TRUE]
           g == sync(e)
           closed == [g EXCEPT !.ok = d.ok]
           t == TotalCall(n)
<1>2. t = IF c.ok THEN closed ELSE c
  BY DEF TotalCall, Then
<1> HIDE DEF t, a
<1>3. files = [h \in Handle |-> files[h]]
  BY DEF CardOK, OpenOK
<1>4. /\ CardOK(open, H2, volume, q, fits) /\ open[x] = Closed
      /\ \A h \in H2 : open[h] # Closed => TheName(open[h]) # n
      /\ \A h \in Handle : open[h] = files[h]
      /\ open = [h \in H2 |-> open[h]]
  <2>1. CardOK(open, H2, volume, q, fits)
    BY <1>1, MoreHandles
  <2>2. \A h \in Handle : files[h] # Closed => TheName(files[h]) # n
    BY DEF OpenAs, IsOpen, NameOf, TheName
  <2>3. QED
    BY <2>1, <2>2, <1>1
<1> HIDE DEF open
<1>5. PICK r : Sound(a, r) /\ CardOK(open, H2, a.vol, r, fits)
  <2>1. VolOK(volume, q)
    BY DEF CardOK
  <2> DEFINE s == New
  <2>2. Sound(s, q) /\ s.ok /\ s.vol = volume
    BY <2>1, NewSound DEF New
  <2> HIDE DEF s, b, c, d, e, g, closed
  <2>3. LET z == remove(s, n) IN \E r : Sound(z, r) /\ CardOK(open, H2, z.vol, r, fits)
    BY <2>2, <1>4, RemoveIs
  <2>4. QED
    BY <2>3 DEF a, s
<1>6. Sound(b, r) /\ b.ok /\ b.vol = a.vol
  <2>1. IsFile(NoFile)
    BY OpenedIs DEF NoFile
  <2>2. IsCall(b) /\ b.ok /\ b.vol = a.vol
    BY <2>1, <1>5 DEF Sound, IsCall, CallFields
  <2> HIDE DEF b
  <2>3. QED
    BY <2>2, <1>5 DEF Sound
<1> HIDE DEF b
<1> DEFINE open1 == [open EXCEPT ![x] = One(c.file, n)]
<1>7. /\ Sound(c, r)
      /\ ~c.ok => CardOK(open, H2, c.vol, r, fits)
      /\ c.ok => c.file.writable /\ At(c, open1, H2, x, n, r, fits)
  <2>1. NoWriter(open, H2, n) /\ x \in H2
    BY <1>4 DEF NoWriter, Writes
  <2> HIDE DEF d, e, g, closed
  <2>2. QED
    BY <2>1, <1>4, <1>5, <1>6, OpenWriteIs
<1> HIDE DEF c, open1
<1>8. ASSUME NEW y, NEW v, NEW u, NEW m, CardOK(y, H2, v, u, m), y[x] = Closed,
             \A h \in Handle : y[h] = files[h]
      PROVE  CardOK(files, Handle, v, u, m)
  <2>1. CardOK([h \in Handle |-> y[h]], Handle, v, u, m)
    BY <1>1, <1>8, FewerHandles
  <2>2. [h \in Handle |-> y[h]] = [h \in Handle |-> files[h]]
    BY <1>8
  <2>3. [h \in Handle |-> y[h]] = files
    BY <2>2, <1>3
  <2>4. QED
    BY <2>1, <2>3
<1>9. CASE ~c.ok
  <2>1. CardOK(files, Handle, c.vol, r, fits)
    BY <1>4, <1>7, <1>8, <1>9
  <2>2. CardOK(files, Handle, c.vol, r, fits /\ c.ok)
    BY <2>1, Whatever
  <2>3. QED
    BY <2>2, <1>2, <1>9 DEF t
<1>10. CASE c.ok
  <2> DEFINE open2 == [open1 EXCEPT ![x] = One(d.file, n)]
  <2>1. PICK u : At(d, open2, H2, x, n, u, fits /\ d.ok)
    <3>1. PICK A : bytes \in Seq(A) /\ Len(bytes) > 0
      <4>1. RowSize \in Nat \ {0}
        BY CardAssumption DEF CardAssumption
      <4>2. QED
        BY <4>1, BytesAre
    <3> HIDE DEF bytes, e, g, closed
    <3>2. QED
      BY <3>1, <1>7, <1>10, WriteStep
  <2>2. d.ok \in BOOLEAN
    BY <2>1 DEF At, Sound, IsCall
  <2> DEFINE fits2 == fits /\ d.ok
  <2> HIDE DEF d, open2
  <2>3. At(e, open2, H2, x, n, u, fits2) /\ e.ok
    <3>1. Sound(e, u) /\ e.ok = TRUE /\ e.vol = d.vol /\ e.file = d.file
      BY <2>1, OkSet DEF At
    <3> HIDE DEF e
    <3>2. QED
      BY <3>1, <2>1 DEF At
  <2> HIDE DEF e
  <2>4. Sound(g, u) /\ CardOK([open2 EXCEPT ![x] = Closed], H2, g.vol, u, fits2)
    <3> HIDE DEF closed, fits2
    <3>1. QED
      BY <2>3, CloseCall
  <2> HIDE DEF g
  <2>5. closed.vol = g.vol /\ closed.ok = d.ok
    BY <2>4 DEF Sound, IsCall, CallFields
  <2> DEFINE y == [open2 EXCEPT ![x] = Closed]
  <2>6. y[x] = Closed /\ \A h \in Handle : y[h] = files[h]
    BY <1>1, <1>4 DEF open2, open1
  <2> HIDE DEF y
  <2> HIDE DEF fits2
  <2>7. CardOK(files, Handle, g.vol, u, fits2)
    BY <2>4, <2>6, <1>8 DEF y
  <2> HIDE DEF closed
  <2>8. QED
    BY <2>5, <2>7, <1>2, <1>10 DEF t, fits2
<1>11. QED
  BY <1>9, <1>10

----------------------------------------------------------------------------
(* The invariant *)

\* Without a power loss there are chains of clusters that the FAT, the
\* directory and the open files agree on; and as long as all writes have fitted,
\* every cluster in use is of one of them.
Inv ==
    /\ losses \in Nat
    /\ losses = 0 => \E q : CardOK(files, Handle, volume, q, ~spilled)

\* A formatted card has no chains.
LEMMA InitVolume ==
    /\ VolOK(Mounted(Formatted), [n \in Name |-> <<>>])
    /\ Covered(Mounted(Formatted), [n \in Name |-> <<>>])
<1> DEFINE v == Mounted(Formatted)  q == [n \in Name |-> <<>>]  bpf == blocksPerFat_
<1>1. /\ IsVolume(v) /\ v.card = Formatted /\ v.cacheDirty_ = FALSE
      /\ v.cacheBlockNumber_ = 0 /\ v.cacheMirrorBlock_ = 0
      /\ v.cacheBuffer_ = Formatted[0] /\ v.allocSearchStart_ = 2
  BY DEF Mounted, IsVolume, VolumeFields
<1>2. \A b \in FatBlocks :
         /\ (b - fatStartBlock_) % bpf = b - fatStartBlock_
         /\ ((b + bpf) - fatStartBlock_) % bpf = b - fatStartBlock_
  <2> SUFFICES ASSUME NEW b \in FatBlocks
               PROVE  /\ (b - fatStartBlock_) % bpf = b - fatStartBlock_
                      /\ ((b + bpf) - fatStartBlock_) % bpf = b - fatStartBlock_
    OBVIOUS
  <2> DEFINE k == b - fatStartBlock_  m == (b + bpf) - fatStartBlock_
  <2>1. bpf \in Nat \ {0} /\ k \in Int /\ 0 <= k /\ k < bpf /\ m = bpf + k /\ m \in Int
    BY Geometry DEF FatBlocks, fatStartBlock_
  <2> HIDE DEF k, m, bpf
  <2>2. bpf * 0 <= k /\ k < bpf * 0 + bpf /\ bpf * 1 <= m /\ m < bpf * 1 + bpf
    BY <2>1
  <2>3. k % bpf = k - bpf * 0 /\ m % bpf = m - bpf * 1
    <3>1. k % bpf = k - bpf * 0
      BY <2>1, <2>2, 0 \in Int, EuclidUnique, Zenon
    <3>2. m % bpf = m - bpf * 1
      BY <2>1, <2>2, 1 \in Int, EuclidUnique, Zenon
    <3>3. QED
      BY <3>1, <3>2
  <2>4. k % bpf = k /\ m % bpf = k
    BY <2>1, <2>3
  <2>5. QED
    BY <2>4 DEF k, m
<1>3. ASSUME NEW b \in FatBlocks
      PROVE  /\ Formatted[b] = FatContent(b - fatStartBlock_)
             /\ Formatted[b + bpf] = FatContent(b - fatStartBlock_)
  <2>1. /\ b \in fatStartBlock_ .. rootDirStart_ - 1 /\ b \in Blocks /\ b # 0
        /\ b + bpf \in fatStartBlock_ .. rootDirStart_ - 1 /\ b + bpf \in Blocks /\ b + bpf # 0
    <3>1. b \in Blocks /\ b + bpf \in Blocks
      BY Regions DEF SeenBlocks
    <3>2. QED
      BY <3>1, Geometry DEF FatBlocks, fatStartBlock_
  <2>2. \A x \in Blocks : \A y :
            /\ x # 0 /\ x \in fatStartBlock_ .. rootDirStart_ - 1
            /\ y = (x - fatStartBlock_) % bpf
            => Formatted[x] = FatContent(y)
    BY DEF Formatted
  <2> DEFINE k == (b - fatStartBlock_) % bpf  m == ((b + bpf) - fatStartBlock_) % bpf
  <2>3. k = (b - fatStartBlock_) % bpf /\ m = ((b + bpf) - fatStartBlock_) % bpf
    OBVIOUS
  <2>4. k = b - fatStartBlock_ /\ m = b - fatStartBlock_
    BY <1>2
  <2> HIDE DEF k, m, bpf
  <2>5. Formatted[b] = FatContent(k)
    BY <2>1, <2>2, <2>3
  <2>6. Formatted[b + bpf] = FatContent(m)
    BY <2>1, <2>2, <2>3
  <2>7. QED
    BY <2>4, <2>5, <2>6
<1>4. Formatted = [b \in Blocks |-> Formatted[b]]
  BY DEF Formatted
<1>5. 0 \in SeenBlocks /\ 0 \notin FatBlocks /\ 0 # NoBlock
  BY Regions DEF NoBlock
<1>6. CacheOK(v)
  BY <1>1, <1>3, <1>4, <1>5 DEF CacheOK
<1>7. Formatted[rootDirStart_] = [i \in 1 .. DirSlots |-> NoEntry]
  <2>1. rootDirStart_ \in Blocks /\ rootDirStart_ # 0
        /\ rootDirStart_ \notin fatStartBlock_ .. rootDirStart_ - 1
    BY Regions, Geometry DEF SeenBlocks
  <2>2. QED
    BY <2>1 DEF Formatted
<1> HIDE DEF v, bpf
<1>8. \A b \in SeenBlocks : Seen(v)[b] = Formatted[b]
  BY <1>1, <1>6, SeenIs
<1>9. rootDirStart_ \in SeenBlocks /\ FatBlocks \subseteq SeenBlocks
  BY Regions
<1>10. \A b \in FatBlocks : Seen(v)[b] = FatContent(b - fatStartBlock_)
  BY <1>3, <1>8, <1>9
<1>11. Dir(Seen(v)) = [i \in 1 .. DirSlots |-> NoEntry]
  BY <1>7, <1>8, <1>9 DEF Dir
<1>12. WellFormed(Seen(v))
  <2>1. DOMAIN Seen(v) = SeenBlocks
    BY <1>6, SeenIs
  <2>2. IsEntry(NoEntry)
    BY DEF IsEntry, EntryFields, NoEntry
  <2>3. \A b \in FatBlocks : Seen(v)[b] = [c \in FatDomain(b) |-> Seen(v)[b][c]]
    BY <1>10 DEF FatContent, FatDomain
  <2>4. QED
    BY <2>1, <2>2, <2>3, <1>11 DEF WellFormed, Dir
<1>13. \A c \in Clusters : Fat(Seen(v))[c] = FREE
  <2> SUFFICES ASSUME NEW c \in Clusters PROVE Fat(Seen(v))[c] = FREE
    OBVIOUS
  <2>1. fatBlock(c) \in FatBlocks /\ c \in FatDomain(fatBlock(c)) /\ ~(c < 2)
    BY Geometry, InItsBlock DEF Clusters
  <2>2. Seen(v)[fatBlock(c)][c] = FREE
    BY <2>1, <1>10 DEF FatContent, FatDomain
  <2>3. QED
    BY <2>2 DEF Fat
<1>14. Chained(Fat(Seen(v)), q)
  <2>1. Fat(Seen(v)) \in [Clusters -> Clusters \cup {FREE, EOC}]
    <3>1. Fat(Seen(v)) = [c \in Clusters |-> Fat(Seen(v))[c]]
      BY DEF Fat
    <3>2. QED
      BY <3>1, <1>13
  <2>2. q \in [Name -> Seq(Clusters)] /\ \A n \in Name : Len(q[n]) = 0
    OBVIOUS
  <2> HIDE DEF q
  <2>3. \A n \in Name : 1 .. Len(q[n]) = {}
    BY <2>2
  <2>4. QED
    BY <2>1, <2>2, <2>3 DEF Chained
<1>15. v.allocSearchStart_ \in 2 .. clusterCount_ + 2
  BY <1>1
<1>16. QED
  BY <1>6, <1>12, <1>13, <1>14, <1>15 DEF VolOK, Covered, v

LEMMA InitInv == Init => Inv
<1> SUFFICES ASSUME Init PROVE Inv
  OBVIOUS
<1> DEFINE q == [n \in Name |-> <<>>]  v == Mounted(Formatted)
<1>1. VolOK(v, q) /\ Covered(v, q) /\ volume = v
  BY InitVolume DEF Init
<1>2. Dir(Seen(v)) = [i \in 1 .. DirSlots |-> NoEntry]
  <2>1. /\ v.card = Formatted /\ v.cacheDirty_ = FALSE
    BY DEF Mounted
  <2>2. rootDirStart_ \in SeenBlocks /\ rootDirStart_ \in Blocks /\ rootDirStart_ # 0
        /\ rootDirStart_ \notin fatStartBlock_ .. rootDirStart_ - 1
    BY Regions, Geometry DEF SeenBlocks
  <2>3. Formatted[rootDirStart_] = [i \in 1 .. DirSlots |-> NoEntry]
    BY <2>2 DEF Formatted
  <2> HIDE DEF v
  <2>4. QED
    BY <2>1, <2>2, <2>3 DEF Dir, Seen, View
<1> HIDE DEF v
<1>3. \A i \in 1 .. DirSlots : Dir(Seen(v))[i].name = NameFree
  BY <1>2 DEF NoEntry
<1>4. NameFree \notin Name
  BY CardAssumption DEF CardAssumption
<1>5. DirOK(Dir(Seen(v)), q)
  BY <1>3, <1>4 DEF DirOK
<1>6. files = [h \in Handle |-> files[h]] /\ \A h \in Handle : files[h] = Closed
  BY DEF Init
<1>7. OpenOK(files, Handle, v, q)
  BY <1>3, <1>4, <1>6 DEF OpenOK, Writes
<1>8. Filled(files, Handle, v, q)
  BY <1>3, <1>4, <1>6 DEF Filled
<1>9. CardOK(files, Handle, volume, q, ~spilled)
  BY <1>1, <1>5, <1>7, <1>8 DEF CardOK, Fine
<1>10. losses = 0
  BY DEF Init
<1>11. QED
  BY <1>9, <1>10 DEF Inv

----------------------------------------------------------------------------
(* The calls of the program *)

\* The open files of the program are those of the invariant.
LEMMA Handles ==
    ASSUME NEW h
    PROVE  /\ IsOpen(h) <=> files[h] # Closed
           /\ FileOf(h) = TheFile(files[h]) /\ NameOf(h) = TheName(files[h])
  BY DEF IsOpen, FileOf, NameOf, TheFile, TheName

LEMMA NoWriters ==
    ASSUME NEW n, Writers(n) = {} PROVE NoWriter(files, Handle, n)
  BY Handles DEF Writers, OpenAs, NoWriter, Writes

\* After a call for an open file.
LEMMA CalledFor ==
    ASSUME NEW h \in Handle, NEW s, NEW q, NEW fits,
           At(s, [files EXCEPT ![h] = One(s.file, NameOf(h))], Handle, h, NameOf(h), q, fits),
           volume' = s.vol, files' = Holds(h, NameOf(h), s)
    PROVE  CardOK(files', Handle, volume', q, fits)
  BY DEF At, Holds, One

\* Each call of the program keeps the invariant.
LEMMA OpenedForReading ==
    ASSUME NEW q, NEW fits, CardOK(files, Handle, volume, q, fits),
           NEW h \in Handle, NEW n \in Name, OpenForReading(h, n)
    PROVE  \E r : CardOK(files', Handle, volume', r, fits)
<1> DEFINE s == openFile(New, n, FALSE, FALSE)
<1>1. /\ volume' = s.vol
      /\ files' = IF s.ok THEN Holds(h, n, s) ELSE files
      /\ files[h] = Closed
  BY Handles DEF OpenForReading, openRead, Openable
<1>2. Sound(New, q) /\ New.ok /\ New.vol = volume
  BY NewSound DEF New, CardOK
<1>3. /\ CardOK(files, Handle, s.vol, q, fits)
      /\ s.ok => At(s, [files EXCEPT ![h] = One(s.file, n)], Handle, h, n, q, fits)
  <2> DEFINE new == New
  <2>1. Sound(new, q) /\ new.ok /\ CardOK(files, Handle, new.vol, q, fits) /\ FALSE \in BOOLEAN
    BY <1>2
  <2> HIDE DEF new
  <2> DEFINE z == openFile(new, n, FALSE, FALSE)
  <2>2. /\ Sound(z, q) /\ CardOK(files, Handle, z.vol, q, fits)
        /\ z.ok => /\ z.file.writable = FALSE
                   /\ At(z, [files EXCEPT ![h] = One(z.file, n)], Handle, h, n, q, fits)
    BY <2>1, <1>1, OpenCallIs
  <2>3. z = s
    BY DEF new
  <2> HIDE DEF z, s
  <2>4. QED
    BY <2>2, <2>3
<1> HIDE DEF s
<1>4. QED
  BY <1>1, <1>3 DEF At, Holds, One

LEMMA OpenedForWriting ==
    ASSUME NEW q, NEW fits, CardOK(files, Handle, volume, q, fits),
           NEW h \in Handle, NEW n \in Name, OpenForWriting(h, n)
    PROVE  \E r : CardOK(files', Handle, volume', r, fits)
<1> DEFINE s == OpenCall(n)
<1>1. /\ volume' = s.vol
      /\ files' = IF s.ok THEN Holds(h, n, s) ELSE files
      /\ files[h] = Closed /\ NoWriter(files, Handle, n)
  BY Handles, NoWriters DEF OpenForWriting, Openable, MayOpen
<1>2. Sound(New, q) /\ New.ok /\ New.vol = volume
  BY NewSound DEF New, CardOK
<1>3. /\ ~s.ok => CardOK(files, Handle, s.vol, q, fits)
      /\ s.ok => At(s, [files EXCEPT ![h] = One(s.file, n)], Handle, h, n, q, fits)
  <2> DEFINE new == New
  <2>1. Sound(new, q) /\ new.ok /\ CardOK(files, Handle, new.vol, q, fits)
    BY <1>2
  <2> HIDE DEF new
  <2> DEFINE z == openWrite(new, n)
  <2>2. /\ Sound(z, q)
        /\ ~z.ok => CardOK(files, Handle, z.vol, q, fits)
        /\ z.ok => /\ z.file.writable
                   /\ At(z, [files EXCEPT ![h] = One(z.file, n)], Handle, h, n, q, fits)
    BY <2>1, <1>1, OpenWriteIs
  <2>3. z = s
    BY DEF new, OpenCall
  <2> HIDE DEF z, s
  <2>4. QED
    BY <2>2, <2>3
<1> HIDE DEF s
<1>4. QED
  BY <1>1, <1>3 DEF At, Holds, One

\* The call begins with the file of the handle.
LEMMA Starts ==
    ASSUME NEW q, NEW fits, CardOK(files, Handle, volume, q, fits), NEW h \in Handle, IsOpen(h)
    PROVE  /\ At(Start(h), files, Handle, h, NameOf(h), q, fits) /\ Start(h).ok
           /\ Start(h).vol = volume /\ Start(h).file = FileOf(h)
           /\ NameOf(h) \in Name /\ FileOK(FileOf(h), q[NameOf(h)], volume)
<1>1. files[h] # Closed /\ Start(h) = Call(volume, TheFile(files[h]))
      /\ FileOf(h) = TheFile(files[h]) /\ NameOf(h) = TheName(files[h])
  BY Handles DEF Start
<1> DEFINE s == Call(volume, TheFile(files[h]))
<1>2. /\ At(s, files, Handle, h, TheName(files[h]), q, fits) /\ s.ok /\ s.vol = volume
      /\ s.file = TheFile(files[h])
  BY <1>1, StartIs
<1> HIDE DEF s
<1>3. TheName(files[h]) \in Name /\ FileOK(s.file, q[TheName(files[h])], s.vol)
  BY <1>2, AtIs
<1>4. QED
  BY <1>1, <1>2, <1>3 DEF s

LEMMA HasWritten ==
    ASSUME NEW q, CardOK(files, Handle, volume, q, ~spilled),
           NEW h \in Handle, NEW k \in 1 .. MaxAppend, Write(h, k)
    PROVE  \E r : CardOK(files', Handle, volume', r, ~spilled')
<1> DEFINE a == Start(h)  n == NameOf(h)
           bytes == Bytes(n, age[n], FileOf(h).curPosition_, k)
           s == write(a, bytes)
<1>1. /\ volume' = s.vol /\ files' = Holds(h, n, s) /\ IsOpen(h) /\ FileOf(h).writable
      /\ ~spilled' <=> (~spilled /\ s.ok)
  BY DEF Write, WriteCall, MayWrite
<1>2. At(a, files, Handle, h, n, q, ~spilled) /\ a.ok /\ a.file.writable
  BY <1>1, Starts
<1>3. PICK A : bytes \in Seq(A) /\ Len(bytes) > 0
  BY BytesAre
<1> HIDE DEF a, n, bytes
<1>4. PICK r : At(s, [files EXCEPT ![h] = One(s.file, n)], Handle, h, n, r, ~spilled /\ s.ok)
  BY <1>2, <1>3, WriteStep
<1> DEFINE fits == ~spilled /\ s.ok
<1> HIDE DEF s, fits
<1>5. CardOK(files', Handle, volume', r, fits)
  BY <1>1, <1>4, CalledFor DEF n, fits
<1>6. QED
  BY <1>1, <1>5 DEF CardOK, fits

LEMMA HasRead ==
    ASSUME NEW q, NEW fits, CardOK(files, Handle, volume, q, fits), NEW h \in Handle, Read(h)
    PROVE  CardOK(files', Handle, volume', q, fits)
<1> DEFINE a == Start(h)  n == NameOf(h)  s == read(a, BlockSize)
<1>1. /\ volume' = s.vol /\ files' = Holds(h, n, s) /\ IsOpen(h)
      /\ FileOf(h).curPosition_ < FileOf(h).fileSize_
  BY DEF Read
<1>2. /\ At(a, files, Handle, h, n, q, fits) /\ a.ok /\ a.file = FileOf(h)
      /\ FileOK(FileOf(h), q[n], volume)
  BY <1>1, Starts
<1>3. a.file.curPosition_ <= a.file.fileSize_
  BY <1>1, <1>2 DEF FileOK, BeginsAt
<1> HIDE DEF a, n
<1>4. At(s, [files EXCEPT ![h] = One(s.file, n)], Handle, h, n, q, fits)
  BY <1>2, <1>3, ReadStep
<1> HIDE DEF s
<1>5. QED
  BY <1>1, <1>4, CalledFor DEF n

LEMMA HasSought ==
    ASSUME NEW q, NEW fits, CardOK(files, Handle, volume, q, fits), NEW h \in Handle,
           NEW pos \in 0 .. MaxSize, Seek(h, pos)
    PROVE  CardOK(files', Handle, volume', q, fits)
<1> DEFINE a == Start(h)  n == NameOf(h)  s == seekSet(a, pos)
<1>1. /\ volume' = s.vol /\ files' = Holds(h, n, s) /\ IsOpen(h)
      /\ pos \in {0, FileOf(h).fileSize_}
  BY DEF Seek
<1>2. /\ At(a, files, Handle, h, n, q, fits) /\ a.ok /\ a.file = FileOf(h)
      /\ FileOK(FileOf(h), q[n], volume)
  BY <1>1, Starts
<1>3. pos \in Nat /\ pos <= a.file.fileSize_
  BY <1>1, <1>2 DEF FileOK, BeginsAt
<1> HIDE DEF a, n
<1>4. At(s, [files EXCEPT ![h] = One(s.file, n)], Handle, h, n, q, fits)
  BY <1>2, <1>3, SeekStep
<1> HIDE DEF s
<1>5. QED
  BY <1>1, <1>4, CalledFor DEF n

LEMMA HasFlushed ==
    ASSUME NEW q, NEW fits, CardOK(files, Handle, volume, q, fits), NEW h \in Handle, Flush(h)
    PROVE  CardOK(files', Handle, volume', q, fits)
<1> DEFINE a == Start(h)  n == NameOf(h)  s == sync(a)
<1>1. /\ volume' = s.vol /\ files' = Holds(h, n, s) /\ IsOpen(h)
  BY DEF Flush
<1>2. /\ At(a, files, Handle, h, n, q, fits) /\ a.ok
  BY <1>1, Starts
<1> HIDE DEF a, n
<1>3. At(s, [files EXCEPT ![h] = One(s.file, n)], Handle, h, n, q, fits)
  BY <1>2, FlushStep
<1> HIDE DEF s
<1>4. QED
  BY <1>1, <1>3, CalledFor DEF n

LEMMA HasClosed ==
    ASSUME NEW q, NEW fits, CardOK(files, Handle, volume, q, fits), NEW h \in Handle, Close(h)
    PROVE  CardOK(files', Handle, volume', q, fits)
<1> DEFINE a == Start(h)  n == NameOf(h)  s == sync(a)
<1>1. /\ volume' = s.vol /\ files' = [files EXCEPT ![h] = Closed] /\ IsOpen(h)
  BY DEF Close
<1>2. /\ At(a, files, Handle, h, n, q, fits) /\ a.ok
  BY <1>1, Starts
<1> HIDE DEF a, n
<1>3. CardOK([files EXCEPT ![h] = Closed], Handle, s.vol, q, fits)
  BY <1>2, CloseCall
<1> HIDE DEF s
<1>4. QED
  BY <1>1, <1>3

LEMMA HasAsked ==
    ASSUME NEW q, NEW fits, CardOK(files, Handle, volume, q, fits), NEW n \in Name, Exists(n)
    PROVE  CardOK(files', Handle, volume', q, fits)
<1> DEFINE a == New
<1>1. volume' = exists(a, n).vol /\ files' = files
  BY DEF Exists
<1>2. Sound(a, q) /\ a.ok /\ a.vol = volume
  BY NewSound DEF New, CardOK
<1> HIDE DEF a
<1>3. CardOK(files, Handle, exists(a, n).vol, q, fits)
  BY <1>2, ExistsIs
<1>4. QED
  BY <1>1, <1>3

LEMMA NotOpen ==
    ASSUME NEW n, OpenAs(n) = {}
    PROVE  \A h \in Handle : files[h] # Closed => TheName(files[h]) # n
  BY Handles DEF OpenAs

LEMMA HasRemoved ==
    ASSUME NEW q, NEW fits, CardOK(files, Handle, volume, q, fits), NEW n \in Name, Remove(n)
    PROVE  \E r : CardOK(files', Handle, volume', r, fits)
<1> DEFINE a == New  s == remove(a, n)
<1>1. volume' = s.vol /\ files' = files
      /\ \A h \in Handle : files[h] # Closed => TheName(files[h]) # n
  BY NotOpen DEF Remove, MayRemove
<1>2. Sound(a, q) /\ a.ok /\ a.vol = volume
  BY NewSound DEF New, CardOK
<1> HIDE DEF a
<1>3. PICK r : CardOK(files, Handle, s.vol, r, fits)
  BY <1>1, <1>2, RemoveIs
<1> HIDE DEF s
<1>4. QED
  BY <1>1, <1>3

LEMMA HasCounted ==
    ASSUME NEW q, CardOK(files, Handle, volume, q, ~spilled), NEW n \in Name, write_file(n)
    PROVE  \E r : CardOK(files', Handle, volume', r, ~spilled')
<1>1. /\ volume' = TotalCall(n).vol /\ files' = files /\ OpenAs(n) = {}
      /\ ~spilled' <=> (~spilled /\ TotalCall(n).ok)
  BY DEF write_file, MayCount, MayRemove
<1>2. PICK r : CardOK(files, Handle, TotalCall(n).vol, r, ~spilled /\ TotalCall(n).ok)
  BY <1>1, TotalIs
<1>3. QED
  BY <1>1, <1>2 DEF CardOK

\* A power loss is counted.
LEMMA LostPower ==
    ASSUME losses \in Nat, PowerLoss PROVE losses' = losses + 1
  BY DEF PowerLoss, PowerLossIn

\* Every step keeps the invariant.
LEMMA StepInv ==
    ASSUME Inv, [Next]_vars PROVE Inv'
<1>1. CASE vars' = vars
  BY <1>1 DEF Inv, vars
<1>2. CASE PowerLoss
  BY <1>2, LostPower DEF Inv
<1>3. ASSUME losses' = losses,
             losses = 0 => \A q : CardOK(files, Handle, volume, q, ~spilled) =>
                               \E r : CardOK(files', Handle, volume', r, ~spilled')
      PROVE  Inv'
  BY <1>3 DEF Inv
<1>4. ASSUME NEW h \in Handle, NEW n \in Name, OpenForReading(h, n) PROVE Inv'
  BY <1>4, <1>3, OpenedForReading DEF OpenForReading
<1>5. ASSUME NEW h \in Handle, NEW n \in Name, OpenForWriting(h, n) PROVE Inv'
  BY <1>5, <1>3, OpenedForWriting DEF OpenForWriting
<1>6. ASSUME NEW h \in Handle, NEW k \in 1 .. MaxAppend, Write(h, k) PROVE Inv'
  BY <1>6, <1>3, HasWritten DEF Write
<1>7. ASSUME NEW h \in Handle, NEW pos \in 0 .. MaxSize, Seek(h, pos) PROVE Inv'
  BY <1>7, <1>3, HasSought DEF Seek
<1>8. ASSUME NEW h \in Handle, Read(h) PROVE Inv'
  BY <1>8, <1>3, HasRead DEF Read
<1>9. ASSUME NEW h \in Handle, Flush(h) PROVE Inv'
  BY <1>9, <1>3, HasFlushed DEF Flush
<1>10. ASSUME NEW h \in Handle, Close(h) PROVE Inv'
  BY <1>10, <1>3, HasClosed DEF Close
<1>11. ASSUME NEW n \in Name, Exists(n) PROVE Inv'
  BY <1>11, <1>3, HasAsked DEF Exists
<1>12. ASSUME NEW n \in Name, Remove(n) PROVE Inv'
  BY <1>12, <1>3, HasRemoved DEF Remove
<1>13. ASSUME NEW n \in Name, write_file(n) PROVE Inv'
  BY <1>13, <1>3, HasCounted DEF write_file
<1>14. QED
  BY <1>1, <1>2, <1>4, <1>5, <1>6, <1>7, <1>8, <1>9, <1>10, <1>11, <1>12, <1>13
     DEF Next, Step

\* Whatever calls the program makes, in any order, of any number of files and
\* handles on a card of any size: until a power loss, each file has a chain of
\* clusters of its own that the FAT leads along, with the room its size calls for,
\* and the directory and every open file agree with it on where they stand.
THEOREM Invariant == Spec => []Inv
  BY InitInv, StepInv, PTL DEF Spec

\* Every write of a block of the FAT is followed by that of its copy, before any
\* other block is cached: the second FAT on the card is the first (cacheFlush).
THEOREM MirrorCorrect == Spec => []MirrorIsFat
<1>1. Inv => MirrorIsFat
  BY DEF Inv, MirrorIsFat, CardOK, VolOK, CacheOK, FatBlocks
<1>2. QED
  BY <1>1, Invariant, PTL

----------------------------------------------------------------------------
(* The chains that the FAT leads along *)

\* The walk along the FAT from the first cluster of a chain finds the chain.
LEMMA ChainIs ==
    ASSUME NEW card, NEW first, NEW g \in Seq(Clusters), Len(g) <= clusterCount_,
           IF g = <<>> THEN first = 0 ELSE first = g[1],
           \A i \in 1 .. Len(g) :
              FatEntry(card, g[i]) = IF i < Len(g) THEN g[i + 1] ELSE EOC
    PROVE  Chain(card, first) = g
<1> DEFINE N == clusterCount_ + 1
           L == Len(g)
           After(c) == IF c \in Clusters THEN FatEntry(card, c) ELSE EOC
           Is(f) == f = [n \in 1 .. N |-> IF n = 1 THEN first ELSE After(f[n - 1])]
           walk[n \in 1 .. clusterCount_ + 1] ==
               IF n = 1 THEN first
               ELSE LET c == walk[n - 1]
                    IN  IF c \in Clusters THEN FatEntry(card, c) ELSE EOC
           w == [k \in 1 .. N |-> IF k <= L THEN g[k] ELSE IF k = 1 THEN 0 ELSE EOC]
<1>1. L \in Nat /\ N \in Nat /\ L < N /\ 1 \in 1 .. N
  OBVIOUS
<1>2. walk = CHOOSE f : Is(f)
  OBVIOUS
<1>3. Chain(card, first) =
          [i \in 1 .. Cardinality({n \in DOMAIN walk : walk[n] \in Clusters}) |-> walk[i]]
  BY DEF Chain
<1> HIDE DEF walk
<1>4. 0 \notin Clusters /\ EOC \notin Clusters
  BY Values
<1>5. \A k \in 1 .. L : g[k] \in Clusters
  OBVIOUS
<1>6. w[1] = first
  <2>1. CASE g = <<>>
    BY <2>1, <1>1
  <2>2. CASE g # <<>>
    <3>1. 1 <= L
      BY <2>2
    <3>2. QED
      BY <3>1, <2>2, <1>1
  <2>3. QED
    BY <2>1, <2>2
<1>7. ASSUME NEW k \in 1 .. N, k # 1 PROVE w[k] = After(w[k - 1])
  <2>1. k - 1 \in 1 .. N /\ k - 1 < k /\ k \in Nat
    BY <1>1, <1>7
  <2>2. CASE k <= L
    <3>1. k - 1 \in 1 .. L /\ (k - 1) + 1 = k /\ k - 1 < L
      BY <2>1, <2>2, <1>1
    <3>2. w[k - 1] = g[k - 1] /\ w[k] = g[k]
      BY <2>1, <2>2, <3>1
    <3>3. FatEntry(card, g[k - 1]) = g[k]
      BY <3>1
    <3> HIDE DEF w
    <3>4. QED
      BY <3>1, <3>2, <3>3, <1>5
  <2>3. CASE k = L + 1
    <3>1. k - 1 = L /\ L \in 1 .. L
      BY <2>1, <2>3, <1>1
    <3>2. w[k - 1] = g[L] /\ w[k] = EOC
      BY <2>1, <2>3, <3>1, <1>7
    <3>3. FatEntry(card, g[L]) = EOC
      BY <3>1
    <3> HIDE DEF w
    <3>4. QED
      BY <3>1, <3>2, <3>3, <1>5
  <2>4. CASE k > L + 1
    <3>1. w[k] = EOC /\ w[k - 1] \in {0, EOC}
      BY <2>1, <2>4, <1>1, <1>7
    <3> HIDE DEF w
    <3>2. QED
      BY <3>1, <1>4
  <2>5. QED
    BY <2>1, <2>2, <2>3, <2>4, <1>1
<1>8. DOMAIN w = 1 .. N
  OBVIOUS
<1>9. \A k \in 1 .. N : w[k] \in Clusters <=> k \in 1 .. L
  BY <1>1, <1>4, <1>5
<1>10. \A k \in 1 .. L : w[k] = g[k]
  BY <1>1
<1>11. w = [k \in 1 .. N |-> w[k]]
  OBVIOUS
<1> HIDE DEF w, After
<1>12. Is(w)
  BY <1>6, <1>7, <1>11
<1>13. Is(walk)
  BY <1>2, <1>12
<1>14. \A k \in 1 .. N : walk[k] = IF k = 1 THEN first ELSE After(walk[k - 1])
  BY <1>13
<1>15. DOMAIN walk = 1 .. N
  BY <1>13
<1> HIDE DEF Is
<1>16. \A k \in 1 .. N : walk[k] = w[k]
  <2> DEFINE S == {k \in Nat : k + 1 \in 1 .. N => walk[k + 1] = w[k + 1]}
  <2>1. 0 \in S
    BY <1>1, <1>6, <1>14
  <2>2. ASSUME NEW k \in Nat, k \in S PROVE k + 1 \in S
    <3> DEFINE m == (k + 1) + 1
    <3>1. SUFFICES ASSUME m \in 1 .. N PROVE walk[m] = w[m]
      OBVIOUS
    <3>2. m # 1 /\ m - 1 = k + 1 /\ k + 1 \in 1 .. N
      BY <3>1, <1>1
    <3>3. walk[k + 1] = w[k + 1]
      BY <2>2, <3>2
    <3> HIDE DEF m, N, S
    <3>4. walk[m] = After(walk[k + 1]) /\ w[m] = After(w[k + 1])
      BY <3>1, <3>2, <1>7, <1>14
    <3>5. QED
      BY <3>3, <3>4
  <2> HIDE DEF S
  <2>3. Nat \subseteq S
    BY <2>1, <2>2, SetInduction
  <2> SUFFICES ASSUME NEW k \in 1 .. N PROVE walk[k] = w[k]
    OBVIOUS
  <2>4. k - 1 \in S /\ (k - 1) + 1 = k
    BY <2>3
  <2>5. QED
    BY <2>4 DEF S
<1>17. {n \in DOMAIN walk : walk[n] \in Clusters} = 1 .. L
  BY <1>1, <1>9, <1>15, <1>16
<1>18. Cardinality(1 .. L) = L
  <2>1. L \in Int /\ 1 \in Int
    BY <1>1
  <2> HIDE DEF L
  <2>2. Cardinality(1 .. L) = IF 1 > L THEN 0 ELSE L - 1 + 1
    BY <2>1, FS_Interval
  <2>3. QED
    BY <1>1, <2>2
<1>19. Chain(card, first) = [i \in 1 .. L |-> walk[i]]
  BY <1>3, <1>17, <1>18
<1>20. \A i \in 1 .. L : walk[i] = g[i]
  BY <1>1, <1>10, <1>16
<1>21. g = [i \in 1 .. L |-> g[i]]
  OBVIOUS
<1> HIDE DEF L
<1>22. QED
  BY <1>19, <1>20, <1>21

\* The clusters that a size calls for are no more than there are.
LEMMA ClustersEnough ==
    ASSUME NEW size \in Nat, NEW l \in Nat, size <= l * ClusterBytes
    PROVE  ClustersFor(size) \in Nat /\ ClustersFor(size) <= l
<1> DEFINE e == ClusterBytes  a == size + ClusterBytes - 1  d == a \div e
<1>1. e \in Nat \ {0} /\ a \in Nat /\ a < size + e
  BY Sizes
<1>2. d \in Int /\ e * d <= a /\ d >= 0
  <2> HIDE DEF a, e
  <2>1. /\ d \in Int /\ a % e \in Int /\ 0 <= a % e /\ a = e * d + (a % e) /\ d >= 0
    BY <1>1, Euclid
  <2> HIDE DEF d
  <2> DEFINE r == a % e  p == e * d
  <2>2. p \in Int
    BY <1>1, <2>1, Z3
  <2>3. r \in Int /\ 0 <= r /\ a = p + r
    BY <2>1
  <2> HIDE DEF p, r
  <2>4. p <= a
    BY <2>2, <2>3, <1>1
  <2>5. QED
    BY <2>1, <2>4 DEF p
<1>3. ClustersFor(size) = d
  BY DEF ClustersFor
<1>4. size <= l * e
  OBVIOUS
<1> HIDE DEF a, d, e
<1>5. e * d < e * (l + 1)
  BY <1>1, <1>2, <1>4, Z3
<1>6. d < l + 1
  BY <1>1, <1>2, <1>5, Z3
<1>7. QED
  BY <1>2, <1>3, <1>6

\* What begins as a chain leads along it.
LEMMA LeadsAlong ==
    ASSUME NEW v, NEW q, VolOK(v, q), NEW n \in Name, NEW first, NEW size,
           BeginsAt(first, size, q[n])
    PROVE  LET chain == Chain(View(v), first)
           IN  /\ Leads(View(v), first, size)
               /\ \A i \in DOMAIN chain : InChain(chain[i], q[n])
<1> DEFINE fat == Fat(Seen(v))  card == View(v)
<1>1. /\ q[n] \in Seq(Clusters) /\ Len(q[n]) \in 0 .. clusterCount_
      /\ \A i \in 1 .. Len(q[n]) :
            fat[q[n][i]] = IF i < Len(q[n]) THEN q[n][i + 1] ELSE EOC
  BY ChainFits DEF VolOK, Chained
<1>2. \A c \in Clusters : FatEntry(card, c) = fat[c]
  BY Geometry, Regions DEF FatEntry, Fat, Seen
<1> HIDE DEF fat, card
<1>3. \A i \in 1 .. Len(q[n]) : q[n][i] \in Clusters
  BY <1>1
<1> DEFINE g == IF first = 0 THEN <<>> ELSE q[n]
<1>4. /\ g \in Seq(Clusters) /\ Len(g) <= clusterCount_ /\ Len(g) \in Nat
      /\ IF g = <<>> THEN first = 0 ELSE first = g[1]
      /\ \A i \in 1 .. Len(g) : InChain(g[i], q[n])
      /\ \A i \in 1 .. Len(g) :
            FatEntry(card, g[i]) = IF i < Len(g) THEN g[i + 1] ELSE EOC
  <2>1. CASE first = 0
    <3>1. g = <<>> /\ <<>> \in Seq(Clusters) /\ Len(<<>>) = 0
      BY <2>1
    <3>2. 1 .. 0 = {}
      OBVIOUS
    <3> HIDE DEF g
    <3>3. QED
      BY <2>1, <3>1, <3>2
  <2>2. CASE first # 0
    <3>1. g = q[n] /\ g # <<>> /\ first = g[1]
      BY <2>2 DEF BeginsAt
    <3> HIDE DEF g
    <3>2. QED
      BY <3>1, <1>1, <1>2, <1>3 DEF InChain
  <2>3. QED
    BY <2>1, <2>2
<1>5. size \in Nat /\ size <= Len(g) * ClusterBytes
  <2>1. CASE first = 0
    <3>1. size = 0
      BY <2>1 DEF BeginsAt
    <3> HIDE DEF g
    <3> DEFINE p == Len(g) * ClusterBytes
    <3>2. p \in Nat
      BY <1>4, Multiples
    <3> HIDE DEF p
    <3>3. QED
      BY <3>1, <3>2 DEF p
  <2>2. CASE first # 0
    BY <2>2 DEF BeginsAt
  <2>3. QED
    BY <2>1, <2>2
<1> HIDE DEF g
<1>6. Chain(card, first) = g
  BY <1>4, ChainIs
<1>7. ClustersFor(size) \in Nat /\ ClustersFor(size) <= Len(g)
  BY <1>4, <1>5, ClustersEnough
<1>8. \A i \in 1 .. Len(g) : FatEntry(card, g[i]) # FREE
  <2>1. FREE \notin Clusters /\ FREE # EOC
    BY Values
  <2>2. QED
    BY <2>1, <1>4
<1>9. Leads(card, first, size)
  BY <1>4, <1>6, <1>7, <1>8 DEF Leads
<1>10. DOMAIN g = 1 .. Len(g)
  BY <1>4
<1>11. QED
  BY <1>4, <1>6, <1>9, <1>10 DEF card

\* What FirstAndSize says of a name is where its chain begins.
LEMMA FirstBegins ==
    ASSUME NEW q, NEW fits, CardOK(files, Handle, volume, q, fits), NEW n \in Name,
           NEW p \in FirstAndSize(n)
    PROVE  BeginsAt(p[1], p[2], q[n])
<1>1. CASE Writers(n) # {}
  <2>1. PICK h \in Writers(n) : p = <<FileOf(h).firstCluster_, FileOf(h).fileSize_>>
    BY <1>1 DEF FirstAndSize
  <2>2. h \in Handle /\ files[h] # Closed /\ TheName(files[h]) = n
        /\ FileOf(h) = TheFile(files[h])
    BY Handles DEF Writers, OpenAs
  <2>3. FileOK(FileOf(h), q[n], volume)
    BY <2>2 DEF CardOK, OpenOK, OpenedOK
  <2>4. QED
    BY <2>1, <2>3 DEF FileOK
<1>2. CASE Writers(n) = {}
  <2>1. PICK e \in Entries(View(volume), n) : p = <<e.firstCluster, e.fileSize>>
    BY <1>2 DEF FirstAndSize
  <2>2. View(volume)[rootDirStart_] = Dir(Seen(volume))
    BY Regions DEF Dir, Seen
  <2>3. PICK i \in 1 .. DirSlots : /\ e = Dir(Seen(volume))[i]
                                   /\ Dir(Seen(volume))[i].name = n
    BY <2>1, <2>2 DEF Entries, SlotsOf, Searched
  <2>4. BeginsAt(e.firstCluster, e.fileSize, q[n])
    BY <2>3 DEF CardOK, DirOK
  <2>5. QED
    BY <2>1, <2>4
<1>3. QED
  BY <1>1, <1>2

LEMMA InvOwned == Inv => (losses = 0 => OwnedOnce)
<1> SUFFICES ASSUME Inv, losses = 0 PROVE OwnedOnce
  OBVIOUS
<1>1. PICK q : CardOK(files, Handle, volume, q, ~spilled)
  BY DEF Inv
<1>2. VolOK(volume, q)
  BY <1>1 DEF CardOK
<1>3. ASSUME NEW n \in Name, NEW p \in FirstAndSize(n)
      PROVE  LET chain == Chain(View(volume), p[1])
             IN  /\ Leads(View(volume), p[1], p[2])
                 /\ \A i \in DOMAIN chain : InChain(chain[i], q[n])
  <2>1. BeginsAt(p[1], p[2], q[n])
    BY <1>1, FirstBegins
  <2>2. QED
    BY <2>1, <1>2, LeadsAlong
<1>4. ASSUME NEW n \in Name, NEW c \in Owned(n) PROVE InChain(c, q[n])
  BY <1>3 DEF Owned
<1>5. ASSUME NEW n \in Name, NEW m \in Name, n # m PROVE Owned(n) \cap Owned(m) = {}
  <2>1. ASSUME NEW c \in Owned(n), c \in Owned(m) PROVE FALSE
    <3>1. PICK i \in 1 .. Len(q[n]) : c = q[n][i]
      BY <1>4 DEF InChain
    <3>2. PICK j \in 1 .. Len(q[m]) : c = q[m][j]
      BY <1>4, <2>1 DEF InChain
    <3>3. QED
      BY <1>2, <1>5, <3>1, <3>2 DEF VolOK, Chained
  <2>2. QED
    BY <2>1
<1>6. QED
  BY <1>3, <1>5 DEF OwnedOnce

\* Without a power loss no cluster belongs to two files, and every file has the
\* clusters its size calls for, allocated: what allocContiguous and freeChain
\* must never get wrong.
THEOREM OwnedUntilLoss == Spec => [](losses = 0 => OwnedOnce)
  BY Invariant, InvOwned, PTL

\* c is met on the walk along the FAT from first.
Along(card, first, c) ==
    LET chain == Chain(card, first) IN \E k \in DOMAIN chain : c = chain[k]

\* From where a chain begins, the FAT leads along all of it.
LEMMA ChainFrom ==
    ASSUME NEW v, NEW q, VolOK(v, q), NEW n \in Name, NEW first, NEW size,
           BeginsAt(first, size, q[n])
    PROVE  first # 0 => \A c : InChain(c, q[n]) => Along(View(v), first, c)
<1> SUFFICES ASSUME first # 0, NEW d, InChain(d, q[n]) PROVE Along(View(v), first, d)
  OBVIOUS
<1> DEFINE fat == Fat(Seen(v))  card == View(v)
<1>1. /\ q[n] \in Seq(Clusters) /\ Len(q[n]) \in 0 .. clusterCount_
      /\ \A i \in 1 .. Len(q[n]) :
            fat[q[n][i]] = IF i < Len(q[n]) THEN q[n][i + 1] ELSE EOC
  BY ChainFits DEF VolOK, Chained
<1>2. \A c \in Clusters : FatEntry(card, c) = fat[c]
  BY Geometry, Regions DEF FatEntry, Fat, Seen
<1> DEFINE g == q[n]
<1>3. g # <<>> /\ first = g[1]
  BY DEF BeginsAt
<1>4. /\ g \in Seq(Clusters) /\ Len(g) \in 0 .. clusterCount_
      /\ \A i \in 1 .. Len(g) : fat[g[i]] = IF i < Len(g) THEN g[i + 1] ELSE EOC
  BY <1>1
<1> HIDE DEF fat, card, g
<1>5. \A i \in 1 .. Len(g) : g[i] \in Clusters
  BY <1>4
<1>6. \A i \in 1 .. Len(g) : FatEntry(card, g[i]) = IF i < Len(g) THEN g[i + 1] ELSE EOC
  BY <1>4, <1>2, <1>5
<1>7. Len(g) <= clusterCount_
  BY <1>4
<1>8. Chain(card, first) = g
  BY <1>4, <1>3, <1>6, <1>7, ChainIs
<1>9. PICK k \in 1 .. Len(g) : d = g[k]
  BY DEF InChain, g
<1>10. k \in DOMAIN g
  BY <1>4, <1>9
<1>11. QED
  BY <1>8, <1>9, <1>10 DEF Along, card

\* The program knows where every chain begins: from its writer, or from its entry.
LEMMA FirstKnown ==
    ASSUME NEW q, NEW fits, CardOK(files, Handle, volume, q, fits), ~Stuck(volume),
           NEW n \in Name, q[n] # <<>>
    PROVE  \E p \in FirstAndSize(n) : p[1] # 0
<1> DEFINE dir == Dir(Seen(volume))
<1>1. CASE Writers(n) # {}
  <2>1. PICK h : h \in Writers(n)
    BY <1>1
  <2>2. h \in Handle /\ files[h] # Closed /\ TheName(files[h]) = n
        /\ FileOf(h) = TheFile(files[h]) /\ FileOf(h).writable
    BY <2>1, Handles DEF Writers, OpenAs
  <2>3. FileOK(FileOf(h), q[n], volume)
    BY <2>2 DEF CardOK, OpenOK, OpenedOK
  <2>4. FileOf(h).firstCluster_ # 0
    BY <2>2, <2>3 DEF FileOK
  <2> DEFINE p == <<FileOf(h).firstCluster_, FileOf(h).fileSize_>>
  <2>5. p \in FirstAndSize(n) /\ p[1] # 0
    BY <1>1, <2>1, <2>4 DEF FirstAndSize
  <2>6. QED
    BY <2>5
<1>2. CASE Writers(n) = {}
  <2>1. DirOK(dir, q) /\ NoWriter(files, Handle, n)
    BY <1>2, NoWriters DEF CardOK
  <2>2. PICK i \in 1 .. DirSlots : dir[i].name = n
    BY <2>1 DEF DirOK
  <2>3. dir[i].firstCluster # 0
    BY <2>1, <2>2 DEF CardOK, OpenOK
  <2>4. n # NameFree
    BY CardAssumption DEF CardAssumption
  <2> HIDE DEF dir
  <2>5. i \in SlotsOf(dir, n)
    <3>1. \A j \in 1 .. i - 1 : j \in 1 .. DirSlots /\ j < i
      OBVIOUS
    <3>2. \A j \in 1 .. i - 1 : dir[j].name # NameFree
      BY <3>1, <2>1, <2>2, <2>4 DEF DirOK
    <3>3. QED
      BY <3>2, <2>2 DEF SlotsOf, Searched
  <2>6. View(volume)[rootDirStart_] = dir
    BY Regions DEF Dir, Seen, dir
  <2> DEFINE p == <<dir[i].firstCluster, dir[i].fileSize>>
  <2>7. dir[i] \in Entries(View(volume), n)
    BY <2>5, <2>6 DEF Entries
  <2>8. p \in FirstAndSize(n)
    BY <2>7, <1>2 DEF FirstAndSize
  <2>9. p[1] # 0
    BY <2>3
  <2>10. QED
    BY <2>8, <2>9
<1>3. QED
  BY <1>1, <1>2

LEMMA InvNoneLost == Inv => (~Stuck(volume) => NoneLost)
<1> SUFFICES ASSUME Inv, ~Stuck(volume), losses = 0, ~spilled,
                    NEW c \in Clusters, FatEntry(View(volume), c) # FREE
             PROVE  \E n \in Name : c \in Owned(n)
  BY DEF NoneLost
<1>1. PICK q : CardOK(files, Handle, volume, q, ~spilled)
  BY DEF Inv
<1>2. VolOK(volume, q) /\ Covered(volume, q)
  BY <1>1 DEF CardOK, Fine
<1>3. FatEntry(View(volume), c) = Fat(Seen(volume))[c]
  BY Geometry, Regions DEF FatEntry, Fat, Seen
<1>4. PICK n \in Name : InChain(c, q[n])
  BY <1>2, <1>3 DEF Covered
<1>5. q[n] # <<>>
  <2>1. q[n] \in Seq(Clusters)
    BY <1>2 DEF VolOK, Chained
  <2>2. QED
    BY <2>1, <1>4 DEF InChain
<1>6. PICK p \in FirstAndSize(n) : p[1] # 0
  BY <1>1, <1>5, FirstKnown
<1>7. BeginsAt(p[1], p[2], q[n])
  BY <1>1, <1>4, <1>6, FirstBegins
<1>8. Along(View(volume), p[1], c)
  BY <1>2, <1>4, <1>6, <1>7, ChainFrom
<1>9. c \in Owned(n)
  BY <1>6, <1>8 DEF Owned, Along
<1>10. QED
  BY <1>9

\* Without a power loss, and as long as every write has fitted on the card, no
\* cluster is lost, unless the cache is stuck: what addCluster marks in the FAT is
\* in the chain of a file until freeChain has freed it, and the program can find
\* it from the file's writer or its entry (write, sync, truncate, remove).
THEOREM NothingLost == Spec => [](~Stuck(volume) => NoneLost)
  BY Invariant, InvNoneLost, PTL
=============================================================================
