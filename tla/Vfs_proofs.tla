----------------------------- MODULE Vfs_proofs -----------------------------
(***************************************************************************)
(* Proofs about the file tables of module Vfs, for any images, any set of  *)
(* mounts and any number of processes.                                     *)
(***************************************************************************)
EXTENDS Vfs, NumberLemmas, FiniteSetTheorems, SequenceTheorems

-----------------------------------------------------------------------------
(* What the resolution of a path can answer. *)
Result == {ENOENT, ENOTDIR} \cup [err : {"ok"}, mp : Mounted, ino : Ino]

(* An inode of an image, or none. *)
Place == (Device \cup {None}) \X (Ino \cup {None})

MountRecord == [on : Place, dev : Device]

MountType ==
  /\ mount \in Seq(MountRecord)
  /\ Len(mount) \in 1 .. MAX_MOUNT_POINTS

(* An answer is a place in a mounted image or one of the two errors. *)
LEMMA ResultShape ==
  ASSUME NEW r \in Result
  PROVE  /\ r.err = "ok" => r.mp \in Mounted /\ r.ino \in Ino /\ r = Found(r.mp, r.ino)
         /\ r.err # "ok" => r \in {ENOENT, ENOTDIR}
<1>1. CASE r \in {ENOENT, ENOTDIR}
  <2>1. ENOENT.err # "ok" /\ ENOTDIR.err # "ok"
    BY DEF ENOENT, ENOTDIR
  <2>2. QED
    BY <1>1, <2>1
<1>2. CASE r \in [err : {"ok"}, mp : Mounted, ino : Ino]
  BY <1>2 DEF Found
<1>3. QED
  BY <1>1, <1>2 DEF Result

(* A mount point that is in use names a device. *)
LEMMA MountShape ==
  ASSUME MountType, NEW m \in Mounted
  PROVE  DeviceOf(m) \in Device /\ m \in Mp
<1>1. m \in Nat /\ m + 1 \in 1 .. Len(mount) /\ m < MAX_MOUNT_POINTS
  BY TableAssumption DEF MountType, Mounted
<1>2. mount[m + 1] \in MountRecord
  BY <1>1 DEF MountType
<1>3. QED
  BY <1>1, <1>2, TableAssumption DEF DeviceOf, MountAt, MountRecord, Mp

(* romfs answers with an inode of the same image. *)
LEMMA StatShape ==
  ASSUME MountType, NEW m \in Mounted, NEW i \in Ino, NEW name
  PROVE  RomfsStat(m, i, name) \in Result
<1>1. DeviceOf(m) \in Device
  BY MountShape
<1>2. \A n \in DOMAIN Child[DeviceOf(m)][i] : Child[DeviceOf(m)][i][n] \in Ino
  BY <1>1, ImageAssumption
<1>3. QED
  BY <1>1, <1>2 DEF RomfsStat, Result, Found

(* Going into what is mounted on an inode ends at the root of an image. *)
LEMMA IntoShape ==
  ASSUME MountType, NEW r \in Result, r.err = "ok"
  PROVE  Into(r) \in Result
<1> DEFINE over == MountedOn(r.mp, r.ino)
<1>1. over \subseteq Mounted /\ Mounted \subseteq Nat
  <2>1. over \subseteq Mounted
    BY DEF MountedOn
  <2>2. Mounted \subseteq Nat
    <3>1. Len(mount) \in Nat
      BY DEF MountType
    <3>2. QED
      BY <3>1 DEF Mounted
  <2>3. QED
    BY <2>1, <2>2
<1>2. CASE over = {}
  BY <1>2, ResultShape DEF Into, Result
<1>3. CASE over # {}
  <2>1. PICK k \in over : \A j \in over : k <= j
    BY <1>1, <1>3, Least
  <2> DEFINE m == CHOOSE x \in over : \A j \in over : x <= j
  <2>2. m \in Mounted
    BY <1>1, <2>1
  <2>3. Into(r) = Found(m, 0)
    BY <1>3 DEF Into
  <2> HIDE DEF m
  <2>4. 0 \in Ino
    BY ImageAssumption
  <2>5. Found(m, 0) \in [err : {"ok"}, mp : Mounted, ino : Ino]
    BY <2>2, <2>4 DEF Found
  <2>6. QED
    BY <2>3, <2>5 DEF Result
<1>4. QED
  BY <1>2, <1>3

(* The components _extract_component returns: the path up to L, which is    *)
(* its end but for one trailing slash, without the empty ones from the      *)
(* second on.                                                               *)
IsTokens(path, L, s) ==
  /\ L \in 1 .. Len(path) /\ s \in Nat /\ s < L /\ Len(path) <= L + 1
  /\ L < Len(path) => path[Len(path)] = Nothing
  /\ L = Len(path) /\ L > 1 => path[L] # Nothing
  /\ Len(Tokens(path)) = L - s
  /\ Tokens(path)[1] = path[1]
  /\ \A k \in 2 .. L - s : Tokens(path)[k] = path[k + s]
  /\ \A j \in 2 .. s + 1 : path[j] = Nothing

(* Tokens returns these components. *)
LEMMA TokensAre ==
  ASSUME NEW S, NEW path \in Seq(S), path # <<>>
  PROVE  \E L, s : IsTokens(path, L, s)
<1> DEFINE cut  == IF Len(path) > 1 /\ path[Len(path)] = Nothing
                   THEN SubSeq(path, 1, Len(path) - 1) ELSE path
           L    == Len(cut)
           keep == {k \in 1 .. Len(cut) : k = 1 \/ \E j \in 2 .. k : cut[j] # Nothing}
           skip == Len(cut) - Cardinality(keep)
<1>1. /\ L \in Nat /\ L \in 1 .. Len(path) /\ Len(path) <= L + 1
      /\ L < Len(path) => path[Len(path)] = Nothing
      /\ L = Len(path) /\ L > 1 => path[L] # Nothing
      /\ \A i \in 1 .. L : cut[i] = path[i]
  <2>0. Len(path) \in Nat /\ Len(path) >= 1
    OBVIOUS
  <2>1. CASE Len(path) > 1 /\ path[Len(path)] = Nothing
    <3> DEFINE n == Len(path) - 1
    <3>1. cut = SubSeq(path, 1, n)
      BY <2>1
    <3> HIDE DEF cut
    <3>2. n \in Nat /\ n >= 1 /\ Len(path) = n + 1 /\ \A i \in 1 .. n : path[i] \in S
      BY <2>0, <2>1
    <3> HIDE DEF n
    <3>3. Len(SubSeq(path, 1, n)) = n /\ \A i \in 1 .. n : SubSeq(path, 1, n)[i] = path[i]
      BY <3>2, SubSeqProperties
    <3>4. L = n /\ \A i \in 1 .. L : cut[i] = path[i]
      BY <3>1, <3>3
    <3> HIDE DEF L
    <3>5. QED
      BY <2>1, <3>2, <3>4
  <2>2. CASE ~(Len(path) > 1 /\ path[Len(path)] = Nothing)
    <3>1. cut = path
      BY <2>2
    <3> HIDE DEF cut
    <3>2. QED
      BY <2>0, <2>2, <3>1
  <2>3. QED
    BY <2>1, <2>2
<1> HIDE DEF cut
<1>2. CASE \A j \in 2 .. L : cut[j] = Nothing
  <2>1. keep = {1}
    BY <1>1, <1>2
  <2>2. Cardinality(keep) = 1
    BY <2>1, FS_Singleton
  <2>3. Tokens(path) = [k \in 1 .. 1 |-> IF k = 1 THEN cut[1] ELSE cut[k + skip]]
    BY <2>2 DEF Tokens, cut
  <2> HIDE DEF L, keep, skip
  <2>4. Len(Tokens(path)) = 1 /\ Tokens(path)[1] = path[1]
    BY <1>1, <2>3
  <2>5. IsTokens(path, L, L - 1)
    BY <1>1, <1>2, <2>4 DEF IsTokens
  <2>6. QED
    BY <2>5
<1>3. CASE \E j \in 2 .. L : cut[j] # Nothing
  <2> DEFINE J == {j \in 2 .. L : cut[j] # Nothing}
  <2>1. J # {} /\ J \subseteq Nat
    BY <1>1, <1>3
  <2>2. PICK a \in J : \A j \in J : a <= j
    <3> HIDE DEF J
    <3>1. QED
      BY <2>1, Least
  <2>3. a \in Nat /\ a \in 2 .. L /\ cut[a] # Nothing /\ \A j \in 2 .. a - 1 : cut[j] = Nothing
    BY <1>1, <2>2
  <2>4. keep = (a .. L) \cup {1}
    <3>1. ASSUME NEW k \in 1 .. L
          PROVE  (k = 1 \/ \E j \in 2 .. k : cut[j] # Nothing) <=> (k = 1 \/ k \in a .. L)
      BY <1>1, <2>3
    <3>2. \A k \in (a .. L) \cup {1} : k \in 1 .. L
      BY <1>1, <2>3
    <3>3. QED
      BY <3>1, <3>2
  <2> DEFINE c == (L - a) + 2
  <2>5. Cardinality(keep) = c /\ c \in Nat
    <3> DEFINE tail == a .. L
    <3>1. IsFiniteSet(tail) /\ Cardinality(tail) = (L - a) + 1 /\ 1 \notin tail
      BY <1>1, <2>3, FS_Interval
    <3> HIDE DEF tail
    <3>2. Cardinality(tail \cup {1}) = Cardinality(tail) + 1
      BY <3>1, FS_AddElement
    <3> HIDE DEF keep
    <3>3. QED
      BY <1>1, <2>3, <2>4, <3>1, <3>2 DEF tail
  <2>6. Tokens(path) = [k \in 1 .. c |-> IF k = 1 THEN cut[1] ELSE cut[k + (L - c)]]
    <3>1. Tokens(path) = [k \in 1 .. Cardinality(keep) |->
                            IF k = 1 THEN cut[1] ELSE cut[k + (L - Cardinality(keep))]]
      BY DEF Tokens, cut
    <3> HIDE DEF keep, c, L
    <3>2. QED
      BY <2>5, <3>1
  <2> HIDE DEF L, keep, skip
  <2>7. L - c = a - 2 /\ L - (a - 2) = c /\ c >= 2 /\ a - 2 \in Nat /\ a - 2 < L
    BY <1>1, <2>3
  <2>8. Len(Tokens(path)) = c /\ Tokens(path)[1] = path[1]
    BY <1>1, <2>5, <2>6, <2>7
  <2>9. ASSUME NEW k \in 2 .. c PROVE Tokens(path)[k] = path[k + (a - 2)]
    <3>1. k \in 1 .. c /\ k # 1 /\ k + (a - 2) \in 1 .. L
      BY <1>1, <2>3, <2>5, <2>7
    <3>2. Tokens(path)[k] = cut[k + (a - 2)]
      BY <2>6, <2>7, <3>1
    <3>3. QED
      BY <1>1, <3>1, <3>2
  <2>10. \A j \in 2 .. (a - 2) + 1 : path[j] = Nothing
    BY <1>1, <2>3
  <2> HIDE DEF c
  <2>11. IsTokens(path, L, a - 2)
    BY <1>1, <2>3, <2>7, <2>8, <2>9, <2>10 DEF IsTokens
  <2>12. QED
    BY <2>11
<1>4. QED
  BY <1>2, <1>3

(* A path has at least one component. *)
LEMMA TokensShape ==
  ASSUME NEW S, NEW path \in Seq(S), path # <<>>
  PROVE  Len(Tokens(path)) \in Nat \ {0}
<1>1. PICK L, s : IsTokens(path, L, s)
  BY TokensAre
<1>2. QED
  BY <1>1 DEF IsTokens

(* What the loop of _resolv_ino makes of the answer for one component and   *)
(* of the next one.                                                         *)
Step(r, name) ==
  LET from == IF r.err # "ok" THEN r ELSE Into(r)
  IN  IF from.err # "ok" THEN from ELSE RomfsStat(from.mp, from.ino, name)

(* A component leads from an answer to an answer. *)
LEMMA StepShape ==
  ASSUME MountType, NEW r \in Result, NEW name
  PROVE  Step(r, name) \in Result
<1> DEFINE from == IF r.err # "ok" THEN r ELSE Into(r)
<1>1. from \in Result
  BY IntoShape
<1>2. from.err = "ok" => from.mp \in Mounted /\ from.ino \in Ino
  BY <1>1, ResultShape
<1>3. Step(r, name) = IF from.err # "ok" THEN from ELSE RomfsStat(from.mp, from.ino, name)
  BY DEF Step
<1> HIDE DEF from
<1>4. QED
  BY <1>1, <1>2, <1>3, StatShape

(* The walk starts in the first mount, at an inode. *)
LEMMA RootShape ==
  ASSUME MountType
  PROVE  0 \in Mounted /\ 0 \in Ino
BY ImageAssumption, TableAssumption DEF MountType, Mounted

(* The recursive function of Walk is what it says: it starts at the root    *)
(* and takes one step per component.                                        *)
LEMMA WalkSteps ==
  ASSUME MountType, NEW tokens, Len(tokens) \in Nat \ {0}
  PROVE  \E f \in [1 .. Len(tokens) -> Result] :
           /\ f[1] = RomfsStat(0, 0, tokens[1])
           /\ \A k \in 2 .. Len(tokens) : f[k] = Step(f[k - 1], tokens[k])
           /\ Walk(tokens) = f[Len(tokens)]
<1> DEFINE N == Len(tokens)
           Body(at, k) ==
             LET from == IF k = 1 THEN Found(0, 0)
                         ELSE IF at[k - 1].err # "ok" THEN at[k - 1] ELSE Into(at[k - 1])
             IN  IF from.err # "ok" THEN from ELSE RomfsStat(from.mp, from.ino, tokens[k])
           at == CHOOSE at : at = [k \in 1 .. N |-> Body(at, k)]
<1>1. Walk(tokens) = at[N]
  BY DEF Walk
<1>2. ASSUME NEW g, NEW k \in 1 .. N
      PROVE  Body(g, k) = IF k = 1 THEN RomfsStat(0, 0, tokens[1]) ELSE Step(g[k - 1], tokens[k])
  BY <1>2 DEF Step, Found
<1>3. RomfsStat(0, 0, tokens[1]) \in Result
  BY StatShape, RootShape
<1>4. \A r \in Result, k \in 1 .. N : Step(r, tokens[k]) \in Result
  BY StepShape
<1> DEFINE step == [k \in 1 .. N - 1 |-> [r \in Result |-> Step(r, tokens[k + 1])]]
<1>5. StepsIn(Result, N - 1, step)
  BY <1>4 DEF StepsIn
<1>6. PICK f \in [0 .. N - 1 -> Result] :
        /\ f[0] = RomfsStat(0, 0, tokens[1])
        /\ \A k \in 1 .. N - 1 : f[k] = step[k][f[k - 1]]
  <2> DEFINE n == N - 1
             first == RomfsStat(0, 0, tokens[1])
  <2>1. n \in Nat
    OBVIOUS
  <2>2. first \in Result
    BY <1>3
  <2>3. StepsIn(Result, n, step)
    BY <1>5
  <2> HIDE DEF step, n, first
  <2>4. \E f : IsRun(f, Result, n, first, step)
    BY <2>1, <2>2, <2>3, Recursion
  <2>5. QED
    BY <2>4 DEF n, first, IsRun
<1> DEFINE g == [k \in 1 .. N |-> f[k - 1]]
<1> HIDE DEF Body, at, N
<1>7. N \in Nat \ {0}
  BY DEF N
<1>8. g \in [1 .. N -> Result]
  BY <1>6, <1>7
<1>9. ASSUME NEW k \in 1 .. N
      PROVE  g[k] = IF k = 1 THEN RomfsStat(0, 0, tokens[1]) ELSE Step(g[k - 1], tokens[k])
  <2>1. CASE k = 1
    BY <1>6, <1>7, <2>1
  <2>2. CASE k # 1
    <3>1. k - 1 \in 1 .. N - 1 /\ k - 2 \in 0 .. N - 1 /\ (k - 1) - 1 = k - 2 /\ (k - 1) + 1 = k
      BY <1>7, <2>2
    <3>2. f[k - 1] = step[k - 1][f[k - 2]] /\ f[k - 2] \in Result
      BY <1>6, <3>1
    <3>3. step[k - 1][f[k - 2]] = Step(f[k - 2], tokens[k])
      BY <3>1, <3>2
    <3>4. g[k] = f[k - 1] /\ g[k - 1] = f[k - 2]
      BY <1>7, <2>2, <3>1
    <3>5. QED
      BY <2>2, <3>2, <3>3, <3>4
  <2>3. QED
    BY <2>1, <2>2
<1>10. g = [k \in 1 .. N |-> Body(g, k)]
  <2>1. \A k \in 1 .. N : g[k] = Body(g, k)
    BY <1>2, <1>9
  <2>2. g = [k \in 1 .. N |-> g[k]]
    OBVIOUS
  <2> HIDE DEF g
  <2>3. QED
    BY <2>1, <2>2
<1>11. at = [k \in 1 .. N |-> Body(at, k)]
  BY <1>10 DEF at
<1>12. at[1] = RomfsStat(0, 0, tokens[1]) /\ \A k \in 2 .. N : at[k] = Step(at[k - 1], tokens[k])
  <2>1. \A k \in 1 .. N : at[k] = Body(at, k)
    BY <1>11
  <2>2. QED
    BY <1>2, <1>7, <2>1
<1>13. \A k \in 1 .. N : at[k] \in Result
  <2> DEFINE T == {k \in Nat : k + 1 <= N => at[k + 1] \in Result}
  <2>1. 0 \in T
    BY <1>3, <1>12
  <2>2. ASSUME NEW k \in Nat, k \in T PROVE k + 1 \in T
    <3>1. SUFFICES ASSUME (k + 1) + 1 <= N PROVE at[(k + 1) + 1] \in Result
      OBVIOUS
    <3>2. at[k + 1] \in Result /\ (k + 1) + 1 \in 2 .. N /\ ((k + 1) + 1) - 1 = k + 1
      BY <2>2, <3>1, <1>7
    <3>3. QED
      BY <1>4, <1>12, <3>2
  <2> HIDE DEF T
  <2>3. Nat \subseteq T
    BY <2>1, <2>2, Induction
  <2>4. ASSUME NEW k \in 1 .. N PROVE at[k] \in Result
    <3>1. k - 1 \in Nat /\ (k - 1) + 1 = k
      BY <1>7
    <3>2. k - 1 \in T
      BY <2>3, <3>1
    <3>3. QED
      BY <1>7, <3>1, <3>2 DEF T
  <2>5. QED
    BY <2>4
<1> HIDE DEF step, g
<1>14. at \in [1 .. N -> Result]
  <2>1. DOMAIN at = 1 .. N /\ at = [k \in DOMAIN at |-> at[k]]
    BY <1>11
  <2>2. QED
    BY <1>13, <2>1
<1>15. QED
  BY <1>1, <1>12, <1>14 DEF N

(* Path resolution ends at an inode of a mounted image, or with an error. *)
LEMMA ResolveShape ==
  ASSUME MountType, NEW path \in Paths \cup MountPaths
  PROVE  /\ ResolvIno(path) \in Result
         /\ ResolvIno(path).err = "ok" => /\ ResolvIno(path).mp \in Mounted
                                          /\ ResolvIno(path).ino \in Ino
<1>1. path \in Seq(STRING) /\ path # <<>>
  BY CallAssumption
<1>2. Len(Tokens(path)) \in Nat \ {0}
  BY <1>1, TokensShape
<1>3. Walk(Tokens(path)) \in Result
  BY <1>2, WalkSteps
<1>4. QED
  BY <1>3, ResultShape DEF ResolvIno

-----------------------------------------------------------------------------
FileRecord ==
  [used : BOOLEAN, ref : Int, inst : Nat, ino : Ino \cup {None},
   kind : {"dir", "file", "dev"}, pos : Nat]

TypeOK ==
  /\ MountType
  /\ opened \in [Mp -> Nat]
  /\ file \in [Entry -> FileRecord]
  /\ procs \subseteq Proc
  /\ fd \in [Proc -> [Fd -> Entry \cup {None}]]
  /\ wild \in BOOLEAN

(* An entry in use has one reference, and unless it is a device its mount   *)
(* point and its inode are there.                                           *)
EntriesNamed ==
  \A e \in Entry :
    file[e].used => /\ file[e].ref = 1
                    /\ file[e].kind # "dev" => file[e].inst \in Mounted /\ file[e].ino \in Ino

(* A process that was not forked yet has no descriptor. *)
NoFdsYet == \A p \in Proc \ procs, k \in Fd : fd[p][k] = None

VfsInv ==
  /\ TypeOK /\ EntriesNamed /\ NoFdsYet
  /\ FdsOpen /\ PosInside /\ OrphansNeedFullTable

(* Sizes are numbers. *)
LEMMA SizeShape ==
  ASSUME NEW d \in Device, NEW i \in Ino
  PROVE  Size[d][i] \in Nat
<1>1. Size \in [Device -> [Ino -> Nat]]
  BY ImageAssumption
<1>2. QED
  BY <1>1

(* So is the size of what can be read. *)
LEMMA ReadableShape ==
  ASSUME MountType, NEW x, Readable(x), x.kind # "dev" => x.inst \in Mounted /\ x.ino \in Ino
  PROVE  SizeOf(x) \in Nat
<1>1. CASE x.kind = "dev"
  BY <1>1, ImageAssumption DEF Readable, SizeOf
<1>2. CASE x.kind # "dev"
  <2>1. DeviceOf(x.inst) \in Device
    BY <1>2, MountShape
  <2>2. QED
    BY <1>2, <2>1, SizeShape DEF SizeOf
<1>3. QED
  BY <1>1, <1>2

(* A free descriptor is told apart from every entry. *)
LEMMA NoneIsNoEntry == None \notin Entry
BY DEF None, Entry

(* _alloc_file returns an entry that is not in use, or none. *)
LEMMA AllocShape ==
  ASSUME AllocFile # None
  PROVE  AllocFile \in Entry /\ ~file[AllocFile].used
<1>1. Free # {} /\ Free \subseteq Entry /\ Free \subseteq Nat
  <2>1. Entry \subseteq Nat
    BY TableAssumption DEF Entry
  <2>2. QED
    BY <2>1 DEF AllocFile, Free
<1>2. PICK e \in Free : \A f \in Free : e <= f
  BY <1>1, Least
<1>3. AllocFile \in Free
  BY <1>1, <1>2 DEF AllocFile
<1>4. QED
  BY <1>3 DEF Free

(* What vfs_open fills in names what the path names. *)
LEMMA OpenShape ==
  ASSUME MountType, NEW r, r.mp \in Mounted, r.ino \in Ino
  PROVE  /\ OpenEntry(r) \in FileRecord
         /\ OpenEntry(r).used /\ OpenEntry(r).ref = 1 /\ OpenEntry(r).pos = 0
         /\ OpenEntry(r).kind # "dev" => OpenEntry(r).inst = r.mp /\ OpenEntry(r).ino = r.ino
<1> DEFINE d == DeviceOf(r.mp)
<1>1. d \in Device
  BY MountShape
<1>2. Kind[d][r.ino] \in {"dir", "file", "dev"} /\ Rdev[d][r.ino] \in Nat /\ r.mp \in Nat
  <2>1. /\ Kind \in [Device -> [Ino -> {"dir", "file", "dev"}]]
        /\ Rdev \in [Device -> [Ino -> Nat]] /\ Mp \subseteq Nat
    BY ImageAssumption, TableAssumption DEF Mp
  <2>2. r.mp \in Nat
    BY <2>1, MountShape
  <2> HIDE DEF d
  <2>3. QED
    BY <1>1, <2>1, <2>2
<1>3. OpenEntry(r) = IF Kind[d][r.ino] = "dev" THEN FileEntry(Rdev[d][r.ino], r.ino, "dev")
                     ELSE FileEntry(r.mp, r.ino, Kind[d][r.ino])
  BY DEF OpenEntry
<1> HIDE DEF d
<1>4. CASE Kind[d][r.ino] = "dev"
  BY <1>2, <1>3, <1>4 DEF FileEntry, FileRecord
<1>5. CASE Kind[d][r.ino] # "dev"
  BY <1>2, <1>3, <1>5 DEF FileEntry, FileRecord
<1>6. QED
  BY <1>4, <1>5

(* The descriptor open chooses is a free one. *)
LEMMA FreeFdShape ==
  ASSUME NEW p \in Proc, FreeFds(p) # {}
  PROVE  LET k == CHOOSE k \in FreeFds(p) : \A j \in FreeFds(p) : k <= j
         IN  k \in Fd /\ fd[p][k] = None
<1>1. FreeFds(p) \subseteq Fd /\ FreeFds(p) \subseteq Nat
  <2>1. Fd \subseteq Nat
    BY TableAssumption DEF Fd
  <2>2. QED
    BY <2>1 DEF FreeFds
<1>2. PICK k \in FreeFds(p) : \A j \in FreeFds(p) : k <= j
  BY <1>1, Least
<1>3. (CHOOSE x \in FreeFds(p) : \A j \in FreeFds(p) : x <= j) \in FreeFds(p)
  BY <1>2
<1>4. QED
  BY <1>1, <1>3 DEF FreeFds

(* The tables main() leaves satisfy the invariant. *)
LEMMA InitVfs ==
  ASSUME Init
  PROVE  VfsInv
<1>0. /\ MAX_GLOBAL_FILES \in Nat /\ MAX_GLOBAL_FILES >= 2 /\ MAX_MOUNT_POINTS \in Nat \ {0}
      /\ RootDevice \in Device /\ InitIno \in Ino /\ Console \in Nat /\ First \in Proc
      /\ 0 \in Ino /\ Size[RootDevice][InitIno] \in Nat /\ Ino \subseteq Nat
  BY TableAssumption, ImageAssumption
<1>1. MountType
  <2>1. mount = <<[on |-> <<None, None>>, dev |-> RootDevice]>>
    BY DEF Init
  <2>2. [on |-> <<None, None>>, dev |-> RootDevice] \in MountRecord
    BY <1>0 DEF MountRecord, Place
  <2>3. mount \in Seq(MountRecord) /\ Len(mount) = 1
    BY <2>1, <2>2
  <2>4. QED
    BY <1>0, <2>3 DEF MountType
<1>2. Mounted = {0} /\ DeviceOf(0) = RootDevice
  BY DEF Init, Mounted, DeviceOf, MountAt
<1>3. file \in [Entry -> FileRecord]
  <2>1. Never \in FileRecord
    BY <1>0 DEF Never, FileRecord
  <2>2. FileEntry(Console, None, "dev") \in FileRecord
    BY <1>0 DEF FileEntry, FileRecord
  <2>3. [FileEntry(0, InitIno, "file") EXCEPT !.pos = Size[RootDevice][InitIno]] \in FileRecord
    <3>1. FileEntry(0, InitIno, "file") \in FileRecord
      BY <1>0 DEF FileEntry, FileRecord
    <3>2. QED
      BY <1>0, <3>1 DEF FileRecord
  <2>4. QED
    BY <2>1, <2>2, <2>3 DEF Init
<1>4. ASSUME NEW e \in Entry, file[e].used
      PROVE  /\ file[e].ref = 1 /\ e \in {0, 1}
             /\ file[e].kind # "dev" => /\ file[e].inst \in Mounted /\ file[e].ino \in Ino
                                        /\ file[e].pos <= SizeOf(file[e])
             /\ file[e].kind = "dev" => ~Readable(file[e])
  <2>1. CASE e = 0
    BY <2>1, ImageAssumption DEF Init, FileEntry, Readable
  <2>2. CASE e = 1
    BY <1>0, <1>2, <2>2 DEF Init, FileEntry, SizeOf
  <2>3. CASE e \notin {0, 1}
    BY <1>4, <2>3 DEF Init, FileEntry, Never
  <2>4. QED
    BY <2>1, <2>2, <2>3
<1>5. fd \in [Proc -> [Fd -> Entry \cup {None}]] /\ \A p \in Proc, k \in Fd : fd[p][k] \in {0, None}
  <2>1. 0 \in Entry
    BY <1>0 DEF Entry
  <2>2. QED
    BY <2>1 DEF Init
<1>6. TypeOK
  BY <1>0, <1>1, <1>3, <1>5 DEF TypeOK, Init
<1>7. EntriesNamed
  BY <1>4 DEF EntriesNamed
<1>8. NoFdsYet
  BY DEF NoFdsYet, Init
<1>9. FdsOpen
  <2>1. file[0].used
    BY <1>0 DEF Init, FileEntry, Entry
  <2>2. QED
    BY <1>5, <2>1 DEF FdsOpen
<1>10. PosInside
  BY <1>4 DEF PosInside
<1>11. OrphansNeedFullTable
  BY <1>4 DEF OrphansNeedFullTable
<1>12. QED
  BY <1>6, <1>7, <1>8, <1>9, <1>10, <1>11 DEF VfsInv

-----------------------------------------------------------------------------
(* The table of mounts only grows, so what an entry names stays. *)
LEMMA MountVfs ==
  ASSUME VfsInv, NEW d \in Device, NEW path \in MountPaths, Mount(d, path)
  PROVE  VfsInv'
<1> DEFINE r == ResolvIno(path)
           new == [on |-> MountPoint(path), dev |-> d]
<1>1. TypeOK /\ EntriesNamed /\ NoFdsYet /\ FdsOpen /\ PosInside /\ OrphansNeedFullTable
  BY DEF VfsInv
<1>2. mount \in Seq(MountRecord) /\ Len(mount) \in Nat /\ Len(mount) \in 1 .. MAX_MOUNT_POINTS
  BY <1>1 DEF TypeOK, MountType
<1>3. /\ Mountable(path) /\ mount' = Append(mount, new)
      /\ opened' = [CountUse(path) EXCEPT ![Len(mount)] = 0]
      /\ UNCHANGED <<file, procs, fd, wild>>
  BY DEF Mount
<1>4. path # <<Nothing>> => r.mp \in Mounted /\ r.ino \in Ino
  BY <1>1, <1>3, ResolveShape DEF Mountable, TypeOK
<1>5. MountPoint(path) \in Place
  <2>1. CASE path = <<Nothing>>
    BY <2>1 DEF MountPoint, Place
  <2>2. CASE path # <<Nothing>>
    <3>1. DeviceOf(r.mp) \in Device
      BY <1>1, <1>4, <2>2, MountShape DEF TypeOK
    <3>2. MountPoint(path) = <<DeviceOf(r.mp), r.ino>>
      BY <2>2 DEF MountPoint
    <3> HIDE DEF r
    <3>3. QED
      BY <1>4, <2>2, <3>1, <3>2 DEF Place
  <2>3. QED
    BY <2>1, <2>2
<1>6. new \in MountRecord
  BY <1>5 DEF MountRecord
<1> HIDE DEF new
<1>7. mount' \in Seq(MountRecord) /\ Len(mount') = Len(mount) + 1
  BY <1>2, <1>3, <1>6
<1>8. Len(mount) < MAX_MOUNT_POINTS /\ MAX_MOUNT_POINTS \in Nat
  BY <1>3, TableAssumption DEF Mountable
<1>9. MountType'
  BY <1>2, <1>7, <1>8 DEF MountType
<1>10. \A m \in Mounted : m \in Mounted' /\ DeviceOf(m)' = DeviceOf(m)
  <2>1. ASSUME NEW m \in Mounted PROVE m \in Mounted' /\ DeviceOf(m)' = DeviceOf(m)
    <3>1. m + 1 \in 1 .. Len(mount)
      BY <1>2 DEF Mounted
    <3>2. mount'[m + 1] = mount[m + 1]
      BY <1>2, <1>3, <3>1
    <3>3. QED
      BY <1>2, <1>7, <3>2 DEF Mounted, DeviceOf, MountAt
  <2>2. QED
    BY <2>1
<1>11. CountUse(path) \in [Mp -> Nat]
  <2>1. opened \in [Mp -> Nat]
    BY <1>1 DEF TypeOK
  <2>2. path # <<Nothing>> => r.mp \in Mp
    BY <1>1, <1>4, MountShape DEF TypeOK
  <2>3. QED
    BY <2>1, <2>2 DEF CountUse
<1>12. TypeOK'
  <2>1. opened' \in [Mp -> Nat]
    BY <1>2, <1>3, <1>8, <1>11 DEF Mp
  <2>2. QED
    BY <1>1, <1>3, <1>9, <2>1 DEF TypeOK
<1>13. EntriesNamed'
  BY <1>1, <1>3, <1>10 DEF EntriesNamed
<1>14. PosInside'
  <2>1. ASSUME NEW e \in Entry, file[e].used, Readable(file[e])
        PROVE  file[e].pos <= SizeOf(file[e])'
    <3>1. /\ file[e].kind # "dev" => file[e].inst \in Mounted
          /\ file[e].pos <= SizeOf(file[e])
      BY <1>1, <2>1 DEF EntriesNamed, PosInside
    <3>2. SizeOf(file[e])' = SizeOf(file[e])
      BY <1>3, <1>10, <3>1 DEF SizeOf
    <3>3. QED
      BY <3>1, <3>2
  <2>2. QED
    BY <1>3, <2>1 DEF PosInside, Readable
<1>15. NoFdsYet' /\ FdsOpen' /\ OrphansNeedFullTable'
  BY <1>1, <1>3 DEF NoFdsYet, FdsOpen, OrphansNeedFullTable, FreeFds
<1>16. QED
  BY <1>12, <1>13, <1>14, <1>15 DEF VfsInv

(* A mount that fails only counts. *)
LEMMA MountFailsVfs ==
  ASSUME VfsInv, NEW path \in MountPaths, MountFails(path)
  PROVE  VfsInv'
<1> DEFINE r == ResolvIno(path)
<1>1. TypeOK /\ Mountable(path) /\ opened' = CountUse(path) /\ UNCHANGED <<mount, file, procs, fd, wild>>
  BY DEF VfsInv, MountFails
<1>2. path # <<Nothing>> => r.mp \in Mp
  BY <1>1, ResolveShape, MountShape DEF Mountable, TypeOK
<1>3. opened' \in [Mp -> Nat]
  BY <1>1, <1>2 DEF CountUse, TypeOK
<1>4. TypeOK'
  BY <1>1, <1>3 DEF TypeOK, MountType
<1>5. QED
  BY <1>1, <1>4 DEF VfsInv, EntriesNamed, NoFdsYet, FdsOpen, PosInside, Readable, SizeOf, DeviceOf,
                    MountAt, Mounted, OrphansNeedFullTable, FreeFds

(* The entry open takes was not in use, so no descriptor led to it; it gets *)
(* a descriptor, unless the process has none left.                          *)
LEMMA OpenVfs ==
  ASSUME VfsInv, NEW p \in Proc, NEW path \in Paths, Open(p, path)
  PROVE  VfsInv'
<1> DEFINE r == ResolvIno(path)
           a == AllocFile
           x == OpenEntry(r)
           k == CHOOSE k \in FreeFds(p) : \A j \in FreeFds(p) : k <= j
<1>1. TypeOK /\ EntriesNamed /\ NoFdsYet /\ FdsOpen /\ PosInside /\ OrphansNeedFullTable
  BY DEF VfsInv
<1>2. /\ p \in procs /\ ~OpenFails(path)
      /\ file' = [file EXCEPT ![a] = x]
      /\ opened' = CountOpen(r)
      /\ fd' = IF FreeFds(p) = {} THEN fd ELSE [fd EXCEPT ![p][k] = a]
      /\ UNCHANGED <<mount, procs, wild>>
  BY DEF Open
<1>3. r.mp \in Mounted /\ r.ino \in Ino
  BY <1>1, <1>2, ResolveShape DEF OpenFails, TypeOK
<1>4. a \in Entry /\ ~file[a].used
  BY <1>2, AllocShape DEF OpenFails
<1>5. /\ x \in FileRecord /\ x.used /\ x.ref = 1 /\ x.pos = 0
      /\ x.kind # "dev" => x.inst = r.mp /\ x.ino = r.ino
  BY <1>1, <1>3, OpenShape DEF TypeOK
<1>6. FreeFds(p) # {} => k \in Fd /\ fd[p][k] = None
  BY FreeFdShape
<1>7. Mp \subseteq Nat /\ r.mp \in Mp /\ DeviceOf(r.mp) \in Device
  BY <1>1, <1>3, MountShape, TableAssumption DEF TypeOK, Mp
<1>8. \A q \in Proc, j \in Fd : fd[q][j] # a
  BY <1>1, <1>4, NoneIsNoEntry DEF FdsOpen
<1>9. opened' \in [Mp -> Nat]
  <2>1. opened \in [Mp -> Nat] /\ opened' = [opened EXCEPT ![r.mp] = @ + 1]
    BY <1>1, <1>2 DEF CountOpen, TypeOK
  <2> DEFINE m == r.mp
  <2>2. m \in Mp /\ opened' = [opened EXCEPT ![m] = @ + 1]
    BY <1>7, <2>1
  <2> HIDE DEF m
  <2>3. QED
    BY <2>1, <2>2
<1> HIDE DEF r, a, x, k
<1>10. file' \in [Entry -> FileRecord]
  BY <1>1, <1>2, <1>4, <1>5 DEF TypeOK
<1>11. fd' \in [Proc -> [Fd -> Entry \cup {None}]]
  BY <1>1, <1>2, <1>4, <1>6 DEF TypeOK
<1>12. TypeOK'
  BY <1>1, <1>2, <1>9, <1>10, <1>11 DEF TypeOK, MountType
<1>13. ASSUME NEW e \in Entry PROVE file'[e] = IF e = a THEN x ELSE file[e]
  BY <1>1, <1>2, <1>4 DEF TypeOK
<1>14. ASSUME NEW q \in Proc, NEW j \in Fd
       PROVE  \/ fd'[q][j] = fd[q][j]
              \/ q = p /\ j = k /\ FreeFds(p) # {} /\ fd[q][j] = None /\ fd'[q][j] = a
  BY <1>1, <1>2, <1>6 DEF TypeOK
<1>15. Mounted' = Mounted
  BY <1>2 DEF Mounted
<1>16. EntriesNamed'
  BY <1>1, <1>3, <1>5, <1>13, <1>15 DEF EntriesNamed
<1>17. PosInside'
  <2>1. ASSUME NEW e \in Entry, file'[e].used, Readable(file[e])'
        PROVE  file'[e].pos <= SizeOf(file[e])'
    <3>1. CASE e = a
      <4>1. file'[e] = x
        BY <1>13, <3>1
      <4>2. SizeOf(file[e])' = SizeOf(x)
        BY <1>2, <4>1 DEF SizeOf, DeviceOf, MountAt
      <4>3. Readable(x)
        BY <2>1, <4>1 DEF Readable
      <4>4. SizeOf(x) \in Nat
        BY <1>1, <1>3, <1>5, <4>3, ReadableShape DEF TypeOK
      <4>5. QED
        BY <1>5, <4>1, <4>2, <4>4
    <3>2. CASE e # a
      <4>1. file'[e] = file[e]
        BY <1>13, <3>2
      <4>2. SizeOf(file[e])' = SizeOf(file[e])
        BY <1>2, <4>1 DEF SizeOf, DeviceOf, MountAt
      <4>3. QED
        BY <1>1, <2>1, <4>1, <4>2 DEF PosInside, Readable
    <3>3. QED
      BY <3>1, <3>2
  <2>2. QED
    BY <2>1 DEF PosInside
<1>18. NoFdsYet'
  BY <1>1, <1>2, <1>14 DEF NoFdsYet
<1>19. FdsOpen'
  <2>1. ASSUME NEW q \in Proc, NEW j \in Fd, fd'[q][j] # None
        PROVE  file'[fd'[q][j]].used
    <3>1. CASE fd'[q][j] = fd[q][j]
      <4>1. fd[q][j] \in Entry /\ file[fd[q][j]].used
        BY <1>1, <2>1, <3>1 DEF FdsOpen, TypeOK
      <4>2. QED
        BY <1>5, <1>13, <3>1, <4>1
    <3>2. CASE fd'[q][j] = a
      BY <1>4, <1>5, <1>13, <3>2
    <3>3. QED
      BY <1>14, <3>1, <3>2
  <2>2. QED
    BY <2>1 DEF FdsOpen
<1>20. OrphansNeedFullTable'
  <2>1. SUFFICES ASSUME NEW e \in Entry \ {0, 1}, file'[e].used,
                        \A q \in Proc, j \in Fd : fd'[q][j] # e
                 PROVE  \E q \in procs : FreeFds(q)' = {}
    BY <1>2 DEF OrphansNeedFullTable
  <2>2. CASE FreeFds(p) = {}
    <3>1. FreeFds(p)' = {}
      BY <1>2, <2>2 DEF FreeFds
    <3>2. QED
      BY <1>2, <3>1
  <2>3. CASE FreeFds(p) # {}
    <3>1. fd'[p][k] = a
      BY <1>1, <1>2, <1>6, <2>3 DEF TypeOK
    <3>2. e # a /\ file[e].used
      BY <1>6, <1>13, <2>1, <2>3, <3>1
    <3>3. \A q \in Proc, j \in Fd : fd[q][j] # e
      BY <1>14, <2>1, <3>2, NoneIsNoEntry
    <3>4. PICK q \in procs : FreeFds(q) = {}
      BY <1>1, <2>1, <3>2, <3>3 DEF OrphansNeedFullTable
    <3>5. q # p /\ q \in Proc
      BY <1>1, <2>3, <3>4 DEF TypeOK
    <3>6. FreeFds(q)' = {}
      BY <1>14, <3>4, <3>5 DEF FreeFds
    <3>7. QED
      BY <3>6
  <2>4. QED
    BY <2>2, <2>3
<1>21. QED
  BY <1>12, <1>16, <1>17, <1>18, <1>19, <1>20 DEF VfsInv

(* A read stops at the end of the file or of the memory block. *)
LEMMA ReadVfs ==
  ASSUME VfsInv, NEW p \in Proc, NEW k \in Fd, NEW count \in Counts, Read(p, k, count)
  PROVE  VfsInv'
<1> DEFINE e == fd[p][k]
           n == BytesRead(e, count)
<1>1. TypeOK /\ EntriesNamed /\ NoFdsYet /\ FdsOpen /\ PosInside /\ OrphansNeedFullTable
  BY DEF VfsInv
<1>2. /\ e # None /\ file[e].used /\ Readable(file[e]) /\ n > 0
      /\ file' = [file EXCEPT ![e].pos = @ + n]
      /\ UNCHANGED <<mount, opened, procs, fd, wild>>
  BY DEF Read
<1>3. e \in Entry /\ file[e] \in FileRecord
  BY <1>1, <1>2 DEF TypeOK
<1>4. /\ file[e].kind # "dev" => file[e].inst \in Mounted /\ file[e].ino \in Ino
      /\ file[e].pos \in Nat /\ file[e].pos <= SizeOf(file[e])
  BY <1>1, <1>2, <1>3 DEF EntriesNamed, PosInside, FileRecord
<1>5. SizeOf(file[e]) \in Nat
  BY <1>1, <1>2, <1>4, ReadableShape DEF TypeOK
<1>6. count \in Nat
  BY CallAssumption
<1>7. n \in Nat /\ file[e].pos + n <= SizeOf(file[e])
  BY <1>2, <1>4, <1>5, <1>6 DEF BytesRead
<1> HIDE DEF n, e
<1>8. ASSUME NEW f \in Entry
      PROVE  /\ f # e => file'[f] = file[f]
             /\ file'[f].pos = IF f = e THEN file[f].pos + n ELSE file[f].pos
             /\ file'[f].used = file[f].used /\ file'[f].kind = file[f].kind
             /\ file'[f].inst = file[f].inst /\ file'[f].ino = file[f].ino
             /\ file'[f].ref = file[f].ref
             /\ file'[f] \in FileRecord
  BY <1>1, <1>2, <1>3, <1>4, <1>7 DEF TypeOK, FileRecord
<1>9. TypeOK'
  <2>1. file' \in [Entry -> FileRecord]
    BY <1>1, <1>2, <1>8 DEF TypeOK
  <2>2. QED
    BY <1>1, <1>2, <2>1 DEF TypeOK, MountType
<1>10. \A f \in Entry : SizeOf(file[f])' = SizeOf(file[f])
  BY <1>2, <1>8 DEF SizeOf, DeviceOf, MountAt
<1>11. PosInside'
  <2>1. ASSUME NEW f \in Entry, file'[f].used, Readable(file[f])'
        PROVE  file'[f].pos <= SizeOf(file[f])'
    <3>1. Readable(file[f]) /\ file[f].used
      BY <1>8, <2>1 DEF Readable
    <3>2. QED
      BY <1>1, <1>7, <1>8, <1>10, <2>1, <3>1 DEF PosInside
  <2>2. QED
    BY <2>1 DEF PosInside
<1>12. EntriesNamed'
  BY <1>1, <1>2, <1>8 DEF EntriesNamed, Mounted
<1>13. FdsOpen'
  BY <1>1, <1>2, <1>8 DEF FdsOpen, TypeOK
<1>14. NoFdsYet' /\ OrphansNeedFullTable'
  BY <1>1, <1>2, <1>8 DEF NoFdsYet, OrphansNeedFullTable, FreeFds
<1>15. QED
  BY <1>9, <1>11, <1>12, <1>13, <1>14 DEF VfsInv

(* A write to a missing device changes no table before it is lost. *)
LEMMA WriteVfs ==
  ASSUME VfsInv, NEW p \in Proc, NEW k \in Fd, WriteNoDevice(p, k)
  PROVE  VfsInv'
BY DEF WriteNoDevice, VfsInv, TypeOK, MountType, EntriesNamed, NoFdsYet, FdsOpen, PosInside, Readable, SizeOf,
       DeviceOf, MountAt, Mounted, OrphansNeedFullTable, FreeFds

(* A child starts with the descriptors of its parent and had none before. *)
LEMMA ForkVfs ==
  ASSUME VfsInv, NEW p \in Proc, NEW q \in Proc, Fork(p, q)
  PROVE  VfsInv'
<1>1. TypeOK /\ EntriesNamed /\ NoFdsYet /\ FdsOpen /\ PosInside /\ OrphansNeedFullTable
  BY DEF VfsInv
<1>2. /\ p \in procs /\ q \notin procs /\ procs' = procs \cup {q}
      /\ fd' = [fd EXCEPT ![q] = fd[p]]
      /\ UNCHANGED <<mount, opened, file, wild>>
  BY DEF Fork
<1>3. TypeOK'
  BY <1>1, <1>2 DEF TypeOK, MountType
<1>4. EntriesNamed' /\ PosInside'
  BY <1>1, <1>2 DEF EntriesNamed, PosInside, Readable, SizeOf, DeviceOf, MountAt, Mounted
<1>5. ASSUME NEW o \in Proc PROVE fd'[o] = IF o = q THEN fd[p] ELSE fd[o]
  BY <1>1, <1>2 DEF TypeOK
<1>6. NoFdsYet'
  BY <1>1, <1>2, <1>5 DEF NoFdsYet
<1>7. FdsOpen'
  BY <1>1, <1>2, <1>5 DEF FdsOpen
<1>8. OrphansNeedFullTable'
  <2>1. SUFFICES ASSUME NEW e \in Entry \ {0, 1}, file[e].used,
                        \A o \in Proc, j \in Fd : fd'[o][j] # e
                 PROVE  \E o \in procs' : FreeFds(o)' = {}
    BY <1>2 DEF OrphansNeedFullTable
  <2>2. \A o \in Proc, j \in Fd : fd[o][j] # e
    BY <1>1, <1>2, <1>5, <2>1, NoneIsNoEntry DEF NoFdsYet
  <2>3. PICK o \in procs : FreeFds(o) = {}
    BY <1>1, <2>1, <2>2 DEF OrphansNeedFullTable
  <2>4. o \in Proc /\ o # q
    BY <1>1, <1>2, <2>3 DEF TypeOK
  <2>5. FreeFds(o)' = {}
    BY <1>5, <2>3, <2>4 DEF FreeFds
  <2>6. QED
    BY <1>2, <2>3, <2>5
<1>9. QED
  BY <1>3, <1>4, <1>6, <1>7, <1>8 DEF VfsInv

(* execve gives back the entry it took, and touches no other. *)
LEMMA ExecveVfs ==
  ASSUME VfsInv, NEW p \in Proc, NEW path \in Paths, Execve(p, path)
  PROVE  VfsInv'
<1> DEFINE r == ResolvIno(path)
           a == AllocFile
           x == OpenEntry(r)
           y == IF x.kind = "file" THEN [x EXCEPT !.pos = SizeOf(x)] ELSE x
           z == CloseEntry(y)
<1>1. TypeOK /\ EntriesNamed /\ NoFdsYet /\ FdsOpen /\ PosInside /\ OrphansNeedFullTable
  BY DEF VfsInv
<1>2. /\ ~OpenFails(path) /\ x.kind # "dev" /\ file' = [file EXCEPT ![a] = z]
      /\ UNCHANGED <<mount, opened, procs, fd, wild>>
  BY DEF Execve
<1>3. r.mp \in Mounted /\ r.ino \in Ino
  BY <1>1, <1>2, ResolveShape DEF OpenFails, TypeOK
<1>4. a \in Entry /\ ~file[a].used
  BY <1>2, AllocShape DEF OpenFails
<1>5. /\ x \in FileRecord /\ x.ref = 1
      /\ x.inst = r.mp /\ x.ino = r.ino
  BY <1>1, <1>2, <1>3, OpenShape DEF TypeOK
<1>6. SizeOf(x) \in Nat
  <2>1. DeviceOf(r.mp) \in Device
    BY <1>1, <1>3, MountShape DEF TypeOK
  <2> HIDE DEF r, x
  <2>2. QED
    BY <1>2, <1>3, <1>5, <2>1, SizeShape DEF SizeOf
<1> HIDE DEF r, a, x
<1>7. y \in FileRecord /\ y.ref = 1
  BY <1>5, <1>6 DEF FileRecord
<1> HIDE DEF y
<1>8. z \in FileRecord /\ z.used = FALSE
  <2> DEFINE w == [y EXCEPT !.ref = @ - 1]
  <2>1. w \in FileRecord
    BY <1>7 DEF FileRecord
  <2>2. (y.ref # 1) = FALSE
    BY <1>7
  <2>3. z = [w EXCEPT !.used = FALSE]
    BY <2>2 DEF CloseEntry
  <2> HIDE DEF w, z
  <2>4. QED
    BY <2>1, <2>3 DEF FileRecord
<1> HIDE DEF z
<1>9. ASSUME NEW e \in Entry PROVE file'[e] = IF e = a THEN z ELSE file[e]
  BY <1>1, <1>2, <1>4 DEF TypeOK
<1>10. ASSUME NEW e \in Entry PROVE file'[e].used => file'[e] = file[e] /\ file[e].used
  BY <1>8, <1>9
<1>11. file' \in [Entry -> FileRecord]
  BY <1>1, <1>2, <1>8 DEF TypeOK
<1>12. TypeOK'
  BY <1>1, <1>2, <1>11 DEF TypeOK, MountType
<1>13. EntriesNamed'
  BY <1>1, <1>2, <1>10 DEF EntriesNamed, Mounted
<1>14. PosInside'
  BY <1>1, <1>2, <1>10 DEF PosInside, Readable, SizeOf, DeviceOf, MountAt
<1>15. FdsOpen'
  BY <1>1, <1>2, <1>4, <1>9 DEF FdsOpen, TypeOK
<1>16. NoFdsYet' /\ OrphansNeedFullTable'
  BY <1>1, <1>2, <1>10 DEF NoFdsYet, OrphansNeedFullTable, FreeFds
<1>17. QED
  BY <1>12, <1>13, <1>14, <1>15, <1>16 DEF VfsInv

(* Every call preserves the invariant. *)
LEMMA NextVfs ==
  ASSUME VfsInv, [Next]_vars
  PROVE  VfsInv'
<1>1. CASE UNCHANGED vars
  BY <1>1 DEF vars, VfsInv, TypeOK, MountType, EntriesNamed, NoFdsYet, FdsOpen, PosInside, Readable, SizeOf,
              DeviceOf, MountAt, Mounted, OrphansNeedFullTable, FreeFds
<1>2. CASE \E p \in Proc, path \in Paths : ExecveHalts(p, path)
  BY <1>2 DEF ExecveHalts, VfsInv, TypeOK, MountType, EntriesNamed, NoFdsYet, FdsOpen, PosInside,
              Readable, SizeOf, DeviceOf, MountAt, Mounted, OrphansNeedFullTable, FreeFds
<1>3. QED
  BY <1>1, <1>2, MountVfs, MountFailsVfs, OpenVfs, ReadVfs, WriteVfs, ForkVfs, ExecveVfs DEF Next, Wild

(* The inductive invariant of the file tables, for any images, mounts and   *)
(* processes.                                                               *)
THEOREM Invariance == Spec => []VfsInv
<1>1. Init => VfsInv
  BY InitVfs
<1>2. VfsInv /\ [Next]_vars => VfsInv'
  BY NextVfs
<1>3. QED
  BY <1>1, <1>2, PTL DEF Spec

(* No descriptor of any process leads to an entry that was given back, also *)
(* after any sequence of fork, open and execve.                             *)
THEOREM FdsStayOpen == Spec => []FdsOpen
<1>1. VfsInv => FdsOpen
  BY DEF VfsInv
<1>2. QED
  BY <1>1, Invariance, PTL

(* No position lies behind the end of its file or memory block, whoever     *)
(* shares the entry and whatever is mounted meanwhile.                      *)
THEOREM PositionsInside == Spec => []PosInside
<1>1. VfsInv => PosInside
  BY DEF VfsInv
<1>2. QED
  BY <1>1, Invariance, PTL

(* An entry is lost only by a process whose file table is full. *)
THEOREM OrphansExplained == Spec => []OrphansNeedFullTable
<1>1. VfsInv => OrphansNeedFullTable
  BY DEF VfsInv
<1>2. QED
  BY <1>1, Invariance, PTL

(* An entry in use is not among those open and execve take. *)
LEMMA StepKeepsFile ==
  ASSUME VfsInv, Next, NEW e \in Entry, file[e].used
  PROVE  file'[e].inst = file[e].inst /\ file'[e].ino = file[e].ino /\ file'[e].pos >= file[e].pos
<1>1. TypeOK /\ file \in [Entry -> FileRecord] /\ file[e].pos \in Nat
  BY DEF VfsInv, TypeOK, FileRecord
<1>2. CASE file' = file
  BY <1>1, <1>2
<1>3. ASSUME NEW p \in Proc, NEW path \in Paths, Open(p, path) \/ Execve(p, path)
      PROVE  file'[e] = file[e]
  <2>1. AllocFile # None
    BY <1>3 DEF Open, Execve, OpenFails
  <2>2. AllocFile \in Entry /\ AllocFile # e
    BY <2>1, AllocShape
  <2>3. \E x : file' = [file EXCEPT ![AllocFile] = x]
    BY <1>3 DEF Open, Execve
  <2>4. QED
    BY <1>1, <2>2, <2>3
<1>4. ASSUME NEW p \in Proc, NEW k \in Fd, NEW count \in Counts, Read(p, k, count)
      PROVE  /\ file'[e].inst = file[e].inst /\ file'[e].ino = file[e].ino
             /\ file'[e].pos >= file[e].pos
  <2> DEFINE n == BytesRead(fd[p][k], count)
  <2>1. n > 0 /\ n \in Int /\ file' = [file EXCEPT ![fd[p][k]].pos = @ + n]
    <3>1. n > 0 /\ file' = [file EXCEPT ![fd[p][k]].pos = @ + n]
      BY <1>4 DEF Read
    <3>2. n \in Int
      <4>1. /\ fd[p][k] \in Entry /\ file[fd[p][k]].used /\ Readable(file[fd[p][k]])
            /\ file[fd[p][k]].pos \in Nat
        BY <1>1, <1>4 DEF Read, TypeOK, FileRecord
      <4>2. file[fd[p][k]].kind # "dev" =>
              file[fd[p][k]].inst \in Mounted /\ file[fd[p][k]].ino \in Ino
        BY <4>1 DEF VfsInv, EntriesNamed
      <4>3. SizeOf(file[fd[p][k]]) \in Nat
        BY <1>1, <4>1, <4>2, ReadableShape DEF TypeOK
      <4>4. count \in Nat
        BY CallAssumption
      <4>5. QED
        BY <4>1, <4>3, <4>4 DEF BytesRead
    <3>3. QED
      BY <3>1, <3>2
  <2> HIDE DEF n
  <2>2. QED
    BY <1>1, <2>1 DEF FileRecord
<1>5. CASE \E p \in Proc, path \in Paths : Open(p, path) \/ Execve(p, path)
  BY <1>1, <1>3, <1>5
<1>6. CASE \E p \in Proc, k \in Fd, count \in Counts : Read(p, k, count)
  BY <1>4, <1>6
<1>7. QED
  BY <1>2, <1>5, <1>6 DEF Next, Mount, MountFails, WriteNoDevice, Fork, ExecveHalts, Wild, vars

(* No step of any process changes which file an open entry stands for, or   *)
(* moves its position back.                                                 *)
THEOREM FilesKept == Spec => EntriesKeepTheirFile
<1>1. VfsInv /\ [Next]_vars =>
        [\A e \in Entry :
           file[e].used => /\ file'[e].inst = file[e].inst /\ file'[e].ino = file[e].ino
                           /\ file'[e].pos >= file[e].pos]_vars
  BY StepKeepsFile
<1>2. QED
  BY <1>1, Invariance, PTL DEF Spec, EntriesKeepTheirFile

-----------------------------------------------------------------------------
(* What one component does to the reference for path resolution. *)
RefStep(h, name) ==
  IF name = Nothing \/ h.err # "ok" THEN h ELSE Hidden(RomfsStat(h.mp, h.ino, name))

(* What hides an inode is the first file system mounted on it. *)
LEMMA HiddenIs ==
  ASSUME NEW r, r.err = "ok"
  PROVE  Hidden(r) = IF MountedOn(r.mp, r.ino) = {} THEN r
                     ELSE Found(CHOOSE k \in MountedOn(r.mp, r.ino) :
                                  \A j \in MountedOn(r.mp, r.ino) : k <= j, 0)
BY DEF Hidden, MountedOn

(* What hides an answer is an answer. *)
LEMMA HiddenShape ==
  ASSUME MountType, NEW r \in Result
  PROVE  Hidden(r) \in Result
<1>1. CASE r.err # "ok"
  BY <1>1 DEF Hidden
<1>2. CASE r.err = "ok" /\ MountedOn(r.mp, r.ino) = {}
  BY <1>2, HiddenIs
<1>3. CASE r.err = "ok" /\ MountedOn(r.mp, r.ino) # {}
  <2>1. Hidden(r) = Into(r)
    BY <1>3, HiddenIs DEF Into
  <2>2. QED
    BY <1>3, <2>1, IntoShape
<1>4. QED
  BY <1>1, <1>2, <1>3

(* The reference, too, goes from answer to answer. *)
LEMMA RefStepShape ==
  ASSUME MountType, NEW h \in Result, NEW name
  PROVE  RefStep(h, name) \in Result
<1>1. h.err = "ok" => RomfsStat(h.mp, h.ino, name) \in Result
  BY ResultShape, StatShape
<1>2. QED
  BY <1>1, HiddenShape DEF RefStep

(* Nothing hides the root of an image. *)
LEMMA RootNotHidden ==
  ASSUME RootsUncovered, NEW m
  PROVE  Hidden(Found(m, 0)) = Found(m, 0)
<1>1. Found(m, 0).err = "ok" /\ Found(m, 0).mp = m /\ Found(m, 0).ino = 0
  BY DEF Found
<1>2. MountedOn(m, 0) = {}
  BY DEF MountedOn, RootsUncovered
<1>3. QED
  BY <1>1, <1>2, HiddenIs

NoDir(h) == h.err = "ok" /\ Kind[DeviceOf(h.mp)][h.ino] # "dir"

(* How the answer r of the code and the answer h of the reference relate    *)
(* after a component: the same, but for what is mounted at the last one, or *)
(* the code has refused a file sooner than the reference, which passes over *)
(* empty components.                                                        *)
Related(r, h, name) ==
  \/ Hidden(r) = h
  \/ r = ENOTDIR /\ NoDir(h) /\ name = Nothing

(* An error is no success, and nothing hides it. *)
LEMMA ErrorShape == ENOTDIR.err # "ok" /\ ENOENT.err # "ok" /\ Hidden(ENOTDIR) = ENOTDIR
BY DEF ENOTDIR, ENOENT, Hidden

(* The reference finds no name below a file. *)
LEMMA StatOfFile ==
  ASSUME NEW h, NoDir(h), NEW name, name # Nothing
  PROVE  RefStep(h, name) = ENOTDIR
<1>1. RomfsStat(h.mp, h.ino, name) = ENOTDIR
  BY DEF NoDir, RomfsStat
<1>2. QED
  BY <1>1, ErrorShape DEF NoDir, RefStep

(* One more component keeps the two answers related. *)
LEMMA StepRelated ==
  ASSUME MountType, RootsUncovered, NEW r \in Result, NEW h \in Result, NEW before, NEW name,
         Related(r, h, before)
  PROVE  Related(Step(r, name), RefStep(h, name), name)
<1> DEFINE over == MountedOn(r.mp, r.ino)
<1>1. CASE r.err # "ok" /\ Hidden(r) = h
  BY <1>1 DEF Step, RefStep, Hidden, Related
<1>2. CASE r = ENOTDIR /\ NoDir(h)
  <2>1. Step(r, name) = ENOTDIR
    BY <1>2, ErrorShape DEF Step
  <2>2. CASE name = Nothing
    BY <1>2, <2>1, <2>2 DEF RefStep, Related
  <2>3. CASE name # Nothing
    BY <1>2, <2>1, <2>3, StatOfFile, ErrorShape DEF Related
  <2>4. QED
    BY <2>2, <2>3
<1>3. ASSUME NEW m, NEW i, h = Found(m, i), Into(r) = h, r.err = "ok", Hidden(h) = h
      PROVE  Related(Step(r, name), RefStep(h, name), name)
  <2>1. h.err = "ok" /\ h.mp = m /\ h.ino = i
    BY <1>3 DEF Found
  <2>2. Step(r, name) = RomfsStat(m, i, name)
    BY <1>3, <2>1 DEF Step
  <2>3. CASE name = Nothing
    <3>1. RomfsStat(m, i, name) = h /\ RefStep(h, name) = h
      BY <1>3, <2>3 DEF RomfsStat, RefStep
    <3>2. QED
      BY <1>3, <2>2, <3>1 DEF Related
  <2>4. CASE name # Nothing
    BY <2>1, <2>2, <2>4 DEF RefStep, Related
  <2>5. QED
    BY <2>3, <2>4
<1>4. CASE r.err = "ok" /\ Hidden(r) = h /\ over # {}
  <2> DEFINE m == CHOOSE k \in over : \A j \in over : k <= j
  <2>1. Into(r) = Found(m, 0) /\ h = Found(m, 0)
    BY <1>4, HiddenIs DEF Into
  <2> HIDE DEF m
  <2>2. Hidden(h) = h
    BY <2>1, RootNotHidden
  <2>3. QED
    BY <1>3, <1>4, <2>1, <2>2
<1>5. CASE r.err = "ok" /\ Hidden(r) = h /\ over = {}
  <2>1. h = r /\ r = Found(r.mp, r.ino)
    BY <1>5, HiddenIs, ResultShape
  <2>2. CASE Kind[DeviceOf(r.mp)][r.ino] = "dir"
    <3>1. Into(r) = r
      BY <1>5, <2>2 DEF Into
    <3>2. QED
      BY <1>3, <1>5, <2>1, <3>1
  <2>3. CASE Kind[DeviceOf(r.mp)][r.ino] # "dir"
    <3>1. Into(r) = ENOTDIR
      BY <1>5, <2>3 DEF Into
    <3>2. Step(r, name) = ENOTDIR
      BY <1>5, <3>1, ErrorShape DEF Step
    <3>3. NoDir(h)
      BY <1>5, <2>1, <2>3 DEF NoDir
    <3>4. CASE name = Nothing
      BY <3>2, <3>3, <3>4 DEF RefStep, Related
    <3>5. CASE name # Nothing
      BY <3>2, <3>3, <3>5, StatOfFile, ErrorShape DEF Related
    <3>6. QED
      BY <3>4, <3>5
  <2>4. QED
    BY <2>2, <2>3
<1>6. QED
  BY <1>1, <1>2, <1>4, <1>5 DEF Related

(* The recursive function of the reference is what it says. *)
LEMMA RefSteps ==
  ASSUME MountType, NEW path, Len(path) \in Nat \ {0}
  PROVE  \E g \in [0 .. Len(path) -> Result] :
           /\ g[0] = Found(0, 0)
           /\ \A k \in 1 .. Len(path) : g[k] = RefStep(g[k - 1], path[k])
           /\ Reference(path) = IF path[Len(path)] = Nothing /\ NoDir(g[Len(path)])
                                THEN ENOTDIR ELSE g[Len(path)]
<1> DEFINE N == Len(path)
           Body(at, k) ==
             IF k = 0 THEN Found(0, 0)
             ELSE IF path[k] = Nothing \/ at[k - 1].err # "ok" THEN at[k - 1]
             ELSE Hidden(RomfsStat(at[k - 1].mp, at[k - 1].ino, path[k]))
           at == CHOOSE at : at = [k \in 0 .. N |-> Body(at, k)]
<1>1. Reference(path) = IF /\ at[N].err = "ok" /\ path[N] = Nothing
                           /\ Kind[DeviceOf(at[N].mp)][at[N].ino] # "dir"
                        THEN ENOTDIR ELSE at[N]
  BY DEF Reference
<1>2. ASSUME NEW g, NEW k \in 0 .. N
      PROVE  Body(g, k) = IF k = 0 THEN Found(0, 0) ELSE RefStep(g[k - 1], path[k])
  BY <1>2 DEF RefStep
<1>3. Found(0, 0) \in Result
  BY RootShape DEF Found, Result
<1>4. \A h \in Result, k \in 1 .. N : RefStep(h, path[k]) \in Result
  BY RefStepShape
<1> DEFINE step == [k \in 1 .. N |-> [h \in Result |-> RefStep(h, path[k])]]
<1>5. StepsIn(Result, N, step)
  BY <1>4 DEF StepsIn
<1>6. PICK g : IsRun(g, Result, N, Found(0, 0), step)
  <2> HIDE DEF step, N
  <2>1. N \in Nat
    BY DEF N
  <2>2. QED
    BY <1>3, <1>5, <2>1, Recursion
<1> HIDE DEF Body, at, N
<1>7. N \in Nat \ {0}
  BY DEF N
<1>8. g \in [0 .. N -> Result] /\ g[0] = Found(0, 0) /\ \A k \in 1 .. N : g[k] = RefStep(g[k - 1], path[k])
  <2>1. g \in [0 .. N -> Result] /\ g[0] = Found(0, 0)
    BY <1>6 DEF IsRun
  <2>2. ASSUME NEW k \in 1 .. N PROVE g[k] = RefStep(g[k - 1], path[k])
    <3>1. g[k - 1] \in Result
      BY <1>7, <2>1
    <3>2. g[k] = step[k][g[k - 1]]
      BY <1>6 DEF IsRun
    <3>3. QED
      BY <3>1, <3>2
  <2>3. QED
    BY <2>1, <2>2
<1> HIDE DEF step
<1>9. g = [k \in 0 .. N |-> Body(g, k)]
  <2>1. \A k \in 0 .. N : g[k] = Body(g, k)
    BY <1>2, <1>7, <1>8
  <2>2. QED
    BY <1>8, <2>1
<1>10. at = [k \in 0 .. N |-> Body(at, k)]
  BY <1>9 DEF at
<1>11. at[0] = Found(0, 0) /\ \A k \in 1 .. N : at[k] = RefStep(at[k - 1], path[k])
  <2>1. \A k \in 0 .. N : at[k] = Body(at, k)
    BY <1>10
  <2>2. QED
    BY <1>2, <1>7, <2>1
<1>12. \A k \in 0 .. N : at[k] \in Result
  <2> DEFINE T == {k \in Nat : k <= N => at[k] \in Result}
  <2>1. 0 \in T
    BY <1>3, <1>11
  <2>2. ASSUME NEW k \in Nat, k \in T PROVE k + 1 \in T
    <3>1. SUFFICES ASSUME k + 1 <= N PROVE at[k + 1] \in Result
      OBVIOUS
    <3>2. at[k] \in Result /\ k + 1 \in 1 .. N /\ (k + 1) - 1 = k
      BY <2>2, <3>1, <1>7
    <3>3. QED
      BY <1>4, <1>11, <3>2
  <2> HIDE DEF T
  <2>3. Nat \subseteq T
    BY <2>1, <2>2, Induction
  <2>4. QED
    BY <1>7, <2>3 DEF T
<1>13. at \in [0 .. N -> Result]
  <2>1. DOMAIN at = 0 .. N /\ at = [k \in DOMAIN at |-> at[k]]
    BY <1>10
  <2>2. QED
    BY <1>12, <2>1
<1>14. QED
  BY <1>1, <1>11, <1>13 DEF N, NoDir

(* Path resolution and the reference agree on every path. *)
LEMMA PathAgrees ==
  ASSUME MountType, RootsUncovered, NEW S, NEW path \in Seq(S), path # <<>>
  PROVE  Agrees(path)
<1> DEFINE tokens == Tokens(path)
           M == Len(path)
<1>1. M \in Nat \ {0}
  OBVIOUS
<1>2. PICK L, s : IsTokens(path, L, s)
  BY TokensAre
<1> DEFINE n == L - s
<1>3. /\ L \in Nat /\ s \in Nat /\ n \in Nat \ {0} /\ L = n + s /\ L <= M /\ M <= L + 1
      /\ Len(tokens) = n
  BY <1>1, <1>2 DEF IsTokens
<1>4. PICK f \in [1 .. n -> Result] :
        /\ f[1] = RomfsStat(0, 0, tokens[1])
        /\ \A k \in 2 .. n : f[k] = Step(f[k - 1], tokens[k])
        /\ Walk(tokens) = f[n]
  <2>1. Len(tokens) \in Nat \ {0}
    BY <1>3
  <2> HIDE DEF n, tokens
  <2>2. QED
    BY <1>3, <2>1, WalkSteps
<1>5. PICK g \in [0 .. M -> Result] :
        /\ g[0] = Found(0, 0)
        /\ \A k \in 1 .. M : g[k] = RefStep(g[k - 1], path[k])
        /\ Reference(path) = IF path[M] = Nothing /\ NoDir(g[M]) THEN ENOTDIR ELSE g[M]
  BY <1>1, RefSteps
<1>6. /\ tokens[1] = path[1] /\ \A k \in 2 .. n : tokens[k] = path[k + s]
      /\ \A j \in 2 .. s + 1 : path[j] = Nothing
      /\ L < M => path[M] = Nothing
      /\ L = M /\ L > 1 => path[L] # Nothing
  BY <1>2 DEF IsTokens
<1> HIDE DEF n, M, tokens
<1>7. \A j \in 1 .. s + 1 : g[j] = g[1]
  <2> DEFINE T == {j \in Nat : j <= s => g[j + 1] = g[1]}
  <2>1. 0 \in T
    OBVIOUS
  <2>2. ASSUME NEW j \in Nat, j \in T PROVE j + 1 \in T
    <3>1. SUFFICES ASSUME j + 1 <= s PROVE g[(j + 1) + 1] = g[1]
      OBVIOUS
    <3>2. (j + 1) + 1 \in 1 .. M /\ (j + 1) + 1 \in 2 .. s + 1 /\ ((j + 1) + 1) - 1 = j + 1
      BY <1>1, <1>3, <3>1
    <3>3. g[(j + 1) + 1] = RefStep(g[j + 1], path[(j + 1) + 1]) /\ path[(j + 1) + 1] = Nothing
      BY <1>5, <1>6, <3>2
    <3>4. g[j + 1] = g[1]
      BY <1>3, <2>2, <3>1
    <3>5. QED
      BY <3>3, <3>4 DEF RefStep
  <2> HIDE DEF T
  <2>3. Nat \subseteq T
    BY <2>1, <2>2, Induction
  <2>4. ASSUME NEW j \in 1 .. s + 1 PROVE g[j] = g[1]
    <3>1. j - 1 \in Nat /\ j - 1 <= s /\ (j - 1) + 1 = j
      BY <1>3
    <3>2. j - 1 \in T
      BY <2>3, <3>1
    <3>3. QED
      BY <3>1, <3>2 DEF T
  <2>5. QED
    BY <2>4
<1>8. Related(f[1], g[1 + s], tokens[1])
  <2>1. g[1 + s] = g[1] /\ g[1] = RefStep(Found(0, 0), path[1])
    BY <1>1, <1>3, <1>5, <1>7
  <2>2. Found(0, 0).err = "ok" /\ Found(0, 0).mp = 0 /\ Found(0, 0).ino = 0
    BY DEF Found
  <2>3. CASE path[1] = Nothing
    <3>1. f[1] = Found(0, 0) /\ g[1 + s] = Found(0, 0)
      BY <1>4, <1>6, <2>1, <2>3 DEF RomfsStat, RefStep
    <3>2. QED
      BY <3>1, RootNotHidden DEF Related
  <2>4. CASE path[1] # Nothing
    BY <1>4, <1>6, <2>1, <2>2, <2>4 DEF RefStep, Related
  <2>5. QED
    BY <2>3, <2>4
<1>9. Related(f[n], g[L], tokens[n])
  <2> DEFINE T == {k \in Nat : k + 1 <= n => Related(f[k + 1], g[(k + 1) + s], tokens[k + 1])}
  <2>1. 0 \in T
    BY <1>8
  <2>2. ASSUME NEW k \in Nat, k \in T PROVE k + 1 \in T
    <3>1. SUFFICES ASSUME (k + 1) + 1 <= n
                   PROVE  Related(f[(k + 1) + 1], g[((k + 1) + 1) + s], tokens[(k + 1) + 1])
      OBVIOUS
    <3> DEFINE i == k + 1
    <3>2. /\ i \in 1 .. n /\ i + 1 \in 2 .. n /\ (i + 1) - 1 = i
          /\ i + s \in 0 .. M /\ (i + 1) + s \in 1 .. M /\ ((i + 1) + s) - 1 = i + s
      BY <1>1, <1>3, <3>1
    <3>3. Related(f[i], g[i + s], tokens[i])
      BY <1>3, <2>2, <3>1
    <3> HIDE DEF i
    <3>4. f[i] \in Result /\ g[i + s] \in Result
      BY <1>4, <1>5, <3>2
    <3>5. f[i + 1] = Step(f[i], tokens[i + 1]) /\ tokens[i + 1] = path[(i + 1) + s]
      BY <1>4, <1>6, <3>2
    <3>6. g[(i + 1) + s] = RefStep(g[i + s], path[(i + 1) + s])
      BY <1>5, <3>2
    <3>7. Related(Step(f[i], tokens[i + 1]), RefStep(g[i + s], tokens[i + 1]), tokens[i + 1])
      BY <3>3, <3>4, StepRelated
    <3>8. QED
      BY <3>5, <3>6, <3>7 DEF i
  <2> HIDE DEF T
  <2>3. Nat \subseteq T
    BY <2>1, <2>2, Induction
  <2>4. n - 1 \in T /\ (n - 1) + 1 = n /\ n <= n
    BY <1>3, <2>3
  <2>5. QED
    BY <1>3, <2>4 DEF T
<1>10. f[n] \in Result /\ g[L] \in Result /\ ResolvIno(path) = f[n]
  BY <1>1, <1>3, <1>4, <1>5 DEF ResolvIno, tokens
<1>11. g[M] = g[L]
  <2>1. CASE L = M
    BY <2>1
  <2>2. CASE L < M
    <3>1. M = L + 1 /\ M \in 1 .. M /\ M - 1 = L /\ path[M] = Nothing
      BY <1>1, <1>3, <1>6, <2>2
    <3>2. QED
      BY <1>5, <3>1 DEF RefStep
  <2>3. QED
    BY <1>1, <1>3, <2>1, <2>2
<1>12. CASE Hidden(f[n]) = g[L]
  <2>1. CASE path[M] = Nothing /\ NoDir(g[M])
    <3>1. Reference(path) = ENOTDIR
      BY <1>5, <2>1
    <3>2. f[n].err = "ok"
      BY <1>11, <1>12, <2>1 DEF Hidden, NoDir
    <3>3. MountedOn(f[n].mp, f[n].ino) = {}
      <4>1. SUFFICES ASSUME MountedOn(f[n].mp, f[n].ino) # {} PROVE FALSE
        OBVIOUS
      <4>2. PICK m : g[L] = Found(m, 0)
        BY <1>12, <3>2, <4>1, HiddenIs
      <4>3. m \in Mounted
        <5>1. g[L].err = "ok" /\ g[L].mp = m
          BY <4>2 DEF Found
        <5>2. QED
          BY <1>10, <5>1, ResultShape
      <4>4. Kind[DeviceOf(m)][0] = "dir"
        BY <4>3, MountShape, ImageAssumption
      <4>5. QED
        BY <1>11, <2>1, <4>2, <4>4 DEF NoDir, Found
    <3>4. Kind[DeviceOf(f[n].mp)][f[n].ino] # "dir"
      BY <1>11, <1>12, <2>1, <3>2, <3>3, HiddenIs DEF NoDir
    <3>5. QED
      BY <1>10, <2>1, <3>1, <3>4 DEF Agrees, M
  <2>2. CASE ~(path[M] = Nothing /\ NoDir(g[M]))
    BY <1>5, <1>10, <1>11, <1>12, <2>2 DEF Agrees
  <2>3. QED
    BY <2>1, <2>2
<1>13. CASE f[n] = ENOTDIR /\ NoDir(g[L]) /\ tokens[n] = Nothing
  <2>1. n # 1
    <3>1. SUFFICES ASSUME n = 1 PROVE FALSE
      OBVIOUS
    <3>2. f[1] = Found(0, 0)
      BY <1>4, <1>13, <3>1 DEF RomfsStat
    <3>3. QED
      BY <1>13, <3>1, <3>2, ErrorShape DEF Found
  <2>2. path[L] = Nothing /\ L > 1
    BY <1>3, <1>6, <1>13, <2>1
  <2>3. path[M] = Nothing
    BY <1>1, <1>3, <1>6, <2>2
  <2>4. Reference(path) = ENOTDIR
    BY <1>5, <1>11, <1>13, <2>3
  <2>5. QED
    BY <1>10, <1>13, <2>4, ErrorShape DEF Agrees
<1>14. QED
  BY <1>9, <1>12, <1>13 DEF Related

(* For every image, every path and every set of mounts the calls can make   *)
(* that covers no root directory, the code resolves paths as the reference  *)
(* does.                                                                    *)
THEOREM ResolutionAgrees == Spec => []ResolveAgrees
<1>1. VfsInv => ResolveAgrees
  <2>1. SUFFICES ASSUME VfsInv, RootsUncovered, NEW path \in Paths PROVE Agrees(path)
    BY DEF ResolveAgrees
  <2>2. MountType
    BY <2>1 DEF VfsInv, TypeOK
  <2>3. path \in Seq(STRING) /\ path # <<>>
    BY CallAssumption
  <2>4. QED
    BY <2>1, <2>2, <2>3, PathAgrees
<1>2. QED
  BY <1>1, Invariance, PTL
=============================================================================
