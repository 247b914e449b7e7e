-------------------------- MODULE HttpStepFilesProofs --------------------------
(***************************************************************************)
(* What TLAPS proves about HttpStep together with what happens to its      *)
(* files between two runs (HttpStepFiles), for every file, every number of *)
(* subworkers and every interleaving.                                      *)
(***************************************************************************)
EXTENDS HttpStepFiles, HttpStepProofs

-----------------------------------------------------------------------------
(* The types.                                                              *)

(* deleteFiles, moveFiles and a new file on the server change nothing but  *)
(* the disk, between two runs.                                             *)
LEMMA FilesStep ==
    ASSUME DeleteFiles \/ MoveFiles \/ RemoteChanges
    PROVE  /\ phase = "idle"
           /\ good' \in {good, {}}
           /\ size' \in {size, 0}
           /\ record' \in {record, << >>}
           /\ faults' \in {faults, faults + 1}
           /\ UNCHANGED << canRange, wanted, status, accel, subworkers, phase, task >>
           /\ UNCHANGED << errors, aborting, cancelled, supervisor >>
  BY DEF DeleteFiles, MoveFiles, RemoteChanges, FilesOnly, Gone, Fault, step, group

LEMMA WellFormedFilesNext ==
    ASSUME WellFormed, [FilesNext]_vars
    PROVE  WellFormed'
<1>1. CASE [Next]_vars
  BY <1>1, WellFormedNext
<1>2. CASE DeleteFiles \/ MoveFiles \/ RemoteChanges
  <2>1. /\ good' \in SUBSET Nat /\ size' \in Nat /\ faults' \in Nat
        /\ record' \in Seq(EntryType) /\ Sound(record')
    <3>1. /\ good \in SUBSET Nat /\ size \in Nat /\ faults \in Nat
          /\ record \in Seq(EntryType) /\ Sound(record)
      BY DEF WellFormed, TypeOK
    <3>2. << >> \in Seq(EntryType) /\ Sound(<< >>)
      BY EmptyLists
    <3>3. /\ good' \in {good, {}} /\ size' \in {size, 0} /\ record' \in {record, << >>}
          /\ faults' \in {faults, faults + 1}
      BY <1>2, FilesStep
    <3>4. record' \in Seq(EntryType) /\ Sound(record')
      BY <3>1, <3>2, <3>3
    <3> QED BY <3>1, <3>3, <3>4
  <2> QED BY <1>2, <2>1, FilesStep DEF WellFormed, TypeOK
<1> QED BY <1>1, <1>2 DEF FilesNext

(* Every reachable state is well formed.                                   *)
THEOREM FilesWellFormed == FilesSpec => []WellFormed
<1>1. WellFormed /\ [FilesNext]_vars => WellFormed'
  BY WellFormedFilesNext
<1> QED BY WellFormedInit, <1>1, PTL DEF FilesSpec

(* Type correctness.                                                       *)
THEOREM FilesTypeCorrect == FilesSpec => []TypeOK
<1>1. WellFormed => TypeOK
  BY DEF WellFormed
<1> QED BY FilesWellFormed, <1>1, PTL

-----------------------------------------------------------------------------
(* The record and the ranges tile the file.                                *)

LEMMA SameRangesTile ==
    ASSUME NEW a, NEW b, DOMAIN b = DOMAIN a,
           \A j \in DOMAIN a : b[j].start = a[j].start /\ b[j].end = a[j].end,
           Tiles(a)
    PROVE  Tiles(b)
  BY DEF Tiles

LEMMA SplitAtTiles ==
    ASSUME NEW subs \in Seq(SubworkerType), Sound(subs), Tiles(subs),
           NEW i \in DOMAIN subs, Remaining(subs[i]) >= 2
    PROVE  Tiles(SplitAt(subs, i))
<1> DEFINE newEnd == Position(subs[i]) + Remaining(subs[i]) \div 2
                        + (Remaining(subs[i]) % 2) - 1
           kept   == [subs EXCEPT ![i].end = newEnd]
           newSw  == Subworker(newEnd + 1, subs[i].end)
           n      == Len(subs)
           new    == Append(kept, newSw)
<1>1. subs[i] \in SubworkerType /\ n \in Nat /\ DOMAIN subs = 1 .. n
  OBVIOUS
<1>2. /\ newEnd \in Nat /\ Position(subs[i]) <= newEnd
      /\ newEnd < subs[i].end /\ subs[i].end \in Nat
  BY <1>1, SplitPoint
<1>3. SplitAt(subs, i) = new
  BY DEF SplitAt
<1> HIDE DEF newEnd
<1>4. newSw.start = newEnd + 1 /\ newSw.end = subs[i].end
  BY DEF Subworker
<1>5. /\ kept[i].start = subs[i].start /\ kept[i].end = newEnd
      /\ subs[i].start \in Nat /\ subs[i].start <= newEnd
      /\ \A j \in DOMAIN subs : j # i => kept[j] = subs[j]
      /\ DOMAIN kept = DOMAIN subs
  BY <1>1, <1>2 DEF SubworkerType, Position
<1>6. /\ DOMAIN new = 1 .. n + 1
      /\ new[n + 1] = newSw
      /\ \A j \in 1 .. n : new[j] = kept[j]
  <2>1. kept \in Seq(SubworkerType) /\ Len(kept) = n
    <3>1. [subs[i] EXCEPT !.end = newEnd] \in SubworkerType
      BY <1>1, <1>2 DEF SubworkerType
    <3> QED BY <3>1
  <2>2. newSw \in SubworkerType
    BY <1>2 DEF Subworker, SubworkerType
  <2> QED BY <2>1, <2>2
<1> HIDE DEF kept, newSw, new, n
<1>7. /\ new[n + 1].start = newEnd + 1 /\ new[n + 1].end = subs[i].end
      /\ new[i].start = subs[i].start /\ new[i].end = newEnd
      /\ \A j \in 1 .. n : j # i => new[j].start = subs[j].start /\ new[j].end = subs[j].end
  BY <1>1, <1>4, <1>5, <1>6
<1>8. ASSUME NEW b \in 0 .. FileSize - 1
      PROVE  \E j \in DOMAIN new : new[j].start <= b /\ b <= new[j].end
  <2>1. PICK j \in 1 .. n : subs[j].start <= b /\ b <= subs[j].end
    BY <1>1 DEF Tiles
  <2>2. CASE j # i
    BY <1>1, <1>6, <1>7, <2>1, <2>2
  <2>3. CASE j = i /\ b <= newEnd
    BY <1>1, <1>6, <1>7, <2>1, <2>3
  <2>4. CASE j = i /\ newEnd < b
    <3>1. new[n + 1].start <= b /\ b <= new[n + 1].end /\ n + 1 \in DOMAIN new
      BY <1>1, <1>2, <1>6, <1>7, <1>8, <2>1, <2>4, HttpStepAssumption
    <3> QED BY <3>1
  <2> QED BY <1>2, <1>8, <2>2, <2>3, <2>4, HttpStepAssumption
<1>9. ASSUME NEW j \in DOMAIN new, NEW k \in DOMAIN new, j # k
      PROVE  new[j].end < new[k].start \/ new[k].end < new[j].start
  <2>1. \A l \in 1 .. n : /\ subs[l].start \in Nat /\ subs[l].end \in Int
    <3> TAKE l \in 1 .. n
    <3>1. subs[l] \in SubworkerType
      BY <1>1
    <3> QED BY <3>1 DEF SubworkerType, NOT_SUPPORTED
  <2>2. \A l \in 1 .. n : l # i => subs[l].end < subs[i].start \/ subs[i].end < subs[l].start
    BY <1>1 DEF Tiles
  <2>3. CASE j \in 1 .. n /\ k \in 1 .. n
    <3>1. subs[j].end < subs[k].start \/ subs[k].end < subs[j].start
      BY <1>1, <1>9, <2>3 DEF Tiles
    <3>2. CASE j = i
      BY <1>1, <1>2, <1>5, <1>7, <1>9, <2>1, <2>3, <3>1, <3>2
    <3>3. CASE k = i
      BY <1>1, <1>2, <1>5, <1>7, <1>9, <2>1, <2>3, <3>1, <3>3
    <3>4. CASE j # i /\ k # i
      BY <1>7, <2>3, <3>1, <3>4
    <3> QED BY <3>2, <3>3, <3>4
  <2>4. ASSUME NEW l \in 1 .. n
        PROVE  new[l].end < newEnd + 1 \/ subs[i].end < new[l].start
    <3>1. CASE l = i
      BY <1>2, <1>7, <3>1
    <3>2. CASE l # i
      BY <1>1, <1>2, <1>5, <1>7, <2>1, <2>2, <3>2
    <3> QED BY <3>1, <3>2
  <2>5. CASE j = n + 1 /\ k \in 1 .. n
    BY <1>7, <2>4, <2>5
  <2>6. CASE k = n + 1 /\ j \in 1 .. n
    BY <1>7, <2>4, <2>6
  <2> QED BY <1>1, <1>6, <1>9, <2>3, <2>5, <2>6
<1> QED BY <1>3, <1>8, <1>9 DEF Tiles

LEMMA SplitSlowestTiles ==
    ASSUME NEW subs \in Seq(SubworkerType), Sound(subs), Tiles(subs), NEW least \in Nat
    PROVE  Tiles(SplitSlowest(subs, least))
  BY SplitSlowestCases, SplitAtTiles

LEMMA ReassignTiles ==
    ASSUME NEW subs \in Seq(SubworkerType), Sound(subs), Tiles(subs)
    PROVE  /\ Tiles(Reassign(subs))
           /\ Reassign(subs) \in Seq(SubworkerType)
           /\ Sound(Reassign(subs))
<1>1. Tiles(Reassign(subs))
  BY HttpStepAssumption, SplitSlowestTiles DEF Reassign, Reassigned
<1>2. Grows(subs, Reassign(subs))
  BY ReassignedGrows DEF Reassign
<1> QED BY <1>1, <1>2 DEF Grows

(* The chunks of a file tile it.                                           *)
LEMMA MulMono ==
    ASSUME NEW a \in Nat, NEW b \in Nat, NEW c \in Nat, a <= b
    PROVE  a * c <= b * c
<1> DEFINE d == b - a
<1>1. d \in Nat /\ b = a + d
  OBVIOUS
<1>2. d * c \in Nat
  BY <1>1
<1> HIDE DEF d
<1>3. (a + d) * c = a * c + d * c
  BY <1>1
<1> QED BY <1>1, <1>2, <1>3

LEMMA ChunksTile ==
    ASSUME FileSize > 0, NEW count \in 1 .. FileSize
    PROVE  Tiles(Chunks(FileSize, count))
<1> DEFINE c == FileSize \div count
           subs == Chunks(FileSize, count)
<1>0. FileSize \in Nat \ {0} /\ count \in Nat /\ count >= 1
  BY HttpStepAssumption
<1>1. c \in Nat \ {0} /\ count * c <= FileSize
  BY <1>0, ChunkSizePositive
<1>2. subs = [i \in 1 .. count |->
                Subworker((i - 1) * c,
                          IF i = count THEN FileSize - 1 ELSE i * c - 1)]
  BY DEF Chunks
<1> HIDE DEF c, subs
<1>3. DOMAIN subs = 1 .. count
  BY <1>2
<1>4. ASSUME NEW i \in 1 .. count
      PROVE  /\ subs[i].start = (i - 1) * c
             /\ subs[i].end = IF i = count THEN FileSize - 1 ELSE i * c - 1
             /\ (i - 1) * c \in Nat /\ i * c \in Nat
  BY <1>1, <1>2 DEF Subworker
<1>5. ASSUME NEW b \in 0 .. FileSize - 1
      PROVE  \E i \in DOMAIN subs : subs[i].start <= b /\ b <= subs[i].end
  <2> DEFINE q == b \div c
             r == b % c
  <2>1. q \in Int /\ r \in 0 .. c - 1 /\ b = c * q + r
    BY <1>0, <1>1, <1>5, Z3
  <2> HIDE DEF q, r
  <2>2. q >= 0
    <3>1. SUFFICES ASSUME q <= -1 PROVE FALSE
      BY <2>1
    <3>2. c * (-1 - q) >= 0
      BY <1>1, <2>1, <3>1
    <3>3. c * (-1 - q) = 0 - c - c * q
      BY <1>1, <2>1
    <3> QED BY <1>0, <1>1, <1>5, <2>1, <3>2, <3>3
  <2>3. q * c <= b /\ b <= q * c + c - 1 /\ q * c \in Nat
    BY <1>1, <2>1, <2>2
  <2>4. CASE q + 1 < count
    <3>1. q + 1 \in 1 .. count /\ q + 1 # count
      BY <1>0, <2>1, <2>2, <2>4
    <3>2. (q + 1) * c = q * c + c
      BY <1>1, <2>1
    <3>3. subs[q + 1].start = q * c /\ subs[q + 1].end = q * c + c - 1
      <4>1. (q + 1) - 1 = q
        BY <2>1
      <4>2. subs[q + 1].start = ((q + 1) - 1) * c /\ subs[q + 1].end = (q + 1) * c - 1
        BY <1>4, <3>1
      <4>3. ((q + 1) - 1) * c = q * c
        BY <4>1
      <4>4. subs[q + 1].end = (q * c + c) - 1
        BY <3>2, <4>2
      <4>5. (q * c + c) - 1 = q * c + c - 1
        BY <1>1, <2>3
      <4> QED BY <4>2, <4>3, <4>4, <4>5
    <3> QED BY <1>3, <2>3, <3>1, <3>3
  <2>5. CASE q + 1 >= count
    <3>1. count - 1 \in Nat /\ count - 1 <= q /\ q \in Nat
      BY <1>0, <2>1, <2>2, <2>5
    <3>2. (count - 1) * c <= q * c
      BY <1>1, <3>1, MulMono
    <3>3. count \in 1 .. count /\ (count - 1) * c \in Nat
      BY <1>0, <1>1
    <3>4. subs[count].start <= b /\ b <= subs[count].end
      BY <1>0, <1>4, <1>5, <2>3, <3>2, <3>3
    <3> QED BY <1>3, <3>3, <3>4
  <2> QED BY <1>0, <2>1, <2>4, <2>5
<1>6. ASSUME NEW i \in 1 .. count, NEW j \in 1 .. count, i < j
      PROVE  subs[i].end < subs[j].start
  <2>1. i \in Nat /\ j - 1 \in Nat /\ i <= j - 1 /\ i # count
    BY <1>0, <1>6
  <2>2. i * c <= (j - 1) * c
    BY <1>1, <2>1, MulMono
  <2>3. subs[i].end = i * c - 1 /\ subs[j].start = (j - 1) * c
    BY <1>4, <2>1
  <2>4. i * c \in Nat /\ (j - 1) * c \in Nat
    BY <1>4
  <2> QED BY <2>2, <2>3, <2>4
<1>7. ASSUME NEW i \in DOMAIN subs, NEW j \in DOMAIN subs, i # j
      PROVE  subs[i].end < subs[j].start \/ subs[j].end < subs[i].start
  <2>1. i < j \/ j < i
    BY <1>0, <1>3, <1>7
  <2> QED BY <1>3, <1>6, <2>1
<1> QED BY <1>5, <1>7 DEF Tiles, subs

(* The record and, as long as ranges are used, the subworkers tile the     *)
(* file.                                                                   *)
Tiled ==
    /\ RecordTilesFile
    /\ FileSize > 0 /\ canRange /\ subworkers # << >> => Tiles(subworkers)

LEMMA TiledInit == Init => Tiled
  BY DEF Init, Tiled, RecordTilesFile

(* Only the record and the list of subworkers matter.                      *)
LEMMA TiledFrame ==
    ASSUME Tiled,
           record' \in {record, << >>},
           \/ subworkers' = << >>
           \/ ~ canRange'
           \/ UNCHANGED << subworkers, canRange >>
    PROVE  Tiled'
<1>1. FileSize > 0 /\ record' # << >> => Tiles(record)
  BY DEF Tiled, RecordTilesFile
<1>2. RecordTilesFile'
  BY <1>1 DEF RecordTilesFile
<1>3. FileSize > 0 /\ canRange' /\ subworkers' # << >> => Tiles(subworkers')
  BY DEF Tiled
<1> QED BY <1>2, <1>3 DEF Tiled

LEMMA StartTiled ==
    ASSUME WellFormed, Tiled,
           RunFresh \/ RunRestored \/ RestoreSplit \/ RestoreDone \/ Relaunch
    PROVE  Tiled'
<1>1. CASE RunFresh
  <2> DEFINE subs == BuildSubworkers(FileSize, canRange, wanted)
  <2>1. /\ record' \in {record, << >>} /\ UNCHANGED canRange /\ subworkers' = subs
        /\ wanted \in Nat \ {0}
    BY <1>1 DEF RunFresh, DeleteRecord, Launch, WellFormed, TypeOK
  <2>2. ASSUME FileSize > 0, canRange PROVE Tiles(subs)
    <3>1. MinOf(wanted, FileSize) \in 1 .. FileSize /\ FileSize # UNKNOWN
      BY <2>1, <2>2, HttpStepAssumption DEF MinOf, UNKNOWN
    <3>2. subs = Chunks(FileSize, MinOf(wanted, FileSize))
      BY <2>2, <3>1 DEF BuildSubworkers
    <3> QED BY <2>2, <3>1, <3>2, ChunksTile
  <2> QED BY <2>1, <2>2 DEF Tiled, RecordTilesFile
<1>2. CASE RunRestored
  <2>1. UNCHANGED record /\ subworkers' = record
    BY <1>2 DEF RunRestored, disk
  <2> QED BY <2>1 DEF Tiled, RecordTilesFile
<1>3. CASE RestoreSplit
  <2>1. UNCHANGED << record, canRange >> /\ canRange /\ FileSize > 0
        /\ subworkers' = SplitSlowest(subworkers, 2) /\ subworkers' # subworkers
    BY <1>3 DEF RestoreSplit, TooFew, disk, step, WellFormed
  <2>2. subworkers # << >>
    BY <2>1 DEF SplitSlowest
  <2>3. Tiles(SplitSlowest(subworkers, 2))
    BY <2>1, <2>2, SplitSlowestTiles DEF Tiled, WellFormed, TypeOK
  <2> QED BY <2>1, <2>3 DEF Tiled, RecordTilesFile
<1>4. CASE RestoreDone \/ Relaunch
  <2>1. UNCHANGED << record, canRange, subworkers >>
    BY <1>4 DEF RestoreDone, Relaunch, Launch, disk, step
  <2> QED BY <2>1, TiledFrame
<1> QED BY <1>1, <1>2, <1>3, <1>4

(* A list with the ranges of the subworkers, and a split of it.            *)
LEMMA RangesTiled ==
    ASSUME WellFormed, Tiled, UNCHANGED << record, canRange >>,
           NEW subs \in Seq(SubworkerType), Sound(subs), DOMAIN subs = DOMAIN subworkers,
           \A j \in DOMAIN subworkers : /\ subs[j].start = subworkers[j].start
                                        /\ subs[j].end = subworkers[j].end,
           subworkers # << >>,
           subworkers' = subs \/ subworkers' = Reassign(subs)
    PROVE  Tiled'
<1>1. FileSize > 0 /\ canRange => Tiles(subs)
  BY SameRangesTile DEF Tiled
<1>2. FileSize > 0 /\ canRange => Tiles(subworkers')
  BY <1>1, ReassignTiles
<1> QED BY <1>2 DEF Tiled, RecordTilesFile

LEMMA SubworkerStepTiled ==
    ASSUME WellFormed, Tiled, NEW i \in DOMAIN task, SubworkerStep(i)
    PROVE  Tiled'
<1> USE DEF At
<1>0. phase = "group" /\ Steady
  BY DEF SubworkerStep, Start, Retry, ReplyOk, ReplyUnsatisfiable, ReplyPermanent,
         ReplyFull, TransientError, Chunk, WriteFatal, Resume, StreamEnd, Raise
<1>1. /\ UNCHANGED << record, canRange >>
      /\ subworkers \in Seq(SubworkerType) /\ Sound(subworkers)
      /\ i \in DOMAIN subworkers /\ subworkers # << >>
      /\ subworkers[i] \in SubworkerType
      /\ Paired(subworkers, task)
  BY <1>0 DEF Steady, step, WellFormed, TypeOK, Paired
<1>2. CASE subworkers' = subworkers \/ subworkers' = Reassign(subworkers)
  BY <1>1, <1>2, RangesTiled
<1>3. ASSUME NEW r \in Nat,
             \/ subworkers' = [subworkers EXCEPT ![i].receivedBytes = r]
             \/ subworkers' = Reassign([subworkers EXCEPT ![i].receivedBytes = r])
      PROVE  Tiled'
  <2> DEFINE subs == [subworkers EXCEPT ![i].receivedBytes = r]
  <2>1. /\ subs \in Seq(SubworkerType) /\ DOMAIN subs = DOMAIN subworkers /\ Sound(subs)
        /\ \A j \in DOMAIN subworkers : /\ subs[j].start = subworkers[j].start
                                         /\ subs[j].end = subworkers[j].end
    BY <1>1, ReceivedSet
  <2>2. subworkers' = subs \/ subworkers' = Reassign(subs)
    BY <1>3
  <2> HIDE DEF subs
  <2> QED BY <1>1, <2>1, <2>2, RangesTiled
<1>4. ASSUME NEW mode, LoopTop(i, mode) PROVE Tiled'
  <2>1. CASE Finish(i, subworkers)
    BY <1>2, <2>1 DEF Finish, Reassign
  <2>2. CASE subworkers' = [subworkers EXCEPT ![i].receivedBytes = 0]
    BY <1>3, <2>2
  <2> QED BY <1>2, <1>4, <2>1, <2>2 DEF LoopTop
<1>5. CASE Start(i) \/ Retry(i)
  BY <1>4, <1>5 DEF Start, Retry
<1>6. CASE \/ ReplyOk(i) \/ ReplyUnsatisfiable(i) \/ ReplyPermanent(i) \/ ReplyFull(i)
           \/ TransientError(i) \/ WriteFatal(i)
  BY <1>2, <1>6 DEF ReplyOk, ReplyUnsatisfiable, ReplyPermanent, ReplyFull, TransientError,
                    WriteFatal, Raise
<1>7. ASSUME NEW n \in ChunkSizes, Chunk(i, n) PROVE Tiled'
  <2> DEFINE r == subworkers[i].receivedBytes + Accepted(i, n)
  <2>1. r \in Nat
    BY <1>0, <1>7, AcceptedBounds DEF Chunk
  <2>2. subworkers' = [subworkers EXCEPT ![i].receivedBytes = r]
    BY <1>7 DEF Chunk
  <2> HIDE DEF r
  <2> QED BY <1>3, <2>1, <2>2
<1>8. CASE Resume(i)
  <2>1. CASE task[i].mode = "range" /\ Complete(subworkers[i])
    <3> DEFINE whole == subworkers[i].end - subworkers[i].start + 1
    <3>1. whole \in Nat
      BY <1>1, <2>1 DEF Paired, Sound, SubworkerType, NOT_SUPPORTED
    <3>2. subworkers' = Reassign([subworkers EXCEPT ![i].receivedBytes = whole])
      BY <1>8, <2>1 DEF Resume, Finish, Reassign
    <3> HIDE DEF whole
    <3> QED BY <1>3, <3>1, <3>2
  <2>2. CASE UNCHANGED subworkers
    BY <1>2, <2>2
  <2> QED BY <1>8, <2>1, <2>2 DEF Resume
<1>9. CASE StreamEnd(i)
  <2>1. CASE LoopTop(i, "range")
    BY <1>4, <2>1
  <2>2. CASE UNCHANGED subworkers
    BY <1>2, <2>2
  <2> QED BY <1>9, <2>1, <2>2 DEF StreamEnd
<1> QED BY <1>5, <1>6, <1>7, <1>8, <1>9 DEF SubworkerStep

LEMMA SuperviseTiled ==
    ASSUME WellFormed, Tiled, Supervise
    PROVE  Tiled'
<1>1. /\ UNCHANGED canRange /\ subworkers \in Seq(SubworkerType) /\ Sound(subworkers)
      /\ record' = IF canRange THEN subworkers ELSE record
  BY DEF Supervise, WellFormed, TypeOK
<1>2. RecordTilesFile'
  BY <1>1 DEF Tiled, RecordTilesFile
<1>3. CASE subworkers = << >>
  <2>1. Reassign(<< >>) = << >>
    BY DEF Reassign, Reassigned, SplitSlowest
  <2>2. subworkers' = << >>
    BY <1>3, <2>1 DEF Supervise
  <2> QED BY <1>2, <2>2 DEF Tiled
<1>4. CASE subworkers # << >>
  <2>1. ASSUME Tiles(subworkers)
        PROVE  Tiles(Reassign(Reassign(Reassign(Reassign(subworkers)))))
    <3> DEFINE s1 == Reassign(subworkers)  s2 == Reassign(s1)  s3 == Reassign(s2)
    <3>1. Tiles(s1) /\ s1 \in Seq(SubworkerType) /\ Sound(s1)
      BY <1>1, <2>1, ReassignTiles
    <3> HIDE DEF s1
    <3>2. Tiles(s2) /\ s2 \in Seq(SubworkerType) /\ Sound(s2)
      BY <3>1, ReassignTiles
    <3> HIDE DEF s2
    <3>3. Tiles(s3) /\ s3 \in Seq(SubworkerType) /\ Sound(s3)
      BY <3>2, ReassignTiles
    <3> HIDE DEF s3
    <3>4. Tiles(Reassign(s3))
      BY <3>3, ReassignTiles
    <3> QED BY <3>4 DEF s1, s2, s3
  <2>2. Tiles(subworkers) => Tiles(Reassign(subworkers))
    BY <1>1, ReassignTiles
  <2>3. Tiles(subworkers) => Tiles(subworkers')
    BY <2>1, <2>2 DEF Supervise
  <2> QED BY <1>1, <1>2, <1>4, <2>3 DEF Tiled
<1> QED BY <1>3, <1>4

LEMMA TiledNext ==
    ASSUME WellFormed, Tiled, [FilesNext]_vars
    PROVE  Tiled'
<1>1. CASE UNCHANGED vars
  BY <1>1, TiledFrame DEF vars, disk, step
<1>2. CASE \E n \in Counts, r \in Ranged : Create(n, r)
  <2>1. UNCHANGED << record, subworkers >> /\ subworkers = << >>
    BY <1>2 DEF Create, disk, WellFormed
  <2> QED BY <2>1, TiledFrame
<1>3. CASE \E n \in Counts : SetOptions(n)
  BY <1>3, TiledFrame DEF SetOptions, disk
<1>4. CASE \E i \in DOMAIN task : SubworkerStep(i)
  BY <1>4, SubworkerStepTiled
<1>5. CASE \/ RunFresh \/ RunRestored \/ RestoreSplit \/ RestoreDone \/ Relaunch
  BY <1>5, StartTiled
<1>6. CASE Supervise
  BY <1>6, SuperviseTiled
<1>7. CASE \/ SuperviseFails \/ Abort \/ Cancel
           \/ GroupCompleted \/ GroupCancelled \/ GroupFailed \/ Settle
  <2>1. UNCHANGED << subworkers, canRange >> /\ record' \in {record, << >>}
    BY <1>7 DEF SuperviseFails, Abort, Cancel, GroupCompleted, GroupCancelled, GroupFailed,
                Settle, DeleteRecord, disk, step
  <2> QED BY <2>1, TiledFrame
<1>8. CASE FallBack
  <2>1. ~ canRange' /\ record' \in {record, << >>}
    BY <1>8 DEF FallBack, DeleteRecord, disk
  <2> QED BY <2>1, TiledFrame
<1>9. CASE Kill \/ KillOpeningRecord \/ KillInFallBack
  <2>1. subworkers' = << >> /\ record' \in {record, << >>}
    BY <1>9 DEF Kill, KillOpeningRecord, KillInFallBack, Lose, disk
  <2> QED BY <2>1, TiledFrame
<1>10. CASE Finished
  BY <1>1, <1>10 DEF Finished
<1>11. CASE DeleteFiles \/ MoveFiles \/ RemoteChanges
  BY <1>11, FilesStep, TiledFrame
<1> QED BY <1>1, <1>2, <1>3, <1>4, <1>5, <1>6, <1>7, <1>8, <1>9, <1>10, <1>11
        DEF FilesNext, Next

(* What a record leaves to be downloaded is exactly what is missing: the   *)
(* ranges it keeps tile the file, however often they were split            *)
(* (_splitSlowest, _engine.py:188), saved, restored and split again, and   *)
(* whatever the disk, the server, the user and the system do.              *)
THEOREM RecordAlwaysTiles == FilesSpec => []RecordTilesFile
<1>1. WellFormed /\ Tiled /\ [FilesNext]_vars => Tiled'
  BY TiledNext
<1>2. Tiled => RecordTilesFile
  BY DEF Tiled
<1> QED BY FilesWellFormed, TiledInit, <1>1, <1>2, PTL DEF FilesSpec

-----------------------------------------------------------------------------
(* The record never runs ahead of the data, whatever happens between runs. *)

(* The two files are moved or neither is, a record that is to be deleted   *)
(* is, and the server keeps the file it had.                               *)
OrderlyFiles ==
    /\ OrderlyDisk
    /\ Env \cap {"kept_record", "unmoved", "changed"} = {}

(* Between two runs only the record counts: what the subworkers of the     *)
(* last one claim is not used any more.                                    *)
Claimed ==
    /\ RecordOnDisk
    /\ phase # "idle" => ClaimsOnDisk

LEMMA IdleClaims ==
    ASSUME OrderlyFiles, WellFormed, Claimed, phase = "idle", [Next]_vars
    PROVE  Claimed'
<1>1. CASE UNCHANGED vars
  BY <1>1 DEF vars, disk, Claimed, RecordOnDisk, OnDisk
<1>2. CASE \E n \in Counts : SetOptions(n)
  BY <1>2 DEF SetOptions, disk, Claimed, RecordOnDisk, OnDisk
<1>3. CASE RunFresh
  BY <1>3, RunFreshClaims DEF OrderlyFiles, Claimed, ClaimsOnDisk
<1>4. CASE RunRestored
  <2>1. /\ UNCHANGED << good, record >> /\ subworkers' = record
        /\ phase' \notin {"group", "falling_back"}
    BY <1>4 DEF RunRestored, disk
  <2> QED BY <2>1 DEF Claimed, ClaimsOnDisk, RecordOnDisk, OnDisk
<1>5. CASE Kill
  <2>1. /\ UNCHANGED << good, record >> /\ subworkers' = << >> /\ phase' = "none"
    BY <1>5 DEF Kill, Lose, disk
  <2> QED BY <2>1 DEF Claimed, ClaimsOnDisk, RecordOnDisk, OnDisk
<1>6. CASE Finished
  BY <1>1, <1>6 DEF Finished
<1> QED BY <1>1, <1>2, <1>3, <1>4, <1>5, <1>6
        DEF Next, Create, RestoreSplit, RestoreDone, SubworkerStep, Start, Retry, ReplyOk,
            ReplyUnsatisfiable, ReplyPermanent, ReplyFull, TransientError, Chunk, WriteFatal,
            Resume, StreamEnd, At, Supervise, SuperviseFails, Abort, Cancel, GroupCompleted,
            GroupCancelled, GroupFailed, FallBack, MustFallBack, GroupEnded, Settle, Relaunch,
            KillOpeningRecord, KillInFallBack

LEMMA FilesClaimsNext ==
    ASSUME OrderlyFiles, WellFormed, Claimed, [FilesNext]_vars
    PROVE  Claimed'
<1>1. CASE [Next]_vars /\ phase = "idle"
  BY <1>1, IdleClaims
<1>2. CASE [Next]_vars /\ phase # "idle"
  BY <1>2, ClaimsNext DEF Claimed, ClaimsOnDisk, OrderlyFiles
<1>3. CASE DeleteFiles \/ MoveFiles \/ RemoteChanges
  <2>1. DeleteFiles /\ record' = << >>
    BY <1>3 DEF DeleteFiles, MoveFiles, RemoteChanges, Fault, OrderlyFiles
  <2>2. phase' = "idle"
    BY <2>1, FilesStep
  <2> QED BY <2>1, <2>2 DEF Claimed, RecordOnDisk, OnDisk
<1> QED BY <1>1, <1>2, <1>3 DEF FilesNext

(* Whatever is interrupted, deleted or moved and whenever, resuming skips  *)
(* no byte that is missing (_supervise, _engine.py:264, deleteFiles and    *)
(* moveFiles), as long as the disk and the server are OrderlyFiles.        *)
THEOREM FilesRecordNeverAhead ==
    ASSUME OrderlyFiles
    PROVE  FilesSpec => []RecordOnDisk
<1>1. Init => Claimed
  BY ClaimsInit DEF Claimed, ClaimsOnDisk
<1>2. WellFormed /\ Claimed /\ [FilesNext]_vars => Claimed'
  BY FilesClaimsNext
<1>3. Claimed => RecordOnDisk
  BY DEF Claimed
<1> QED BY FilesWellFormed, <1>1, <1>2, <1>3, PTL DEF FilesSpec

-----------------------------------------------------------------------------
(* Every range has a task that goes on with it.                            *)

(* A task that is done has completed its range.                            *)
Worked(subs, tasks) ==
    \A i \in DOMAIN subs :
        /\ tasks[i].pc = "done" => Complete(subs[i])
        /\ tasks[i].mode = "unknown" => subs[i].end = UNKNOWN

(* What else ends a task ends the group.                                   *)
Excused(tasks, errs, abort) ==
    \A i \in DOMAIN tasks :
        /\ tasks[i].pc = "failed" => errs # {}
        /\ tasks[i].pc \in {"cancelled", "orphan"} => abort

Attended ==
    phase = "group" => Worked(subworkers, task) /\ Excused(task, errors, aborting)

(* A split leaves every other range alone.                                 *)
LEMMA SplitAtOthers ==
    ASSUME NEW subs \in Seq(SubworkerType), NEW i \in DOMAIN subs,
           Remaining(subs[i]) >= 2, NEW j \in DOMAIN subs, j # i
    PROVE  SplitAt(subs, i)[j] = subs[j]
<1> DEFINE newEnd == Position(subs[i]) + Remaining(subs[i]) \div 2
                        + (Remaining(subs[i]) % 2) - 1
           kept   == [subs EXCEPT ![i].end = newEnd]
           newSw  == Subworker(newEnd + 1, subs[i].end)
<1>1. SplitAt(subs, i) = Append(kept, newSw)
  BY DEF SplitAt
<1>2. subs[i] \in SubworkerType /\ newEnd \in Nat
  BY SplitPoint
<1> HIDE DEF newEnd
<1>3. [subs[i] EXCEPT !.end = newEnd] \in SubworkerType
  BY <1>2 DEF SubworkerType
<1>4. kept \in Seq(SubworkerType) /\ Len(kept) = Len(subs)
  BY <1>2, <1>3
<1>5. kept[j] = subs[j]
  OBVIOUS
<1> HIDE DEF kept, newSw
<1>6. Append(kept, newSw)[j] = kept[j]
  BY <1>4
<1> QED BY <1>1, <1>5, <1>6

(* What has less than two bytes to come is not split.                      *)
LEMMA SplitKeeps ==
    ASSUME NEW subs \in Seq(SubworkerType), Sound(subs),
           NEW j \in DOMAIN subs, ~ (Remaining(subs[j]) >= 2)
    PROVE  Reassign(subs)[j] = subs[j]
<1>1. ASSUME NEW least \in Nat PROVE SplitSlowest(subs, least)[j] = subs[j]
  BY <1>1, SplitSlowestCases, SplitAtOthers
<1> QED BY <1>1, HttpStepAssumption DEF Reassign, Reassigned

(* Lists that grow by splits: what is complete, or has no known end, stays *)
(* as it is.                                                               *)
Splits(old, new) ==
    /\ Grows(old, new)
    /\ \A j \in DOMAIN old : ~ (Remaining(old[j]) >= 2) => new[j] = old[j]

LEMMA ReassignSplits ==
    ASSUME NEW subs \in Seq(SubworkerType), Sound(subs)
    PROVE  Splits(subs, Reassign(subs))
  BY ReassignedGrows, SplitKeeps DEF Reassign, Splits

LEMMA SplitsTrans ==
    ASSUME NEW a \in Seq(SubworkerType), NEW b, NEW c, Splits(a, b), Splits(b, c)
    PROVE  Splits(a, c)
<1>1. Grows(a, c)
  BY GrowsTrans DEF Splits
<1>2. DOMAIN a \subseteq DOMAIN b
  <2>1. b \in Seq(SubworkerType) /\ Len(a) <= Len(b) /\ Len(a) \in Nat /\ Len(b) \in Nat
    BY DEF Splits, Grows
  <2> QED BY <2>1
<1>3. ASSUME NEW j \in DOMAIN a, ~ (Remaining(a[j]) >= 2) PROVE c[j] = a[j]
  <2>1. b[j] = a[j]
    BY <1>3 DEF Splits
  <2> QED BY <1>2, <1>3, <2>1 DEF Splits
<1> QED BY <1>1, <1>3 DEF Splits

LEMMA FourSplits ==
    ASSUME NEW subs \in Seq(SubworkerType), Sound(subs)
    PROVE  Splits(subs, Reassign(Reassign(Reassign(Reassign(subs)))))
<1> DEFINE s1 == Reassign(subs)  s2 == Reassign(s1)  s3 == Reassign(s2)  s4 == Reassign(s3)
<1>1. Splits(subs, s1) /\ s1 \in Seq(SubworkerType) /\ Sound(s1)
  BY ReassignSplits DEF Splits, Grows
<1> HIDE DEF s1
<1>2. Splits(s1, s2) /\ s2 \in Seq(SubworkerType) /\ Sound(s2)
  BY <1>1, ReassignSplits DEF Splits, Grows
<1> HIDE DEF s2
<1>3. Splits(s2, s3) /\ s3 \in Seq(SubworkerType) /\ Sound(s3)
  BY <1>2, ReassignSplits DEF Splits, Grows
<1> HIDE DEF s3
<1>4. Splits(s3, s4)
  BY <1>3, ReassignSplits
<1> HIDE DEF s4
<1>5. Splits(subs, s2) /\ Splits(subs, s3)
  BY <1>1, <1>2, <1>3, SplitsTrans
<1>6. Splits(subs, s4)
  BY <1>4, <1>5, SplitsTrans
<1> QED BY <1>6 DEF s1, s2, s3, s4

(* The newcomers have a task that has not begun, or none in a group that   *)
(* is ending.                                                              *)
LEMMA ExtendedAttended ==
    ASSUME NEW subs \in Seq(SubworkerType), NEW tasks, Paired(subs, tasks),
           Worked(subs, tasks), NEW errs, NEW abort, Excused(tasks, errs, abort),
           NEW new, Splits(subs, new), NEW t \in {NewTask, Orphan}, t = Orphan => abort
    PROVE  /\ Worked(new, Extended(tasks, new, t))
           /\ Excused(Extended(tasks, new, t), errs, abort)
<1> DEFINE all == Extended(tasks, new, t)
<1>1. /\ DOMAIN tasks = DOMAIN subs /\ DOMAIN all = DOMAIN new
      /\ \A j \in DOMAIN new : all[j] = IF j \in DOMAIN subs THEN tasks[j] ELSE t
  BY DEF Paired, Extended
<1> HIDE DEF all
<1>2. ASSUME NEW j \in DOMAIN new
      PROVE  /\ all[j].pc = "done" => Complete(new[j])
             /\ all[j].mode = "unknown" => new[j].end = UNKNOWN
             /\ all[j].pc = "failed" => errs # {}
             /\ all[j].pc \in {"cancelled", "orphan"} => abort
  <2>1. CASE j \in DOMAIN subs
    <3>1. subs[j] \in SubworkerType /\ all[j] = tasks[j]
      BY <1>1, <2>1
    <3>2. Complete(subs[j]) \/ subs[j].end = UNKNOWN => ~ (Remaining(subs[j]) >= 2)
      BY <3>1 DEF Complete, Remaining, Position, SubworkerType, UNKNOWN, NOT_SUPPORTED
    <3>3. Complete(subs[j]) \/ subs[j].end = UNKNOWN => new[j] = subs[j]
      BY <2>1, <3>2 DEF Splits
    <3> QED BY <1>1, <2>1, <3>1, <3>3 DEF Worked, Excused
  <2>2. CASE j \notin DOMAIN subs
    BY <1>1, <2>2, TaskTypes DEF NewTask, Orphan
  <2> QED BY <2>1, <2>2
<1> QED BY <1>1, <1>2 DEF Worked, Excused, all

(* A task moves on.                                                        *)
LEMMA TaskSetAttended ==
    ASSUME NEW subs, NEW tasks, Paired(subs, tasks), NEW i \in DOMAIN tasks,
           NEW t, NEW errs, NEW abort, NEW errs2,
           Worked(subs, tasks), Excused(tasks, errs, abort), errs # {} => errs2 # {},
           t.pc = "done" => Complete(subs[i]),
           t.pc = "failed" => errs2 # {},
           t.pc \notin {"cancelled", "orphan"},
           t.mode = "unknown" => subs[i].end = UNKNOWN
    PROVE  /\ Worked(subs, [tasks EXCEPT ![i] = t])
           /\ Excused([tasks EXCEPT ![i] = t], errs2, abort)
  BY DEF Paired, Worked, Excused

(* What a subworker receives matters to nobody while its task is not done. *)
LEMMA ReceivedWorked ==
    ASSUME NEW subs \in Seq(SubworkerType), NEW tasks, Worked(subs, tasks),
           NEW i \in DOMAIN subs, NEW r \in Nat, tasks[i].pc # "done"
    PROVE  Worked([subs EXCEPT ![i].receivedBytes = r], tasks)
<1> DEFINE new == [subs EXCEPT ![i].receivedBytes = r]
<1>1. subs[i] \in SubworkerType
  OBVIOUS
<1>2. new[i].end = subs[i].end /\ DOMAIN new = DOMAIN subs /\ \A j \in DOMAIN subs : j # i => new[j] = subs[j]
  BY <1>1 DEF SubworkerType
<1> HIDE DEF new
<1>3. Worked(new, tasks)
  BY <1>2 DEF Worked
<1> QED BY <1>3 DEF new

LEMMA SubworkerStepAttended ==
    ASSUME "premature" \notin Env, WellFormed, Attended, NEW i \in DOMAIN task, SubworkerStep(i)
    PROVE  Attended'
<1> USE DEF At
<1>0. phase = "group" /\ Steady
  BY DEF SubworkerStep, Start, Retry, ReplyOk, ReplyUnsatisfiable, ReplyPermanent,
         ReplyFull, TransientError, Chunk, WriteFatal, Resume, StreamEnd, Raise
<1>1. /\ subworkers \in Seq(SubworkerType) /\ Sound(subworkers) /\ Paired(subworkers, task)
      /\ i \in DOMAIN subworkers /\ subworkers[i] \in SubworkerType /\ task[i] \in TaskType
      /\ Worked(subworkers, task) /\ Excused(task, errors, aborting)
  BY <1>0 DEF WellFormed, TypeOK, Paired, Attended
<1>2. UNCHANGED aborting
  BY <1>0 DEF Steady
<1>3. ASSUME NEW pc \in Pcs, Goto(i, pc), UNCHANGED subworkers,
             errors # {} => errors' # {},
             pc = "done" => Complete(subworkers[i]),
             pc = "failed" => errors' # {}, pc \notin {"cancelled", "orphan"}
      PROVE  Attended'
  <2> DEFINE t == [task[i] EXCEPT !.pc = pc]
  <2>1. t.pc = pc /\ t.mode = task[i].mode /\ task' = [task EXCEPT ![i] = t]
    BY <1>1, <1>3 DEF Goto, TaskType
  <2>2. t.mode = "unknown" => subworkers[i].end = UNKNOWN
    BY <1>1, <2>1 DEF Worked
  <2> HIDE DEF t
  <2>3. /\ Worked(subworkers, [task EXCEPT ![i] = t])
        /\ Excused([task EXCEPT ![i] = t], errors', aborting)
    BY <1>1, <1>3, <2>1, <2>2, TaskSetAttended
  <2> QED BY <1>2, <1>3, <2>1, <2>3 DEF Attended
<1>4. ASSUME NEW subs \in Seq(SubworkerType), Sound(subs), Paired(subs, task),
             Worked(subs, [task EXCEPT ![i].pc = "done"]),
             Excused([task EXCEPT ![i].pc = "done"], errors, aborting),
             Finish(i, subs), UNCHANGED errors
      PROVE  Attended'
  <2> DEFINE done  == [task EXCEPT ![i].pc = "done"]
             after == Reassign(subs)
  <2>1. Paired(subs, done)
    BY <1>4, GotoPaired DEF Pcs
  <2>2. Splits(subs, after)
    BY <1>4, ReassignSplits
  <2>3. Worked(subs, done) /\ Excused(done, errors, aborting)
    BY <1>4
  <2>4. subworkers' = after /\ task' = Extended(done, after, NewTask)
    BY <1>4 DEF Finish, Reassign
  <2>5. NewTask # Orphan
    BY DEF NewTask, Orphan
  <2> HIDE DEF done, after
  <2>6. /\ Worked(after, Extended(done, after, NewTask))
        /\ Excused(Extended(done, after, NewTask), errors, aborting)
    BY <1>4, <2>1, <2>2, <2>3, <2>5, ExtendedAttended
  <2> QED BY <1>2, <1>4, <2>4, <2>6 DEF Attended
<1>5. ASSUME Complete(subworkers[i])
      PROVE  /\ Worked(subworkers, [task EXCEPT ![i].pc = "done"])
             /\ Excused([task EXCEPT ![i].pc = "done"], errors, aborting)
  <2> DEFINE t == [task[i] EXCEPT !.pc = "done"]
  <2>1. t.pc = "done" /\ t.mode = task[i].mode /\ [task EXCEPT ![i].pc = "done"] = [task EXCEPT ![i] = t]
    BY <1>1 DEF TaskType
  <2>2. t.mode = "unknown" => subworkers[i].end = UNKNOWN
    BY <1>1, <2>1 DEF Worked
  <2> HIDE DEF t
  <2> QED BY <1>1, <1>5, <2>1, <2>2, TaskSetAttended
<1>6. ASSUME NEW mode, LoopTop(i, mode), UNCHANGED errors,
             mode = "unknown" => subworkers[i].end = UNKNOWN
      PROVE  Attended'
  <2>1. CASE Complete(subworkers[i]) /\ Finish(i, subworkers)
    BY <1>1, <1>4, <1>5, <1>6, <2>1
  <2>2. CASE task' = [task EXCEPT ![i] = Requesting(mode, subworkers[i])]
    <3> DEFINE t == Requesting(mode, subworkers[i])
    <3>1. t.pc = "request" /\ t.mode = mode
      BY DEF Requesting
    <3> HIDE DEF t
    <3>2. /\ Worked(subworkers, [task EXCEPT ![i] = t])
          /\ Excused([task EXCEPT ![i] = t], errors, aborting)
      BY <1>1, <1>6, <3>1, TaskSetAttended
    <3>3. task' = [task EXCEPT ![i] = t] /\ task'[i] = t
      BY <2>2 DEF t
    <3>4. CASE UNCHANGED subworkers
      BY <1>2, <1>6, <3>2, <3>3, <3>4 DEF Attended
    <3>5. CASE subworkers' = [subworkers EXCEPT ![i].receivedBytes = 0]
      <4>1. Worked(subworkers', task')
        BY <1>1, <3>1, <3>2, <3>3, <3>5, ReceivedWorked
      <4> QED BY <1>2, <1>6, <3>2, <3>3, <4>1 DEF Attended
    <3>6. UNCHANGED subworkers \/ subworkers' = [subworkers EXCEPT ![i].receivedBytes = 0] \/ Finish(i, subworkers)
      BY <1>6 DEF LoopTop
    <3>7. CASE Finish(i, subworkers) /\ Complete(subworkers[i])
      BY <1>1, <1>4, <1>5, <1>6, <3>7
    <3> QED BY <1>6, <3>4, <3>5, <3>7 DEF LoopTop
  <2> QED BY <1>6, <2>1, <2>2 DEF LoopTop
<1>7. CASE Start(i)
  <2>1. ModeOf(subworkers[i]) = "unknown" => subworkers[i].end = UNKNOWN
    BY DEF ModeOf
  <2> QED BY <1>6, <1>7, <2>1 DEF Start
<1>8. CASE Retry(i)
  <2>1. task[i].mode = "unknown" => subworkers[i].end = UNKNOWN
    BY <1>1 DEF Worked
  <2> QED BY <1>6, <1>8, <2>1 DEF Retry
<1>9. CASE ReplyOk(i) \/ ReplyUnsatisfiable(i) \/ TransientError(i)
  BY <1>3, <1>9 DEF ReplyOk, ReplyUnsatisfiable, TransientError, Pcs
<1>10. CASE ReplyPermanent(i) \/ ReplyFull(i) \/ WriteFatal(i)
  <2>1. PICK kind : errors' = errors \cup {kind} /\ Goto(i, "failed") /\ UNCHANGED subworkers
    BY <1>10 DEF ReplyPermanent, ReplyFull, WriteFatal, Raise
  <2>2. errors' # {}
    BY <2>1
  <2> QED BY <1>3, <2>1, <2>2 DEF Pcs
<1>11. ASSUME NEW n \in ChunkSizes, Chunk(i, n) PROVE Attended'
  <2> DEFINE r == subworkers[i].receivedBytes + Accepted(i, n)
             t == [task[i] EXCEPT !.pc = "limit"]
  <2>1. r \in Nat
    BY <1>0, <1>11, AcceptedBounds DEF Chunk
  <2>2. /\ subworkers' = [subworkers EXCEPT ![i].receivedBytes = r]
        /\ task' = [task EXCEPT ![i] = t] /\ UNCHANGED errors
    BY <1>11 DEF Chunk, Goto
  <2>3. t.pc = "limit" /\ t.mode = task[i].mode
    BY <1>1 DEF TaskType
  <2>4. t.mode = "unknown" => subworkers[i].end = UNKNOWN
    BY <1>1, <2>3 DEF Worked
  <2> HIDE DEF r, t
  <2>5. Worked(subworkers, [task EXCEPT ![i] = t]) /\ Excused([task EXCEPT ![i] = t], errors, aborting)
    BY <1>1, <2>3, <2>4, TaskSetAttended
  <2>6. task'[i].pc # "done"
    BY <2>2, <2>3
  <2>7. Worked(subworkers', task')
    BY <1>1, <2>1, <2>2, <2>5, <2>6, ReceivedWorked
  <2> QED BY <1>2, <2>2, <2>5, <2>7 DEF Attended
<1>12. CASE Resume(i)
  <2>1. UNCHANGED errors
    BY <1>12 DEF Resume
  <2>2. CASE task[i].mode = "range" /\ Complete(subworkers[i])
    <3> DEFINE whole == subworkers[i].end - subworkers[i].start + 1
               new == [subworkers EXCEPT ![i].receivedBytes = whole]
               done == [task EXCEPT ![i].pc = "done"]
    <3>1. whole \in Nat
      BY <1>1, <2>2 DEF Paired, Sound, SubworkerType, NOT_SUPPORTED
    <3>2. Complete([subworkers[i] EXCEPT !.receivedBytes = whole])
      BY <1>1, <2>2 DEF Complete, Position, SubworkerType, Paired, NOT_SUPPORTED
    <3>3. /\ new[i] = [subworkers[i] EXCEPT !.receivedBytes = whole]
          /\ new[i].end = subworkers[i].end
          /\ DOMAIN new = DOMAIN subworkers
          /\ \A j \in DOMAIN subworkers : j # i => new[j] = subworkers[j]
      BY <1>1 DEF SubworkerType
    <3> HIDE DEF whole
    <3>4. new \in Seq(SubworkerType) /\ Sound(new) /\ Paired(new, task)
      BY <1>1, <3>1, ReceivedSet
    <3>5. Finish(i, new)
      BY <1>12, <2>2 DEF Resume, whole
    <3>6. Worked(subworkers, done) /\ Excused(done, errors, aborting)
      BY <1>5, <2>2
    <3> HIDE DEF new, done
    <3>7. Worked(new, done)
      BY <3>2, <3>3, <3>6 DEF Worked
    <3> QED BY <1>4, <2>1, <3>4, <3>5, <3>6, <3>7 DEF done
  <2>3. CASE Goto(i, "stream") /\ UNCHANGED subworkers
    BY <1>3, <2>1, <2>3 DEF Pcs
  <2> QED BY <1>12, <2>2, <2>3 DEF Resume
<1>13. CASE StreamEnd(i)
  <2>1. UNCHANGED errors
    BY <1>13 DEF StreamEnd
  <2>2. Position(subworkers[i]) > task[i].last
    BY <1>13 DEF StreamEnd, Fault
  <2>3. CASE LoopTop(i, "range")
    BY <1>6, <2>1, <2>3
  <2>4. CASE task[i].mode \in {"unknown", "single"} /\ Goto(i, "done") /\ UNCHANGED subworkers
    <3>1. subworkers[i].end \in {UNKNOWN, NOT_SUPPORTED}
      BY <1>1, <2>4 DEF Worked, Paired
    <3>2. Complete(subworkers[i])
      BY <1>1, <2>2, <3>1 DEF Complete, Position, SubworkerType, TaskType, UNKNOWN, NOT_SUPPORTED
    <3> QED BY <1>3, <2>1, <2>4, <3>2 DEF Pcs
  <2> QED BY <1>13, <2>3, <2>4 DEF StreamEnd
<1> QED BY <1>7, <1>8, <1>9, <1>10, <1>11, <1>12, <1>13 DEF SubworkerStep

LEMMA SuperviseAttended ==
    ASSUME WellFormed, Attended, Supervise
    PROVE  Attended'
<1>1. /\ phase = "group" /\ UNCHANGED << phase, errors, aborting >>
      /\ subworkers \in Seq(SubworkerType) /\ Sound(subworkers) /\ Paired(subworkers, task)
      /\ Worked(subworkers, task) /\ Excused(task, errors, aborting)
  BY DEF Supervise, group, WellFormed, TypeOK, Attended
<1>2. CASE UNCHANGED << subworkers, task >>
  BY <1>1, <1>2 DEF Attended
<1>3. ASSUME NEW t \in {NewTask, Orphan}, t = Orphan => aborting,
             Splits(subworkers, subworkers'), task' = Extended(task, subworkers', t)
      PROVE  Attended'
  BY <1>1, <1>3, ExtendedAttended DEF Attended
<1>4. CASE /\ subworkers' = Reassign(Reassign(Reassign(Reassign(subworkers))))
           /\ task' = Extended(task, subworkers', NewTask)
  <2>1. Splits(subworkers, subworkers') /\ NewTask # Orphan
    BY <1>1, <1>4, FourSplits DEF NewTask, Orphan
  <2> QED BY <1>3, <1>4, <2>1
<1>5. CASE /\ aborting
           /\ subworkers' = Reassign(subworkers)
           /\ task' = Extended(task, subworkers', Orphan)
  <2>1. Splits(subworkers, subworkers')
    BY <1>1, <1>5, ReassignSplits
  <2> QED BY <1>3, <1>5, <2>1
<1> QED BY <1>2, <1>4, <1>5 DEF Supervise

(* A group that ends keeps what it has.                                    *)
LEMMA GroupAttended ==
    ASSUME WellFormed, Attended, SuperviseFails \/ Abort \/ Cancel
    PROVE  Attended'
<1>1. phase = "group" /\ Paired(subworkers, task) /\ Worked(subworkers, task)
      /\ Excused(task, errors, aborting)
  BY DEF SuperviseFails, Abort, Cancel, WellFormed, Attended
<1>2. CASE SuperviseFails
  BY <1>1, <1>2 DEF SuperviseFails, group, Attended
<1>3. CASE Abort \/ Cancel
  <2>1. UNCHANGED << subworkers, errors >> /\ aborting' = TRUE /\ CancelLive
    BY <1>3 DEF Abort, Cancel
  <2>2. \A j \in DOMAIN task : task[j] \in TaskType
    BY <1>1 DEF Paired
  <2>3. DOMAIN task' = DOMAIN task
        /\ \A j \in DOMAIN task : /\ task'[j].mode = task[j].mode
                                  /\ task'[j].pc \in {task[j].pc, "cancelled"}
    BY <2>1, <2>2 DEF CancelLive, TaskType
  <2>4. Worked(subworkers, task') /\ Excused(task', errors, TRUE)
    BY <1>1, <2>3 DEF Worked, Excused, Paired
  <2> QED BY <2>1, <2>4 DEF Attended
<1> QED BY <1>2, <1>3

LEMMA AttendedNext ==
    ASSUME "premature" \notin Env, WellFormed, Attended, [FilesNext]_vars
    PROVE  Attended'
<1>1. CASE UNCHANGED vars
  BY <1>1 DEF vars, step, group, Attended
<1>2. CASE \E i \in DOMAIN task : SubworkerStep(i)
  BY <1>2, SubworkerStepAttended
<1>3. ASSUME NEW subs \in Seq(SubworkerType), Launch(subs) PROVE Attended'
  <2>1. subworkers' = subs /\ task' = [j \in DOMAIN subs |-> NewTask]
    BY <1>3 DEF Launch
  <2>2. NewTask.pc = "new" /\ NewTask.mode = "undecided"
    BY DEF NewTask
  <2> HIDE DEF NewTask
  <2> QED BY <2>1, <2>2 DEF Attended, Worked, Excused
<1>4. CASE RunFresh
  <2>1. BuildSubworkers(FileSize, canRange, wanted) \in Seq(SubworkerType)
    BY <1>4, BuildSubworkersFresh DEF RunFresh, WellFormed, TypeOK, Fresh
  <2> QED BY <1>3, <1>4, <2>1 DEF RunFresh
<1>5. CASE RestoreDone \/ Relaunch
  BY <1>3, <1>5 DEF RestoreDone, Relaunch, WellFormed, TypeOK
<1>6. CASE Supervise
  BY <1>6, SuperviseAttended
<1>7. CASE SuperviseFails \/ Abort \/ Cancel
  BY <1>7, GroupAttended
<1>8. CASE phase' # "group"
  BY <1>8 DEF Attended
<1>9. CASE DeleteFiles \/ MoveFiles \/ RemoteChanges
  BY <1>8, <1>9, FilesStep
<1> QED BY <1>1, <1>2, <1>4, <1>5, <1>6, <1>7, <1>8, <1>9
        DEF FilesNext, Next, Create, SetOptions, RunRestored, RestoreSplit, GroupCompleted,
            GroupCancelled, GroupFailed, FallBack, Settle, Kill, KillOpeningRecord,
            KillInFallBack, Lose, Finished

(* As long as nothing has failed, every range that is not complete has a   *)
(* task that will go on with it: no split, of a worker that finished       *)
(* (_reassignSubworker, _engine.py:207) or of the supervisor, loses its    *)
(* second half.  A body that is cut short may end a task before its range  *)
(* when the first range is a single byte, and is excluded.                 *)
THEOREM NoRangeOrphaned ==
    ASSUME "premature" \notin Env
    PROVE  FilesSpec => []NoOrphanedRange
<1>1. Init => Attended
  BY DEF Init, Attended
<1>2. WellFormed /\ Attended /\ [FilesNext]_vars => Attended'
  BY AttendedNext
<1>3. WellFormed /\ Attended => NoOrphanedRange
  <2> SUFFICES ASSUME WellFormed, Attended, phase = "group", ~ aborting, errors = {},
                      NEW i \in DOMAIN subworkers
               PROVE  task[i].pc \in Live \/ (task[i].pc = "done" /\ Complete(subworkers[i]))
    BY DEF NoOrphanedRange
  <2>1. task[i] \in TaskType /\ i \in DOMAIN task
    BY DEF WellFormed, Paired
  <2> QED BY <2>1 DEF Attended, Worked, Excused, TaskType, Pcs, Live
<1> QED BY FilesWellFormed, <1>1, <1>2, <1>3, PTL DEF FilesSpec

-----------------------------------------------------------------------------
(***************************************************************************)
(* A download that reports COMPLETED has the whole file: proved for every  *)
(* file, every number of subworkers, every size of a chunk and every       *)
(* interleaving, across pauses, failures and deaths of the process.        *)
(*                                                                         *)
(* The argument.  The ranges tile the file (Tiled), a task that is done    *)
(* has completed its range (Attended), and what a subworker counts as      *)
(* received is on the disk (Claimed): so when all tasks are done all bytes *)
(* are on the disk.  A single stream has counted them itself (Measured).   *)
(***************************************************************************)

(* What the world must keep to, besides OrderlyFiles: the step was told    *)
(* the length of the file, a body is not cut short without an error, and   *)
(* there is room for the file.  Errors, refusals, cancellations, deaths of *)
(* the process, a lost record and files that are in use remain.            *)
Faithful ==
    /\ OrderlyFiles
    /\ FileSize = Length
    /\ Env \cap {"premature", "ftruncate"} = {}

InRun == {"restoring", "group"}

(* Where a response ends.                                                  *)
Lasts(tasks) ==
    \A i \in DOMAIN tasks :
        /\ tasks[i].last < Length
        /\ tasks[i].mode \in {"unknown", "single"} => tasks[i].last = Length - 1

(* A single stream that is done has come to the end of the file.           *)
StreamDone(subs, tasks, length) ==
    \A i \in DOMAIN subs :
        subs[i].end = NOT_SUPPORTED /\ tasks[i].pc = "done" =>
            length = Length /\ subs[i].receivedBytes = Length

(* How long the file is, and how far the tasks are.                        *)
Measured ==
    /\ good \subseteq 0 .. Length - 1
    /\ record # << >> => size = Length
    /\ phase \in InRun => subworkers # << >>
    /\ phase \in InRun /\ canRange => size = Length
    /\ phase = "falling_back" => ~ canRange
    /\ phase = "group" =>
          /\ aborting => errors # {} \/ cancelled
          /\ Lasts(task)
          /\ StreamDone(subworkers, task, size)
    /\ status = "COMPLETED" =>
          phase \in {"completing", "finished"} /\ good = 0 .. Length - 1 /\ size = Length

(* All that is known of a state.                                           *)
Known == WellFormed /\ Claimed /\ Tiled /\ Attended /\ Measured

LEMMA LengthFacts ==
    ASSUME Faithful
    PROVE  Length \in Nat /\ Length > 0 /\ FileSize = Length /\ FileSize > 0 /\ FileSize # UNKNOWN
  BY HttpStepAssumption DEF Faithful, UNKNOWN

-----------------------------------------------------------------------------
(* The step of a subworker.                                                *)

LEMMA RequestingLast ==
    ASSUME NEW mode, NEW sw \in SubworkerType
    PROVE  /\ Requesting(mode, sw).last < Length
           /\ mode \in {"unknown", "single"} => Requesting(mode, sw).last = Length - 1
           /\ Requesting(mode, sw).mode = mode
           /\ Requesting(mode, sw).pc = "request"
<1>1. Length \in Nat
  BY HttpStepAssumption
<1>2. MinOf(sw.end, Length - 1) < Length
  BY <1>1 DEF MinOf, SubworkerType, NOT_SUPPORTED
<1>3. Length - 1 < Length
  BY <1>1
<1> QED BY <1>2, <1>3 DEF Requesting

LEMMA NewTaskLast ==
    /\ NewTask.last < Length /\ NewTask.mode = "undecided" /\ NewTask.pc = "new"
    /\ Orphan.last < Length /\ Orphan.mode = "undecided" /\ Orphan.pc = "orphan"
  BY HttpStepAssumption DEF NewTask, Orphan

LEMMA PcLasts ==
    ASSUME NEW subs, NEW tasks, Paired(subs, tasks), Lasts(tasks), NEW i \in DOMAIN tasks, NEW pc
    PROVE  /\ Lasts([tasks EXCEPT ![i].pc = pc])
           /\ DOMAIN [tasks EXCEPT ![i].pc = pc] = DOMAIN tasks
           /\ [tasks EXCEPT ![i].pc = pc][i].pc = pc
           /\ [tasks EXCEPT ![i].pc = pc][i].mode = tasks[i].mode
<1> DEFINE t == [tasks[i] EXCEPT !.pc = pc]
           new == [tasks EXCEPT ![i].pc = pc]
<1>1. tasks[i] \in TaskType
  BY DEF Paired
<1>2. t.pc = pc /\ t.mode = tasks[i].mode /\ t.last = tasks[i].last
  BY <1>1 DEF TaskType
<1>3. new[i] = t /\ DOMAIN new = DOMAIN tasks /\ \A j \in DOMAIN tasks : j # i => new[j] = tasks[j]
  OBVIOUS
<1> HIDE DEF new, t
<1>4. Lasts(new)
  BY <1>2, <1>3 DEF Lasts
<1> QED BY <1>2, <1>3, <1>4 DEF new

LEMMA ExtendedLasts ==
    ASSUME NEW tasks, Lasts(tasks), NEW subs, NEW t \in {NewTask, Orphan}
    PROVE  Lasts(Extended(tasks, subs, t))
  BY NewTaskLast DEF Lasts, Extended

LEMMA LoopTopLasts ==
    ASSUME WellFormed, phase = "group", NEW i \in DOMAIN task, Lasts(task),
           NEW mode, LoopTop(i, mode)
    PROVE  Lasts(task')
<1>1. Paired(subworkers, task) /\ subworkers[i] \in SubworkerType
  BY DEF WellFormed, TypeOK, Paired
<1>2. CASE Finish(i, subworkers)
  BY <1>1, <1>2, PcLasts, ExtendedLasts DEF Finish
<1>3. CASE task' = [task EXCEPT ![i] = Requesting(mode, subworkers[i])]
  <2> DEFINE t == Requesting(mode, subworkers[i])
  <2>1. t.last < Length /\ (t.mode \in {"unknown", "single"} => t.last = Length - 1)
    BY <1>1, RequestingLast
  <2> HIDE DEF t
  <2>2. Lasts([task EXCEPT ![i] = t])
    BY <2>1 DEF Lasts
  <2> QED BY <1>3, <2>2 DEF t
<1> QED BY <1>2, <1>3 DEF LoopTop

LEMMA StepLasts ==
    ASSUME WellFormed, NEW i \in DOMAIN task, Lasts(task), SubworkerStep(i)
    PROVE  Lasts(task')
<1> USE DEF At
<1>0. phase = "group" /\ Paired(subworkers, task)
  BY DEF SubworkerStep, Start, Retry, ReplyOk, ReplyUnsatisfiable, ReplyPermanent,
         ReplyFull, TransientError, Chunk, WriteFatal, Resume, StreamEnd, Raise, WellFormed
<1>1. ASSUME NEW pc, Goto(i, pc) PROVE Lasts(task')
  BY <1>0, <1>1, PcLasts DEF Goto
<1>2. ASSUME NEW mode, LoopTop(i, mode) PROVE Lasts(task')
  BY <1>0, <1>2, LoopTopLasts
<1>3. ASSUME NEW subs, Finish(i, subs) PROVE Lasts(task')
  BY <1>0, <1>3, PcLasts, ExtendedLasts DEF Finish
<1>4. CASE Start(i) \/ Retry(i)
  BY <1>2, <1>4 DEF Start, Retry
<1>5. CASE \/ ReplyOk(i) \/ ReplyUnsatisfiable(i) \/ ReplyPermanent(i) \/ ReplyFull(i)
           \/ TransientError(i) \/ WriteFatal(i) \/ \E n \in ChunkSizes : Chunk(i, n)
  BY <1>1, <1>5 DEF ReplyOk, ReplyUnsatisfiable, ReplyPermanent, ReplyFull, TransientError,
                    WriteFatal, Raise, Chunk
<1>6. CASE Resume(i)
  BY <1>1, <1>3, <1>6 DEF Resume
<1>7. CASE StreamEnd(i)
  BY <1>1, <1>2, <1>7 DEF StreamEnd
<1> QED BY <1>4, <1>5, <1>6, <1>7 DEF SubworkerStep

(* What is written lies in the file; only a single stream shortens it.     *)
LEMMA StepDisk ==
    ASSUME Faithful, WellFormed, NEW i \in DOMAIN task, Lasts(task), SubworkerStep(i),
           good \subseteq 0 .. Length - 1
    PROVE  /\ good' \subseteq 0 .. Length - 1
           /\ canRange /\ size = Length => size' = Length
<1> USE DEF At
<1>0. /\ phase = "group" /\ Paired(subworkers, task) /\ i \in DOMAIN subworkers
      /\ subworkers[i] \in SubworkerType /\ task[i] \in TaskType
      /\ canRange => subworkers[i].end # NOT_SUPPORTED
  BY DEF SubworkerStep, Start, Retry, ReplyOk, ReplyUnsatisfiable, ReplyPermanent,
         ReplyFull, TransientError, Chunk, WriteFatal, Resume, StreamEnd, Raise, WellFormed,
         TypeOK, Paired, AllRanges
<1>1. Length \in Nat
  BY LengthFacts
<1>2. CASE UNCHANGED << good, size >>
  BY <1>2
<1>3. ASSUME NEW n, Truncated(n), ~ canRange
      PROVE  good' \subseteq 0 .. Length - 1
  BY <1>3 DEF Truncated
<1>4. ASSUME NEW mode, LoopTop(i, mode), mode = "single" => subworkers[i].end = NOT_SUPPORTED
      PROVE  /\ good' \subseteq 0 .. Length - 1
             /\ canRange /\ size = Length => size' = Length
  <2>1. UNCHANGED << good, size >> \/ (mode = "single" /\ Truncated(0))
    BY <1>4 DEF LoopTop
  <2> QED BY <1>0, <1>2, <1>3, <1>4, <2>1 DEF Truncated
<1>5. CASE Start(i)
  <2>1. ModeOf(subworkers[i]) = "single" => subworkers[i].end = NOT_SUPPORTED
    BY DEF ModeOf
  <2> QED BY <1>4, <1>5, <2>1 DEF Start
<1>6. CASE Retry(i)
  <2>1. task[i].mode = "single" => subworkers[i].end = NOT_SUPPORTED
    BY <1>0 DEF Paired
  <2> QED BY <1>4, <1>6, <2>1 DEF Retry
<1>7. CASE \/ ReplyOk(i) \/ ReplyUnsatisfiable(i) \/ ReplyPermanent(i) \/ ReplyFull(i)
           \/ TransientError(i) \/ WriteFatal(i) \/ Resume(i)
  BY <1>2, <1>7 DEF ReplyOk, ReplyUnsatisfiable, ReplyPermanent, ReplyFull, TransientError,
                    WriteFatal, Raise, Resume
<1>8. ASSUME NEW n \in ChunkSizes, Chunk(i, n)
      PROVE  /\ good' \subseteq 0 .. Length - 1
             /\ canRange /\ size = Length => size' = Length
  <2> DEFINE k == Accepted(i, n)
             offset == Position(subworkers[i])
  <2>1. Written(offset, k)
    BY <1>8 DEF Chunk, Fault, Faithful, OrderlyFiles, OrderlyDisk
  <2>2. offset \in Nat /\ k \in Int /\ n \in Nat
    BY <1>0, <1>8, AcceptedBounds, HttpStepAssumption DEF Chunk, SubworkerType, Position
  <2>3. k <= task[i].last - offset + 1
    BY <1>0, <1>8, <2>2, HttpStepAssumption
       DEF Accepted, MinOf, TaskType, Remaining, SubworkerType, NOT_SUPPORTED
  <2>4. task[i].last < Length /\ task[i].last \in Nat
    BY <1>0 DEF Lasts, TaskType
  <2> HIDE DEF k, offset
  <2>5. offset + k <= Length
    BY <1>1, <2>2, <2>3, <2>4
  <2>6. good' \subseteq 0 .. Length - 1
    BY <1>1, <2>1, <2>2, <2>5 DEF Written
  <2>7. size = Length => size' = Length
    BY <1>1, <2>1, <2>2, <2>5 DEF Written, MaxOf
  <2> QED BY <2>6, <2>7
<1>9. CASE StreamEnd(i)
  <2>1. CASE LoopTop(i, "range")
    BY <1>4, <2>1
  <2>2. CASE task[i].mode = "single" /\ Truncated(subworkers[i].receivedBytes)
    <3>1. ~ canRange
      BY <1>0, <2>2 DEF Paired
    <3> QED BY <1>3, <2>2, <3>1
  <2> QED BY <1>2, <1>9, <2>1, <2>2 DEF StreamEnd
<1> QED BY <1>5, <1>6, <1>7, <1>8, <1>9 DEF SubworkerStep

(* A single stream counts no byte past the end of the file.                *)
LEMMA StreamBounded ==
    ASSUME Faithful, NEW subs, NEW bytes, SingleStream(subs), subs[1].receivedBytes \in Nat,
           OnDisk(subs, bytes), bytes \subseteq 0 .. Length - 1
    PROVE  /\ subs[1].receivedBytes <= Length
           /\ 0 .. subs[1].receivedBytes - 1 \subseteq bytes
<1> DEFINE r == subs[1].receivedBytes
<1>1. r \in Nat /\ Length \in Nat
  BY LengthFacts
<1>2. 1 \in DOMAIN subs /\ Position(subs[1]) = r
  BY <1>1 DEF SingleStream, Position
<1>3. 0 .. r - 1 \subseteq bytes
  BY <1>2 DEF OnDisk, Received, SingleStream
<1> HIDE DEF r
<1>4. r > 0 => r - 1 \in 0 .. r - 1
  BY <1>1
<1>5. r <= Length
  BY <1>1, <1>3, <1>4
<1> QED BY <1>3, <1>5 DEF r

(* The list of subworkers never shrinks.                                   *)
LEMMA GrowsNonEmpty ==
    ASSUME NEW old \in Seq(SubworkerType), old # << >>, NEW new, Grows(old, new)
    PROVE  new # << >>
<1>1. Len(old) > 0 /\ Len(old) <= Len(new) /\ new \in Seq(SubworkerType)
  BY DEF Grows
<1> QED BY <1>1

LEMMA RangesNonEmpty ==
    ASSUME NEW subs \in Seq(SubworkerType), Sound(subs), subs # << >>,
           subworkers' = subs \/ subworkers' = Reassign(subs)
    PROVE  subworkers' # << >>
<1>1. Grows(subs, Reassign(subs))
  BY ReassignedGrows DEF Reassign
<1> QED BY <1>1, GrowsNonEmpty

LEMMA StepNonEmpty ==
    ASSUME WellFormed, NEW i \in DOMAIN task, SubworkerStep(i)
    PROVE  subworkers' # << >>
<1> USE DEF At
<1>0. phase = "group"
  BY DEF SubworkerStep, Start, Retry, ReplyOk, ReplyUnsatisfiable, ReplyPermanent,
         ReplyFull, TransientError, Chunk, WriteFatal, Resume, StreamEnd, Raise
<1>1. /\ subworkers \in Seq(SubworkerType) /\ Sound(subworkers)
      /\ i \in DOMAIN subworkers /\ subworkers # << >>
      /\ subworkers[i] \in SubworkerType
      /\ Paired(subworkers, task)
  BY <1>0 DEF WellFormed, TypeOK, Paired
<1>2. CASE subworkers' = subworkers \/ subworkers' = Reassign(subworkers)
  BY <1>1, <1>2, RangesNonEmpty
<1>3. ASSUME NEW r \in Nat,
             \/ subworkers' = [subworkers EXCEPT ![i].receivedBytes = r]
             \/ subworkers' = Reassign([subworkers EXCEPT ![i].receivedBytes = r])
      PROVE  subworkers' # << >>
  <2> DEFINE subs == [subworkers EXCEPT ![i].receivedBytes = r]
  <2>1. subs \in Seq(SubworkerType) /\ DOMAIN subs = DOMAIN subworkers /\ Sound(subs)
    BY <1>1, ReceivedSet
  <2>2. subworkers' = subs \/ subworkers' = Reassign(subs)
    BY <1>3
  <2> HIDE DEF subs
  <2>3. subs # << >>
    BY <1>1, <2>1
  <2> QED BY <2>1, <2>2, <2>3, RangesNonEmpty
<1>4. ASSUME NEW mode, LoopTop(i, mode) PROVE subworkers' # << >>
  <2>1. CASE Finish(i, subworkers)
    BY <1>2, <2>1 DEF Finish, Reassign
  <2>2. CASE subworkers' = [subworkers EXCEPT ![i].receivedBytes = 0]
    BY <1>3, <2>2
  <2> QED BY <1>2, <1>4, <2>1, <2>2 DEF LoopTop
<1>5. CASE Start(i) \/ Retry(i)
  BY <1>4, <1>5 DEF Start, Retry
<1>6. CASE \/ ReplyOk(i) \/ ReplyUnsatisfiable(i) \/ ReplyPermanent(i) \/ ReplyFull(i)
           \/ TransientError(i) \/ WriteFatal(i)
  BY <1>2, <1>6 DEF ReplyOk, ReplyUnsatisfiable, ReplyPermanent, ReplyFull, TransientError,
                    WriteFatal, Raise
<1>7. ASSUME NEW n \in ChunkSizes, Chunk(i, n) PROVE subworkers' # << >>
  <2> DEFINE r == subworkers[i].receivedBytes + Accepted(i, n)
  <2>1. r \in Nat
    BY <1>0, <1>7, AcceptedBounds DEF Chunk
  <2>2. subworkers' = [subworkers EXCEPT ![i].receivedBytes = r]
    BY <1>7 DEF Chunk
  <2> HIDE DEF r
  <2> QED BY <1>3, <2>1, <2>2
<1>8. CASE Resume(i)
  <2>1. CASE task[i].mode = "range" /\ Complete(subworkers[i])
    <3> DEFINE whole == subworkers[i].end - subworkers[i].start + 1
    <3>1. whole \in Nat
      BY <1>1, <2>1 DEF Paired, Sound, SubworkerType, NOT_SUPPORTED
    <3>2. subworkers' = Reassign([subworkers EXCEPT ![i].receivedBytes = whole])
      BY <1>8, <2>1 DEF Resume, Finish, Reassign
    <3> HIDE DEF whole
    <3> QED BY <1>3, <3>1, <3>2
  <2>2. CASE UNCHANGED subworkers
    BY <1>2, <2>2
  <2> QED BY <1>8, <2>1, <2>2 DEF Resume
<1>9. CASE StreamEnd(i)
  <2>1. CASE LoopTop(i, "range")
    BY <1>4, <2>1
  <2>2. CASE UNCHANGED subworkers
    BY <1>2, <2>2
  <2> QED BY <1>9, <2>1, <2>2 DEF StreamEnd
<1> QED BY <1>5, <1>6, <1>7, <1>8, <1>9 DEF SubworkerStep

(* A single stream ends at the end of the file only.                       *)
LEMMA StreamStep ==
    ASSUME Faithful, WellFormed, Claimed, Attended, Measured, ~ canRange,
           NEW i \in DOMAIN task, SubworkerStep(i)
    PROVE  StreamDone(subworkers', task', size')
<1> USE DEF At
<1>0. phase = "group" /\ Steady
  BY DEF SubworkerStep, Start, Retry, ReplyOk, ReplyUnsatisfiable, ReplyPermanent,
         ReplyFull, TransientError, Chunk, WriteFatal, Resume, StreamEnd, Raise
<1>1. /\ SingleStream(subworkers) /\ Paired(subworkers, task)
      /\ Worked(subworkers, task) /\ Lasts(task)
      /\ subworkers \in Seq(SubworkerType) /\ OnDisk(subworkers, good)
      /\ good \subseteq 0 .. Length - 1
  BY <1>0 DEF Claimed, ClaimsOnDisk, WellFormed, TypeOK, Attended, Measured
<1>2. /\ DOMAIN task = {1} /\ DOMAIN subworkers = {1} /\ i = 1
      /\ subworkers[1].end = NOT_SUPPORTED /\ subworkers[1].start = 0
      /\ subworkers[1] \in SubworkerType /\ task[1] \in TaskType
  <2>1. DOMAIN subworkers = 1 .. Len(subworkers) /\ Len(subworkers) = 1
    BY <1>1 DEF SingleStream
  <2>2. DOMAIN subworkers = {1} /\ DOMAIN task = {1} /\ i = 1
    BY <1>1, <2>1 DEF Paired
  <2>3. subworkers[1] \in SubworkerType /\ task[1] \in TaskType
    BY <1>1, <2>2 DEF Paired
  <2> QED BY <1>1, <2>2, <2>3 DEF SingleStream
<1>3. task[1].mode \notin {"range", "unknown"} /\ ModeOf(subworkers[1]) = "single"
  BY <1>1, <1>2 DEF Paired, Worked, ModeOf, UNKNOWN, NOT_SUPPORTED
<1>4. WellFormed' /\ Claimed'
  BY <1>0, SubworkerStepWellFormed, SubworkerStepClaims
     DEF Faithful, OrderlyFiles, Claimed, ClaimsOnDisk
<1>5. SingleStream(subworkers') /\ subworkers' \in Seq(SubworkerType) /\ DOMAIN subworkers' = {1}
  <2>1. phase' = "group" /\ ~ canRange'
    BY <1>0 DEF Steady, step
  <2>2. SingleStream(subworkers') /\ subworkers' \in Seq(SubworkerType)
    BY <1>4, <2>1 DEF Claimed, ClaimsOnDisk, WellFormed, TypeOK
  <2> QED BY <2>2 DEF SingleStream
<1>6. CASE task'[1].pc # "done"
  BY <1>5, <1>6 DEF StreamDone
<1>7. ASSUME NEW pc, Goto(i, pc), pc # "done" PROVE task'[1].pc # "done"
  <2>1. task'[1].pc = pc
    BY <1>2, <1>7 DEF Goto, TaskType
  <2> QED BY <1>7, <2>1
<1>8. ASSUME NEW mode, mode # "range", LoopTop(i, mode) PROVE task'[1].pc # "done"
  <2> DEFINE t == Requesting(mode, subworkers[i])
  <2>1. t.pc = "request"
    BY DEF Requesting
  <2> HIDE DEF t
  <2>2. task' = [task EXCEPT ![i] = t]
    BY <1>8 DEF LoopTop, t
  <2> QED BY <1>2, <2>1, <2>2
<1>9. CASE Start(i) \/ Retry(i)
  <2>1. \E mode : mode # "range" /\ LoopTop(i, mode)
    BY <1>2, <1>3, <1>9 DEF Start, Retry
  <2> QED BY <1>6, <1>8, <2>1
<1>10. CASE \/ ReplyOk(i) \/ ReplyUnsatisfiable(i) \/ ReplyPermanent(i) \/ ReplyFull(i)
            \/ TransientError(i) \/ WriteFatal(i) \/ \E n \in ChunkSizes : Chunk(i, n)
            \/ Resume(i)
  BY <1>2, <1>3, <1>6, <1>7, <1>10 DEF ReplyOk, ReplyUnsatisfiable, ReplyPermanent, ReplyFull,
                    TransientError, WriteFatal, Raise, Chunk, Resume
<1>11. CASE StreamEnd(i)
  <2>1. task[1].mode = "single" /\ Truncated(subworkers[1].receivedBytes) /\ UNCHANGED subworkers
    BY <1>2, <1>3, <1>11 DEF StreamEnd
  <2>2. Position(subworkers[1]) > task[1].last
    BY <1>2, <1>11 DEF StreamEnd, Fault, Faithful
  <2>3. task[1].last = Length - 1
    BY <1>1, <1>2, <2>1 DEF Lasts
  <2>4. subworkers[1].receivedBytes \in Nat /\ Position(subworkers[1]) = subworkers[1].receivedBytes
    BY <1>2 DEF SubworkerType, Position
  <2>5. subworkers[1].receivedBytes <= Length
    BY <1>1, <2>4, StreamBounded
  <2>6. subworkers[1].receivedBytes = Length
    BY <2>2, <2>3, <2>4, <2>5, LengthFacts
  <2> QED BY <1>5, <2>1, <2>6 DEF StreamDone, Truncated
<1> QED BY <1>9, <1>10, <1>11 DEF SubworkerStep

LEMMA SubworkerStepMeasured ==
    ASSUME Faithful, WellFormed, Claimed, Attended, Measured, NEW i \in DOMAIN task,
           SubworkerStep(i)
    PROVE  Measured'
<1>0. phase = "group" /\ Steady
  BY DEF SubworkerStep, Start, Retry, ReplyOk, ReplyUnsatisfiable, ReplyPermanent,
         ReplyFull, TransientError, Chunk, WriteFatal, Resume, StreamEnd, Raise, At
<1>1. /\ UNCHANGED << record, canRange, status, phase, aborting, cancelled >>
      /\ Lasts(task) /\ good \subseteq 0 .. Length - 1
      /\ canRange => size = Length
      /\ ~ canRange => record = << >>
      /\ status # "COMPLETED"
      /\ aborting => errors # {} \/ cancelled
  BY <1>0 DEF Steady, step, Measured, InRun, Claimed, ClaimsOnDisk
<1>2. Lasts(task')
  BY <1>1, StepLasts
<1>3. good' \subseteq 0 .. Length - 1 /\ (canRange => size' = Length)
  BY <1>1, StepDisk
<1>4. subworkers' # << >>
  BY StepNonEmpty
<1>5. errors \subseteq errors'
  BY DEF SubworkerStep, Start, Retry, ReplyOk, ReplyUnsatisfiable, ReplyPermanent,
         ReplyFull, TransientError, Chunk, WriteFatal, Resume, StreamEnd, Raise
<1>6. StreamDone(subworkers', task', size')
  <2>1. CASE canRange
    <3>1. AllRanges(subworkers')
      BY <1>1, <2>1, SubworkerStepWellFormed DEF WellFormed
    <3> QED BY <3>1 DEF AllRanges, StreamDone
  <2>2. CASE ~ canRange
    BY <2>2, StreamStep
  <2> QED BY <2>1, <2>2
<1>7. canRange \in BOOLEAN
  BY DEF WellFormed, TypeOK
<1>8. record' # << >> => canRange
  BY <1>1
<1>9. phase' = "group" /\ status' # "COMPLETED" /\ (aborting' => errors' # {} \/ cancelled')
  BY <1>0, <1>1, <1>5
<1> QED BY <1>1, <1>2, <1>3, <1>4, <1>6, <1>8, <1>9 DEF Measured

-----------------------------------------------------------------------------
(* The supervisor, and a group that fails or is cancelled.                 *)

LEMMA SuperviseMeasured ==
    ASSUME Faithful, WellFormed, Claimed, Measured, Supervise
    PROVE  Measured'
<1>1. /\ phase = "group" /\ UNCHANGED << good, size, canRange, status, phase >>
      /\ UNCHANGED << errors, aborting, cancelled >>
      /\ record' = IF canRange THEN subworkers ELSE record
      /\ Lasts(task) /\ StreamDone(subworkers, task, size) /\ subworkers # << >>
      /\ good \subseteq 0 .. Length - 1 /\ canRange \in BOOLEAN
      /\ canRange => size = Length
      /\ ~ canRange => record = << >> /\ SingleStream(subworkers)
      /\ aborting => errors # {} \/ cancelled
      /\ status # "COMPLETED"
      /\ subworkers \in Seq(SubworkerType) /\ Sound(subworkers) /\ Paired(subworkers, task)
  BY DEF Supervise, group, Measured, InRun, WellFormed, TypeOK, Claimed, ClaimsOnDisk
<1>2. \/ UNCHANGED << subworkers, task >>
      \/ \E t \in {NewTask, Orphan} :
            /\ subworkers' \in { Reassign(subworkers),
                                  Reassign(Reassign(Reassign(Reassign(subworkers)))) }
            /\ task' = Extended(task, subworkers', t)
  BY DEF Supervise
<1>3. subworkers' # << >>
  <2>1. Grows(subworkers, Reassign(subworkers))
        /\ Grows(subworkers, Reassign(Reassign(Reassign(Reassign(subworkers)))))
    BY <1>1, ReassignedGrows, FourSplitsGrow DEF Reassign
  <2> QED BY <1>1, <1>2, <2>1, GrowsNonEmpty
<1>4. Lasts(task')
  BY <1>1, <1>2, ExtendedLasts
<1>5. StreamDone(subworkers', task', size')
  <2>1. CASE canRange
    <3>1. AllRanges(subworkers')
      BY <1>1, <2>1, SuperviseWellFormed DEF WellFormed
    <3> QED BY <3>1 DEF AllRanges, StreamDone
  <2>2. CASE ~ canRange
    <3>1. subworkers' = subworkers
      <4>1. Reassign(subworkers) = subworkers
        BY <1>1, <2>2, SingleStreamKept
      <4> QED BY <1>2, <4>1
    <3>2. \A j \in DOMAIN subworkers : task'[j] = task[j]
      BY <1>1, <1>2, <3>1 DEF Extended, Paired
    <3> QED BY <1>1, <3>1, <3>2 DEF StreamDone
  <2> QED BY <2>1, <2>2
<1> QED BY <1>1, <1>3, <1>4, <1>5 DEF Measured

LEMMA GroupMeasured ==
    ASSUME Faithful, WellFormed, Claimed, Measured, SuperviseFails \/ Abort \/ Cancel
    PROVE  Measured'
<1>1. /\ phase = "group" /\ UNCHANGED << good, size, canRange, status, phase, subworkers, errors >>
      /\ record' \in {record, << >>}
      /\ aborting' => errors' # {} \/ cancelled'
      /\ Paired(subworkers, task)
  BY DEF SuperviseFails, Abort, Cancel, Measured, WellFormed, disk, step, group
<1>2. /\ DOMAIN task' = DOMAIN task
      /\ \A j \in DOMAIN task : /\ task'[j].last = task[j].last
                                /\ task'[j].mode = task[j].mode
                                /\ task'[j].pc \in {task[j].pc, "cancelled"}
  <2>1. \A j \in DOMAIN task : task[j] \in TaskType
    BY <1>1 DEF Paired
  <2>2. UNCHANGED task \/ CancelLive
    BY DEF SuperviseFails, Abort, Cancel
  <2> QED BY <2>1, <2>2 DEF CancelLive, TaskType
<1>3. Lasts(task) /\ StreamDone(subworkers, task, size) /\ DOMAIN subworkers = DOMAIN task
  BY <1>1 DEF Measured, Paired
<1>4. Lasts(task') /\ StreamDone(subworkers', task', size')
  BY <1>1, <1>2, <1>3 DEF Lasts, StreamDone
<1> QED BY <1>1, <1>4 DEF Measured

-----------------------------------------------------------------------------
(* The end of a download.                                                  *)

LEMMA CompletedMeasured ==
    ASSUME Faithful, Known, GroupCompleted
    PROVE  good = 0 .. Length - 1 /\ size = Length
<1>1. /\ phase = "group" /\ errors = {} /\ ~ cancelled /\ ~ aborting
      /\ \A i \in DOMAIN task : task[i].pc \notin Live
      /\ good \subseteq 0 .. Length - 1
      /\ subworkers # << >> /\ subworkers \in Seq(SubworkerType)
      /\ Paired(subworkers, task) /\ Worked(subworkers, task)
      /\ Excused(task, errors, aborting) /\ OnDisk(subworkers, good)
  BY DEF GroupCompleted, GroupEnded, Known, Measured, InRun, WellFormed, TypeOK, Attended,
         Claimed, ClaimsOnDisk
<1>2. ASSUME NEW i \in DOMAIN subworkers
      PROVE  task[i].pc = "done" /\ Complete(subworkers[i])
  <2>1. task[i] \in TaskType /\ i \in DOMAIN task
    BY <1>1 DEF Paired
  <2> QED BY <1>1, <2>1 DEF Worked, Excused, TaskType, Pcs, Live
<1>3. CASE canRange
  <2>1. size = Length /\ Tiles(subworkers) /\ AllRanges(subworkers)
    BY <1>1, <1>3, LengthFacts DEF Known, Measured, InRun, Tiled, WellFormed
  <2>2. ASSUME NEW b \in 0 .. Length - 1 PROVE b \in good
    <3>1. PICK i \in DOMAIN subworkers : subworkers[i].start <= b /\ b <= subworkers[i].end
      BY <2>1, LengthFacts DEF Tiles
    <3>2. subworkers[i] \in SubworkerType /\ subworkers[i].end \in Nat
      <4>1. subworkers[i] \in SubworkerType
        BY <1>1
      <4> QED BY <2>1, <4>1 DEF AllRanges, SubworkerType
    <3>3. b \in Received(subworkers[i])
      BY <1>2, <3>1, <3>2, LengthFacts DEF Complete, Received, Position, SubworkerType
    <3> QED BY <1>1, <3>3 DEF OnDisk
  <2> QED BY <1>1, <2>1, <2>2
<1>4. CASE ~ canRange
  <2>1. SingleStream(subworkers) /\ StreamDone(subworkers, task, size)
    BY <1>1, <1>4 DEF Known, Measured, Claimed, ClaimsOnDisk
  <2>2. 1 \in DOMAIN subworkers /\ subworkers[1].end = NOT_SUPPORTED
    BY <1>1, <2>1 DEF SingleStream
  <2>3. size = Length /\ subworkers[1].receivedBytes = Length
    BY <1>2, <2>1, <2>2 DEF StreamDone
  <2>4. 0 .. Length - 1 \subseteq good
    BY <1>1, <2>1, <2>3, StreamBounded, LengthFacts
  <2> QED BY <1>1, <2>3, <2>4
<1> QED BY <1>3, <1>4

(* Where nothing runs, little is to be known.                              *)
LEMMA MeasuredOutside ==
    ASSUME Measured,
           good' \in {good, {}} \/ good' \subseteq good,
           record' = << >> \/ UNCHANGED << record, size >>,
           phase' \notin {"restoring", "group", "falling_back"},
           status' # "COMPLETED" \/ UNCHANGED << good, size, status >>,
           status' = "COMPLETED" => phase' \in {"completing", "finished"}
    PROVE  Measured'
  BY DEF Measured, InRun

LEMMA EndMeasured ==
    ASSUME Faithful, Known,
           \/ GroupCompleted \/ GroupCancelled \/ GroupFailed \/ FallBack \/ Settle
           \/ Kill \/ KillOpeningRecord \/ KillInFallBack
    PROVE  Measured'
<1>0. Measured
  BY DEF Known
<1>1. CASE GroupCompleted
  <2>1. good = 0 .. Length - 1 /\ size = Length
    BY <1>1, CompletedMeasured
  <2>2. phase' = "completing" /\ UNCHANGED << good, size, record >>
    BY <1>1 DEF GroupCompleted, disk
  <2> QED BY <1>0, <2>1, <2>2 DEF Measured, InRun
<1>2. CASE GroupCancelled \/ GroupFailed
  <2>1. /\ UNCHANGED << good, size, record >> /\ phase' \in {"pausing", "failing"}
        /\ phase = "group" /\ status' \in {status, "PAUSED"}
    BY <1>2 DEF GroupCancelled, GroupFailed, GroupEnded, disk, step
  <2>2. status' # "COMPLETED"
    BY <1>0, <2>1 DEF Measured
  <2> QED BY <1>0, <2>1, <2>2, MeasuredOutside
<1>3. CASE FallBack
  <2>1. /\ phase' = "falling_back" /\ ~ canRange' /\ record' = << >> /\ good' \subseteq good
        /\ phase = "group" /\ UNCHANGED status
    BY <1>3 DEF FallBack, MustFallBack, GroupEnded, Truncated, DeleteRecord, Fault, Faithful,
                OrderlyFiles, OrderlyDisk
  <2> QED BY <1>0, <2>1 DEF Measured, InRun
<1>4. CASE Settle
  <2>1. /\ UNCHANGED << good, size, status >> /\ phase' \in {"finished", "idle"}
        /\ record' \in {record, << >>}
        /\ phase \in {"completing", "pausing", "failing"}
        /\ phase' = "finished" <=> phase = "completing"
    BY <1>4 DEF Settle, DeleteRecord, step
  <2>2. status' = "COMPLETED" => phase' \in {"completing", "finished"}
    BY <1>0, <2>1 DEF Measured
  <2> QED BY <1>0, <2>1, <2>2, MeasuredOutside
<1>5. CASE Kill \/ KillOpeningRecord
  <2>1. /\ UNCHANGED << good, size >> /\ phase' = "none" /\ status' = "WAITING"
        /\ record' \in {record, << >>}
    BY <1>5 DEF Kill, KillOpeningRecord, Lose, disk
  <2> QED BY <1>0, <2>1, MeasuredOutside
<1>6. CASE KillInFallBack
  BY <1>6 DEF KillInFallBack, Fault, Faithful, OrderlyFiles, OrderlyDisk
<1> QED BY <1>1, <1>2, <1>3, <1>4, <1>5, <1>6

-----------------------------------------------------------------------------
(* The beginning of a run.                                                 *)

LEMMA LaunchMeasured ==
    ASSUME Faithful, Measured, NEW subs \in Seq(SubworkerType), subs # << >>, Launch(subs),
           good' \subseteq 0 .. Length - 1,
           canRange' \/ record' # << >> => size' = Length,
           status' # "COMPLETED"
    PROVE  Measured'
<1> DEFINE tasks == [i \in DOMAIN subs |-> NewTask]
<1>1. phase' = "group" /\ subworkers' = subs /\ task' = tasks /\ aborting' = FALSE
  BY DEF Launch
<1>2. \A i \in DOMAIN tasks : tasks[i] = NewTask
  OBVIOUS
<1>3. DOMAIN tasks = DOMAIN subs
  OBVIOUS
<1> HIDE DEF tasks
<1>4. Lasts(tasks) /\ StreamDone(subs, tasks, size')
  BY <1>2, <1>3, NewTaskLast DEF Lasts, StreamDone
<1> QED BY <1>1, <1>4 DEF Measured, InRun

LEMMA StartMeasured ==
    ASSUME Faithful, Known,
           \/ RunFresh \/ RunRestored \/ RestoreSplit \/ RestoreDone \/ Relaunch
    PROVE  Measured'
<1>0. Measured /\ WellFormed
  BY DEF Known
<1>1. status # "COMPLETED"
  BY <1>0 DEF Measured, RunFresh, RunRestored, RestoreSplit, RestoreDone, Relaunch
<1>2. CASE RunFresh
  <2> DEFINE subs == BuildSubworkers(FileSize, canRange, wanted)
  <2>1. /\ record' = << >> /\ UNCHANGED << canRange, status >> /\ Launch(subs)
        /\ canRange \in BOOLEAN /\ wanted \in Nat \ {0}
    BY <1>0, <1>2 DEF RunFresh, DeleteRecord, Faithful, OrderlyFiles, OrderlyDisk, WellFormed, TypeOK
  <2>2. subs \in Seq(SubworkerType)
    BY <2>1, BuildSubworkersFresh DEF Fresh
  <2>3. subs # << >>
    <3>1. CASE ~ canRange
      BY <3>1 DEF BuildSubworkers
    <3>2. CASE canRange
      <4>1. MinOf(wanted, FileSize) \in 1 .. FileSize
        BY <2>1, LengthFacts DEF MinOf
      <4>2. subs = Chunks(FileSize, MinOf(wanted, FileSize))
        BY <3>2, LengthFacts DEF BuildSubworkers
      <4>3. Tiles(subs)
        BY <4>1, <4>2, ChunksTile, LengthFacts
      <4>4. 0 \in 0 .. FileSize - 1
        BY LengthFacts
      <4> HIDE DEF subs
      <4> QED BY <4>3, <4>4 DEF Tiles
    <3> QED BY <3>1, <3>2
  <2> HIDE DEF subs
  <2>4. good' \subseteq 0 .. Length - 1 /\ size' = Length
    <3>1. good' \subseteq 0 .. FileSize - 1 /\ size' = FileSize
      BY <1>2, LengthFacts DEF RunFresh, Preallocate, Fault, Faithful
    <3> QED BY <3>1, LengthFacts
  <2> QED BY <1>0, <1>1, <2>1, <2>2, <2>3, <2>4, LaunchMeasured
<1>3. CASE RunRestored
  <2>1. /\ UNCHANGED << good, size, record, canRange, status >>
        /\ phase' = "restoring" /\ subworkers' = record /\ record # << >>
    BY <1>3 DEF RunRestored, disk
  <2> QED BY <1>0, <1>1, <2>1 DEF Measured, InRun
<1>4. CASE RestoreSplit
  <2>1. /\ UNCHANGED << good, size, record, canRange, status, phase >> /\ phase = "restoring"
        /\ subworkers' = SplitSlowest(subworkers, 2)
        /\ subworkers # << >>
    BY <1>0, <1>4 DEF RestoreSplit, disk, step, Measured, InRun
  <2>2. Grows(subworkers, SplitSlowest(subworkers, 2))
    BY <1>0, SplitSlowestGrows DEF WellFormed, TypeOK
  <2>3. subworkers' # << >>
    BY <1>0, <2>1, <2>2, GrowsNonEmpty DEF WellFormed, TypeOK
  <2> QED BY <1>0, <1>1, <2>1, <2>3 DEF Measured, InRun
<1>5. CASE RestoreDone \/ Relaunch
  <2>1. /\ UNCHANGED << good, size, record, canRange, status >> /\ Launch(subworkers)
        /\ phase \in {"restoring", "falling_back"}
        /\ phase = "falling_back" => ~ canRange
        /\ good \subseteq 0 .. Length - 1 /\ (record # << >> => size = Length)
        /\ subworkers \in Seq(SubworkerType)
    BY <1>0, <1>5 DEF RestoreDone, Relaunch, disk, step, Measured, WellFormed, TypeOK
  <2>2. subworkers # << >>
    <3>1. CASE phase = "restoring"
      BY <1>0, <3>1 DEF Measured, InRun
    <3>2. CASE phase = "falling_back"
      <4>1. SingleStream(subworkers)
        BY <2>1, <3>2 DEF Known, Claimed, ClaimsOnDisk
      <4> QED BY <2>1, <4>1 DEF SingleStream
    <3> QED BY <2>1, <3>1, <3>2
  <2>3. canRange' => size' = Length
    BY <1>0, <2>1 DEF Measured, InRun
  <2> QED BY <1>0, <1>1, <2>1, <2>2, <2>3, LaunchMeasured
<1> QED BY <1>2, <1>3, <1>4, <1>5

-----------------------------------------------------------------------------
LEMMA MeasuredInit == Init => Measured
  BY DEF Init, Measured, InRun

LEMMA MeasuredNext ==
    ASSUME Faithful, Known, [FilesNext]_vars
    PROVE  Measured'
<1>0. Measured
  BY DEF Known
<1>1. CASE UNCHANGED vars
  BY <1>0, <1>1 DEF vars, disk, step, group, Measured, Lasts, StreamDone
<1>2. CASE \/ \E n \in Counts, r \in Ranged : Create(n, r)
           \/ \E n \in Counts : SetOptions(n)
  <2>1. /\ UNCHANGED << good, size, record >> /\ phase' = "idle"
        /\ status' = "RUNNING" \/ (UNCHANGED status /\ phase = "idle")
    BY <1>2 DEF Create, SetOptions, disk
  <2>2. status' # "COMPLETED"
    BY <1>0, <2>1 DEF Measured
  <2> QED BY <1>0, <2>1, <2>2, MeasuredOutside
<1>3. CASE \E i \in DOMAIN task : SubworkerStep(i)
  BY <1>3, SubworkerStepMeasured DEF Known
<1>4. CASE RunFresh \/ RunRestored \/ RestoreSplit \/ RestoreDone \/ Relaunch
  BY <1>4, StartMeasured
<1>5. CASE Supervise
  BY <1>5, SuperviseMeasured DEF Known
<1>6. CASE SuperviseFails \/ Abort \/ Cancel
  BY <1>6, GroupMeasured DEF Known
<1>7. CASE \/ GroupCompleted \/ GroupCancelled \/ GroupFailed \/ FallBack \/ Settle
           \/ Kill \/ KillOpeningRecord \/ KillInFallBack
  BY <1>7, EndMeasured
<1>8. CASE Finished
  BY <1>1, <1>8 DEF Finished
<1>9. CASE DeleteFiles \/ MoveFiles \/ RemoteChanges
  <2>1. DeleteFiles /\ record' = << >>
    BY <1>9 DEF DeleteFiles, MoveFiles, RemoteChanges, Fault, Faithful, OrderlyFiles
  <2>2. /\ phase = "idle" /\ UNCHANGED << phase, status >> /\ good' \in {good, {}}
    BY <2>1, FilesStep
  <2>3. status' # "COMPLETED"
    BY <1>0, <2>2 DEF Measured
  <2> QED BY <1>0, <2>1, <2>2, <2>3, MeasuredOutside
<1> QED BY <1>1, <1>2, <1>3, <1>4, <1>5, <1>6, <1>7, <1>8, <1>9 DEF FilesNext, Next

LEMMA KnownInit == Init => Known
  BY WellFormedInit, ClaimsInit, TiledInit, MeasuredInit
     DEF Known, Claimed, ClaimsOnDisk, Attended, Init

LEMMA KnownNext ==
    ASSUME Faithful, Known, [FilesNext]_vars
    PROVE  Known'
  BY WellFormedFilesNext, FilesClaimsNext, TiledNext, AttendedNext, MeasuredNext
     DEF Known, Faithful

(* A download that reports COMPLETED has written every byte of the file,   *)
(* and the file has no other (HttpStep.run, _engine.py:534): whatever was  *)
(* split, paused, killed, restored, or started again as a single stream.   *)
THEOREM CompletedIsWhole ==
    ASSUME Faithful
    PROVE  FilesSpec => []CompletedFileCorrect
<1>1. Known /\ [FilesNext]_vars => Known'
  BY KnownNext
<1>2. Known => CompletedFileCorrect
  BY DEF Known, Measured, CompletedFileCorrect
<1> QED BY KnownInit, <1>1, <1>2, PTL DEF FilesSpec

-----------------------------------------------------------------------------
(***************************************************************************)
(* The same where the length of the file is not known.  There is one       *)
(* subworker, which asks for the rest of the file from where it is, with   *)
(* ranges or without: it is done when it has counted the last byte, and    *)
(* all it counted is on the disk (Claimed).                                *)
(***************************************************************************)

(* Nothing is preallocated, so a longer file that was there before keeps   *)
(* its tail; a shorter one does not matter.                                *)
FaithfulUnsized ==
    /\ OrderlyFiles
    /\ FileSize = UNKNOWN
    /\ "premature" \notin Env
    /\ \A n \in OldSizes : n <= Length

OneStream(subs) ==
    /\ Len(subs) = 1
    /\ subs[1].start = 0
    /\ subs[1].end \in {UNKNOWN, NOT_SUPPORTED}

(* A task asks for all that is left, and is done when it has it.           *)
EndsWhole(subs, tasks) ==
    \A i \in DOMAIN tasks :
        /\ tasks[i].mode # "range"
        /\ tasks[i].pc = "done" => subs[i].receivedBytes = Length

(* How long the file is, and how far the stream is.                        *)
Streamed ==
    /\ good \subseteq 0 .. size - 1
    /\ size <= Length
    /\ record # << >> => OneStream(record)
    /\ phase \in InRun \cup {"falling_back"} => OneStream(subworkers)
    /\ phase = "group" =>
          /\ aborting => errors # {} \/ cancelled
          /\ Lasts(task)
          /\ EndsWhole(subworkers, task)
    /\ status = "COMPLETED" =>
          phase \in {"completing", "finished"} /\ good = 0 .. Length - 1 /\ size = Length

KnownUnsized == WellFormed /\ Claimed /\ Attended /\ Streamed

LEMMA UnsizedFacts ==
    ASSUME FaithfulUnsized
    PROVE  Length \in Nat /\ Length > 0 /\ FileSize = 0 /\ FileSize = UNKNOWN
  BY HttpStepAssumption DEF FaithfulUnsized, UNKNOWN

(* An open-ended range is never split.                                     *)
LEMMA NoReassign ==
    ASSUME FaithfulUnsized, NEW subs
    PROVE  Reassign(subs) = subs
  BY UnsizedFacts DEF Reassign, Reassigned

LEMMA OneStreamDomain ==
    ASSUME NEW subs \in Seq(SubworkerType), OneStream(subs)
    PROVE  /\ DOMAIN subs = {1} /\ subs[1] \in SubworkerType /\ subs # << >>
           /\ Position(subs[1]) = subs[1].receivedBytes
<1>1. DOMAIN subs = {1}
  BY DEF OneStream
<1>2. subs[1] \in SubworkerType
  BY <1>1
<1>3. subs # << >>
  BY DEF OneStream
<1>4. Position(subs[1]) = subs[1].receivedBytes
  BY <1>2 DEF OneStream, Position, SubworkerType
<1> QED BY <1>1, <1>2, <1>3, <1>4

LEMMA OneStreamReceives ==
    ASSUME NEW subs \in Seq(SubworkerType), OneStream(subs), NEW i \in DOMAIN subs, NEW r \in Nat
    PROVE  OneStream([subs EXCEPT ![i].receivedBytes = r])
<1> DEFINE sw == [subs[i] EXCEPT !.receivedBytes = r]
           new == [subs EXCEPT ![i] = sw]
<1>1. i = 1 /\ subs[1] \in SubworkerType
  BY OneStreamDomain
<1>2. sw \in SubworkerType /\ sw.start = subs[1].start /\ sw.end = subs[1].end
  BY <1>1 DEF SubworkerType
<1> HIDE DEF sw
<1>3. Len(new) = Len(subs) /\ new[1] = sw
  BY <1>1, <1>2
<1> HIDE DEF new
<1>4. OneStream(new)
  BY <1>2, <1>3 DEF OneStream
<1> QED BY <1>4 DEF new, sw

(* It counts no byte past the end of the file.                             *)
LEMMA OneStreamBounded ==
    ASSUME Length \in Nat, NEW subs \in Seq(SubworkerType), OneStream(subs),
           NEW bytes, OnDisk(subs, bytes), bytes \subseteq 0 .. Length - 1
    PROVE  /\ subs[1].receivedBytes <= Length
           /\ 0 .. subs[1].receivedBytes - 1 \subseteq bytes
<1> DEFINE r == subs[1].receivedBytes
<1>1. r \in Nat /\ 1 \in DOMAIN subs /\ Position(subs[1]) = r /\ subs[1].start = 0
  BY OneStreamDomain DEF SubworkerType, OneStream
<1>2. 0 .. r - 1 \subseteq bytes
  BY <1>1 DEF OnDisk, Received
<1> HIDE DEF r
<1>3. r > 0 => r - 1 \in 0 .. r - 1
  BY <1>1
<1>4. r <= Length
  BY <1>1, <1>2, <1>3
<1> QED BY <1>2, <1>4 DEF r

(* A file that is cut to at most its full length.                          *)
LEMMA CutBounded ==
    ASSUME Length \in Nat, NEW n \in Nat, n <= Length, good \subseteq 0 .. size - 1, Truncated(n)
    PROVE  good' \subseteq 0 .. size' - 1 /\ size' <= Length
  BY DEF Truncated

LEMMA LoopTopWhole ==
    ASSUME FaithfulUnsized, Streamed, WellFormed, phase = "group", NEW i \in DOMAIN task,
           NEW mode, mode # "range", LoopTop(i, mode)
    PROVE  /\ OneStream(subworkers') /\ EndsWhole(subworkers', task')
           /\ good' \subseteq 0 .. size' - 1 /\ size' <= Length
<1>1. /\ OneStream(subworkers) /\ EndsWhole(subworkers, task) /\ Paired(subworkers, task)
      /\ subworkers \in Seq(SubworkerType)
      /\ good \subseteq 0 .. size - 1 /\ size <= Length
  BY DEF Streamed, InRun, WellFormed, TypeOK
<1>2. /\ DOMAIN subworkers = {1} /\ DOMAIN task = {1} /\ i = 1 /\ subworkers[1] \in SubworkerType
  BY <1>1, OneStreamDomain DEF Paired
<1> DEFINE t == Requesting(mode, subworkers[i])
<1>3. t.pc = "request" /\ t.mode = mode
  BY DEF Requesting
<1>4. task' = [task EXCEPT ![i] = t]
  BY DEF LoopTop
<1> HIDE DEF t
<1>5. \/ UNCHANGED << good, size, subworkers >>
      \/ Truncated(0) /\ subworkers' = [subworkers EXCEPT ![i].receivedBytes = 0]
  BY DEF LoopTop
<1>6. EndsWhole(subworkers', task')
  BY <1>2, <1>3, <1>4 DEF EndsWhole
<1>7. OneStream(subworkers')
  <2>1. CASE UNCHANGED subworkers
    BY <1>1, <2>1
  <2>2. CASE subworkers' = [subworkers EXCEPT ![i].receivedBytes = 0]
    BY <1>1, <1>2, <2>2, OneStreamReceives
  <2> QED BY <1>5, <2>1, <2>2
<1>8. good' \subseteq 0 .. size' - 1 /\ size' <= Length
  BY <1>1, <1>5, CutBounded, UnsizedFacts
<1> QED BY <1>6, <1>7, <1>8

(* What a step of the one subworker keeps.                                 *)
LEMMA StepWhole ==
    ASSUME FaithfulUnsized, Streamed, WellFormed, Claimed, NEW i \in DOMAIN task, SubworkerStep(i)
    PROVE  /\ OneStream(subworkers') /\ EndsWhole(subworkers', task')
           /\ good' \subseteq 0 .. size' - 1 /\ size' <= Length
<1> USE DEF At
<1>0. phase = "group"
  BY DEF SubworkerStep, Start, Retry, ReplyOk, ReplyUnsatisfiable, ReplyPermanent,
         ReplyFull, TransientError, Chunk, WriteFatal, Resume, StreamEnd, Raise
<1>1. /\ OneStream(subworkers) /\ EndsWhole(subworkers, task) /\ Paired(subworkers, task)
      /\ subworkers \in Seq(SubworkerType) /\ OnDisk(subworkers, good) /\ Lasts(task)
      /\ good \subseteq 0 .. size - 1 /\ size <= Length /\ size \in Nat
      /\ Length \in Nat
  BY <1>0, UnsizedFacts DEF Streamed, InRun, WellFormed, TypeOK, Claimed, ClaimsOnDisk
<1>2. /\ DOMAIN subworkers = {1} /\ DOMAIN task = {1} /\ i = 1
      /\ subworkers[1] \in SubworkerType /\ task[1] \in TaskType
      /\ Position(subworkers[1]) = subworkers[1].receivedBytes
      /\ task[1].mode # "range"
  <2>1. DOMAIN subworkers = {1} /\ subworkers[1] \in SubworkerType
        /\ Position(subworkers[1]) = subworkers[1].receivedBytes
    BY <1>1, OneStreamDomain
  <2> QED BY <1>1, <2>1 DEF Paired, EndsWhole
<1>3. ASSUME NEW pc, pc = "done" => subworkers[1].receivedBytes = Length, Goto(i, pc),
             UNCHANGED subworkers
      PROVE  OneStream(subworkers') /\ EndsWhole(subworkers', task')
  <2> DEFINE t == [task[1] EXCEPT !.pc = pc]
  <2>1. t.pc = pc /\ t.mode = task[1].mode
    BY <1>2 DEF TaskType
  <2>2. task' = [task EXCEPT ![1] = t]
    BY <1>2, <1>3 DEF Goto
  <2> HIDE DEF t
  <2> QED BY <1>1, <1>2, <1>3, <2>1, <2>2 DEF EndsWhole
<1>4. CASE Start(i)
  <2>1. ModeOf(subworkers[i]) # "range"
    BY <1>1, <1>2 DEF OneStream, ModeOf
  <2> QED BY <1>0, <1>4, <2>1, LoopTopWhole DEF Start
<1>5. CASE Retry(i)
  BY <1>0, <1>2, <1>5, LoopTopWhole DEF Retry
<1>6. CASE \/ ReplyOk(i) \/ ReplyUnsatisfiable(i) \/ ReplyPermanent(i) \/ ReplyFull(i)
           \/ TransientError(i) \/ WriteFatal(i) \/ Resume(i)
  <2>1. UNCHANGED << good, size, subworkers >> /\ \E pc : pc # "done" /\ Goto(i, pc)
    BY <1>2, <1>6 DEF ReplyOk, ReplyUnsatisfiable, ReplyPermanent, ReplyFull, TransientError,
                      WriteFatal, Raise, Resume
  <2> QED BY <1>1, <1>3, <2>1
<1>7. ASSUME NEW n \in ChunkSizes, Chunk(i, n)
      PROVE  /\ OneStream(subworkers') /\ EndsWhole(subworkers', task')
             /\ good' \subseteq 0 .. size' - 1 /\ size' <= Length
  <2> DEFINE k == Accepted(i, n)
             offset == Position(subworkers[i])
  <2>1. Written(offset, k) /\ subworkers' = [subworkers EXCEPT ![i].receivedBytes = @ + k]
        /\ Goto(i, "limit")
    BY <1>7 DEF Chunk, Fault, FaithfulUnsized, OrderlyFiles, OrderlyDisk
  <2>2. offset \in Nat /\ k \in Int /\ n \in Nat
    BY <1>0, <1>2, <1>7, AcceptedBounds, HttpStepAssumption DEF Chunk, SubworkerType, Position
  <2>3. k <= task[1].last - offset + 1 /\ task[1].last \in Nat /\ task[1].last < Length
    BY <1>1, <1>2, <2>2 DEF Accepted, MinOf, TaskType, Lasts
  <2> DEFINE r == subworkers[1].receivedBytes + k
             t == [task[1] EXCEPT !.pc = "limit"]
  <2>4. r \in Nat
    BY <1>0, <1>2, <1>7, AcceptedBounds DEF Chunk
  <2>11. subworkers' = [subworkers EXCEPT ![i].receivedBytes = r]
    BY <1>2, <2>1
  <2>5. t.pc = "limit" /\ t.mode = task[1].mode /\ task' = [task EXCEPT ![1] = t]
    BY <1>2, <2>1 DEF TaskType, Goto
  <2> HIDE DEF k, offset, r, t
  <2>6. OneStream(subworkers')
    BY <1>1, <1>2, <2>4, <2>11, OneStreamReceives
  <2>7. EndsWhole(subworkers', task')
    BY <1>2, <2>5 DEF EndsWhole
  <2>8. offset + k <= Length
    BY <1>1, <2>2, <2>3
  <2>9. size' \in Int /\ size <= size' /\ offset + k <= size' /\ size' <= Length
    BY <1>1, <2>1, <2>2, <2>8 DEF Written, MaxOf
  <2>10. good' \subseteq 0 .. size' - 1
    BY <1>1, <2>1, <2>2, <2>9 DEF Written
  <2> QED BY <2>6, <2>7, <2>9, <2>10
<1>8. CASE StreamEnd(i)
  <2>1. /\ Goto(i, "done") /\ UNCHANGED subworkers
        /\ UNCHANGED << good, size >>
           \/ (task[1].mode = "single" /\ Truncated(subworkers[1].receivedBytes))
        /\ task[1].mode \in {"unknown", "single"}
    BY <1>2, <1>8 DEF StreamEnd
  <2>2. subworkers[1].receivedBytes > task[1].last /\ task[1].last = Length - 1
    BY <1>1, <1>2, <1>8, <2>1 DEF StreamEnd, Fault, FaithfulUnsized, Lasts
  <2>3. subworkers[1].receivedBytes \in Nat /\ subworkers[1].receivedBytes <= Length
    <3>1. good \subseteq 0 .. Length - 1
      BY <1>1
    <3> QED BY <1>1, <1>2, <3>1, OneStreamBounded DEF SubworkerType
  <2>4. subworkers[1].receivedBytes = Length
    BY <1>1, <2>2, <2>3
  <2>5. good' \subseteq 0 .. size' - 1 /\ size' <= Length
    BY <1>1, <2>1, <2>3, CutBounded
  <2> QED BY <1>3, <2>1, <2>4, <2>5
<1> QED BY <1>4, <1>5, <1>6, <1>7, <1>8 DEF SubworkerStep

LEMMA SubworkerStepStreamed ==
    ASSUME FaithfulUnsized, KnownUnsized, NEW i \in DOMAIN task, SubworkerStep(i)
    PROVE  Streamed'
<1>1. phase = "group" /\ Steady /\ errors \subseteq errors'
  BY DEF SubworkerStep, Start, Retry, ReplyOk, ReplyUnsatisfiable, ReplyPermanent,
         ReplyFull, TransientError, Chunk, WriteFatal, Resume, StreamEnd, Raise, At
<1>2. /\ UNCHANGED << record, status, phase, aborting, cancelled >>
      /\ Lasts(task) /\ status # "COMPLETED" /\ (record # << >> => OneStream(record))
      /\ aborting => errors # {} \/ cancelled
  BY <1>1 DEF Steady, step, KnownUnsized, Streamed
<1>3. Lasts(task')
  BY <1>2, StepLasts DEF KnownUnsized
<1>4. /\ OneStream(subworkers') /\ EndsWhole(subworkers', task')
      /\ good' \subseteq 0 .. size' - 1 /\ size' <= Length
  BY StepWhole DEF KnownUnsized
<1> QED BY <1>1, <1>2, <1>3, <1>4 DEF Streamed

(* The supervisor splits nothing, and a group that ends early ends no task *)
(* as done.                                                                *)
LEMMA GroupStreamed ==
    ASSUME FaithfulUnsized, KnownUnsized, Supervise \/ SuperviseFails \/ Abort \/ Cancel
    PROVE  Streamed'
<1>1. /\ phase = "group" /\ UNCHANGED << good, size, canRange, status, phase, errors >>
      /\ Paired(subworkers, task) /\ OneStream(subworkers)
      /\ Lasts(task) /\ EndsWhole(subworkers, task)
      /\ aborting' => errors' # {} \/ cancelled'
      /\ record' \in {record, << >>, subworkers}
      /\ status # "COMPLETED"
  BY DEF Supervise, SuperviseFails, Abort, Cancel, KnownUnsized, Streamed, InRun, WellFormed,
         disk, step, group
<1>2. UNCHANGED subworkers
  BY NoReassign DEF Supervise, SuperviseFails, Abort, Cancel
<1>3. /\ DOMAIN task' = DOMAIN task
      /\ \A j \in DOMAIN task : /\ task'[j].last = task[j].last
                                /\ task'[j].mode = task[j].mode
                                /\ task'[j].pc \in {task[j].pc, "cancelled"}
  <2>1. \A j \in DOMAIN task : task[j] \in TaskType
    BY <1>1 DEF Paired
  <2>2. CASE UNCHANGED task
    BY <2>2
  <2>3. CASE CancelLive
    BY <2>1, <2>3 DEF CancelLive, TaskType
  <2>4. CASE \E t : task' = Extended(task, subworkers', t)
    BY <1>1, <1>2, <2>4 DEF Extended, Paired
  <2> QED BY <2>2, <2>3, <2>4 DEF Supervise, SuperviseFails, Abort, Cancel
<1>4. Lasts(task') /\ EndsWhole(subworkers', task')
  BY <1>1, <1>2, <1>3 DEF Lasts, EndsWhole
<1>5. /\ good \subseteq 0 .. size - 1 /\ size <= Length
      /\ record # << >> => OneStream(record)
  BY DEF KnownUnsized, Streamed
<1> QED BY <1>1, <1>2, <1>4, <1>5 DEF Streamed

(* The group has ended, and nothing was wrong: the stream is done.         *)
LEMMA CompletedStreamed ==
    ASSUME FaithfulUnsized, KnownUnsized, GroupCompleted
    PROVE  good = 0 .. Length - 1 /\ size = Length
<1>1. /\ phase = "group" /\ errors = {} /\ ~ cancelled
      /\ \A i \in DOMAIN task : task[i].pc \notin Live
  BY DEF GroupCompleted, GroupEnded
<1>2. /\ ~ aborting /\ Paired(subworkers, task) /\ Excused(task, errors, aborting)
      /\ OnDisk(subworkers, good) /\ subworkers \in Seq(SubworkerType)
      /\ OneStream(subworkers) /\ EndsWhole(subworkers, task)
      /\ good \subseteq 0 .. size - 1 /\ size <= Length /\ size \in Nat
      /\ Length \in Nat /\ Length > 0
  BY <1>1, UnsizedFacts
     DEF KnownUnsized, Streamed, InRun, WellFormed, TypeOK, Attended, Claimed, ClaimsOnDisk
<1>3. 1 \in DOMAIN task /\ task[1] \in TaskType
  BY <1>2, OneStreamDomain DEF Paired
<1>4. task[1].pc = "done"
  BY <1>1, <1>2, <1>3 DEF Excused, TaskType, Pcs, Live
<1>5. subworkers[1].receivedBytes = Length
  BY <1>2, <1>3, <1>4 DEF EndsWhole
<1>6. good \subseteq 0 .. Length - 1
  BY <1>2
<1>7. 0 .. Length - 1 \subseteq good
  BY <1>2, <1>5, <1>6, OneStreamBounded
<1>8. Length - 1 \in good
  BY <1>2, <1>7
<1>9. size = Length
  BY <1>2, <1>8
<1> QED BY <1>6, <1>7, <1>9

(* Where nothing runs, little is to be known.                              *)
LEMMA StreamedOutside ==
    ASSUME Streamed,
           \/ UNCHANGED << good, size >>
           \/ good' \subseteq 0 .. size' - 1 /\ size' <= Length,
           record' \in {record, << >>},
           phase' \notin InRun \cup {"falling_back"},
           status' # "COMPLETED" \/ UNCHANGED << good, size, status >>,
           status' = "COMPLETED" => phase' \in {"completing", "finished"}
    PROVE  Streamed'
  BY DEF Streamed, InRun

LEMMA EndStreamed ==
    ASSUME FaithfulUnsized, KnownUnsized,
           \/ GroupCompleted \/ GroupCancelled \/ GroupFailed \/ FallBack \/ Settle
           \/ Kill \/ KillOpeningRecord \/ KillInFallBack
    PROVE  Streamed'
<1>0. Streamed
  BY DEF KnownUnsized
<1>1. CASE GroupCompleted
  <2>1. good = 0 .. Length - 1 /\ size = Length
    BY <1>1, CompletedStreamed
  <2>2. phase' = "completing" /\ UNCHANGED << good, size, record >>
    BY <1>1 DEF GroupCompleted, disk
  <2> QED BY <1>0, <2>1, <2>2 DEF Streamed, InRun
<1>2. CASE GroupCancelled \/ GroupFailed
  <2>1. /\ UNCHANGED << good, size, record >> /\ phase' \in {"pausing", "failing"}
        /\ phase = "group" /\ status' \in {status, "PAUSED"}
    BY <1>2 DEF GroupCancelled, GroupFailed, GroupEnded, disk, step
  <2>2. status' # "COMPLETED"
    BY <1>0, <2>1 DEF Streamed
  <2> QED BY <1>0, <2>1, <2>2, StreamedOutside DEF InRun
<1>3. CASE FallBack
  <2>1. /\ phase = "group" /\ UNCHANGED status
        /\ subworkers' = << Subworker(0, NOT_SUPPORTED) >>
        /\ \/ phase' = "falling_back" /\ record' = << >> /\ Truncated(0)
           \/ phase' = "failing" /\ UNCHANGED << good, size, record >>
    BY <1>3 DEF FallBack, MustFallBack, GroupEnded, DeleteRecord, FaithfulUnsized, OrderlyFiles,
                OrderlyDisk, BuildSubworkers, disk
  <2>2. OneStream(subworkers') /\ status # "COMPLETED"
    BY <1>0, <2>1 DEF OneStream, Subworker, Streamed
  <2>3. CASE phase' = "falling_back"
    <3>1. good' \subseteq 0 .. size' - 1 /\ size' <= Length
      BY <1>0, <2>1, <2>3, CutBounded, UnsizedFacts DEF Streamed
    <3> QED BY <2>1, <2>2, <2>3, <3>1 DEF Streamed, InRun
  <2>4. CASE phase' = "failing"
    BY <1>0, <2>1, <2>2, <2>4, StreamedOutside DEF InRun
  <2> QED BY <2>1, <2>3, <2>4
<1>4. CASE Settle
  <2>1. /\ UNCHANGED << good, size, status >> /\ phase' \in {"finished", "idle"}
        /\ record' \in {record, << >>}
        /\ phase \in {"completing", "pausing", "failing"}
        /\ phase' = "finished" <=> phase = "completing"
    BY <1>4 DEF Settle, DeleteRecord, step
  <2>2. status' = "COMPLETED" => phase' \in {"completing", "finished"}
    BY <1>0, <2>1 DEF Streamed
  <2> QED BY <1>0, <2>1, <2>2, StreamedOutside DEF InRun
<1>5. CASE Kill \/ KillOpeningRecord
  <2>1. /\ UNCHANGED << good, size >> /\ phase' = "none" /\ status' = "WAITING"
        /\ record' \in {record, << >>}
    BY <1>5 DEF Kill, KillOpeningRecord, Lose, disk
  <2> QED BY <1>0, <2>1, StreamedOutside DEF InRun
<1>6. CASE KillInFallBack
  BY <1>6 DEF KillInFallBack, Fault, FaithfulUnsized, OrderlyFiles, OrderlyDisk
<1> QED BY <1>1, <1>2, <1>3, <1>4, <1>5, <1>6

LEMMA LaunchStreamed ==
    ASSUME FaithfulUnsized, NEW subs \in Seq(SubworkerType), OneStream(subs), Launch(subs),
           good' \subseteq 0 .. size' - 1, size' <= Length, status' # "COMPLETED",
           record' # << >> => OneStream(record')
    PROVE  Streamed'
<1> DEFINE tasks == [i \in DOMAIN subs |-> NewTask]
<1>1. phase' = "group" /\ subworkers' = subs /\ task' = tasks /\ aborting' = FALSE
  BY DEF Launch
<1>2. \A i \in DOMAIN tasks : tasks[i] = NewTask
  OBVIOUS
<1> HIDE DEF tasks
<1>3. Lasts(tasks) /\ EndsWhole(subs, tasks)
  BY <1>2, NewTaskLast DEF Lasts, EndsWhole
<1> QED BY <1>1, <1>3 DEF Streamed, InRun

LEMMA StartStreamed ==
    ASSUME FaithfulUnsized, KnownUnsized,
           \/ RunFresh \/ RunRestored \/ RestoreSplit \/ RestoreDone \/ Relaunch
    PROVE  Streamed'
<1>0. Streamed /\ WellFormed
  BY DEF KnownUnsized
<1>1. status # "COMPLETED"
  BY <1>0 DEF Streamed, RunFresh, RunRestored, RestoreSplit, RestoreDone, Relaunch
<1>2. CASE RunFresh
  <2> DEFINE subs == BuildSubworkers(FileSize, canRange, wanted)
  <2>1. /\ record' = << >> /\ UNCHANGED status /\ Launch(subs)
        /\ canRange \in BOOLEAN /\ wanted \in Nat \ {0}
    BY <1>0, <1>2
       DEF RunFresh, DeleteRecord, FaithfulUnsized, OrderlyFiles, OrderlyDisk, WellFormed, TypeOK
  <2>2. subs \in Seq(SubworkerType)
    BY <2>1, BuildSubworkersFresh DEF Fresh
  <2>3. OneStream(subs)
    BY <2>1, UnsizedFacts DEF BuildSubworkers, OneStream, Subworker
  <2> HIDE DEF subs
  <2>4. good' \subseteq 0 .. size' - 1 /\ size' <= Length
    <3>1. (good' = good /\ size' = size) \/ (good' = {} /\ size' = 0)
      BY <1>2, UnsizedFacts DEF RunFresh, Preallocate
    <3>2. good \subseteq 0 .. size - 1 /\ size <= Length /\ 0 <= Length
      BY <1>0, UnsizedFacts DEF Streamed
    <3>3. CASE good' = good /\ size' = size
      BY <3>2, <3>3
    <3>4. CASE good' = {} /\ size' = 0
      BY <3>2, <3>4
    <3> QED BY <3>1, <3>3, <3>4
  <2> QED BY <1>1, <2>1, <2>2, <2>3, <2>4, LaunchStreamed
<1>3. CASE RunRestored
  <2>1. /\ UNCHANGED << good, size, record, status >>
        /\ phase' = "restoring" /\ subworkers' = record /\ record # << >>
    BY <1>3 DEF RunRestored, disk
  <2> QED BY <1>0, <1>1, <2>1 DEF Streamed, InRun
<1>4. CASE RestoreSplit
  BY <1>4, UnsizedFacts DEF RestoreSplit, TooFew
<1>5. CASE RestoreDone \/ Relaunch
  <2>1. /\ UNCHANGED << good, size, record, status >> /\ Launch(subworkers)
        /\ phase \in {"restoring", "falling_back"}
    BY <1>5 DEF RestoreDone, Relaunch, disk, step
  <2>2. /\ OneStream(subworkers) /\ good \subseteq 0 .. size - 1 /\ size <= Length
        /\ (record # << >> => OneStream(record)) /\ subworkers \in Seq(SubworkerType)
    BY <1>0, <2>1 DEF Streamed, InRun, WellFormed, TypeOK
  <2> QED BY <1>1, <2>1, <2>2, LaunchStreamed
<1> QED BY <1>2, <1>3, <1>4, <1>5

LEMMA StreamedNext ==
    ASSUME FaithfulUnsized, KnownUnsized, [FilesNext]_vars
    PROVE  Streamed'
<1>0. Streamed
  BY DEF KnownUnsized
<1>1. CASE UNCHANGED vars
  BY <1>0, <1>1 DEF vars, disk, step, group, Streamed, Lasts, EndsWhole
<1>2. CASE \/ \E n \in Counts, r \in Ranged : Create(n, r)
           \/ \E n \in Counts : SetOptions(n)
  <2>1. /\ UNCHANGED << good, size, record >> /\ phase' = "idle"
        /\ status' = "RUNNING" \/ (UNCHANGED status /\ phase = "idle")
    BY <1>2 DEF Create, SetOptions, disk
  <2>2. status' # "COMPLETED"
    BY <1>0, <2>1 DEF Streamed
  <2> QED BY <1>0, <2>1, <2>2, StreamedOutside DEF InRun
<1>3. CASE \E i \in DOMAIN task : SubworkerStep(i)
  BY <1>3, SubworkerStepStreamed
<1>4. CASE RunFresh \/ RunRestored \/ RestoreSplit \/ RestoreDone \/ Relaunch
  BY <1>4, StartStreamed
<1>5. CASE Supervise \/ SuperviseFails \/ Abort \/ Cancel
  BY <1>5, GroupStreamed
<1>6. CASE \/ GroupCompleted \/ GroupCancelled \/ GroupFailed \/ FallBack \/ Settle
           \/ Kill \/ KillOpeningRecord \/ KillInFallBack
  BY <1>6, EndStreamed
<1>7. CASE Finished
  BY <1>1, <1>7 DEF Finished
<1>8. CASE DeleteFiles \/ MoveFiles \/ RemoteChanges
  <2>1. DeleteFiles /\ record' = << >>
    BY <1>8 DEF DeleteFiles, MoveFiles, RemoteChanges, Fault, FaithfulUnsized, OrderlyFiles
  <2>2. /\ phase = "idle" /\ UNCHANGED << phase, status >>
        /\ UNCHANGED << good, size >> \/ (good' = {} /\ size' = 0)
    BY <2>1, FilesStep DEF DeleteFiles, Gone
  <2>3. status' # "COMPLETED"
    BY <1>0, <2>2 DEF Streamed
  <2>4. UNCHANGED << good, size >> \/ (good' \subseteq 0 .. size' - 1 /\ size' <= Length)
    BY <2>2, UnsizedFacts
  <2> QED BY <1>0, <2>1, <2>2, <2>3, <2>4, StreamedOutside DEF InRun
<1> QED BY <1>1, <1>2, <1>3, <1>4, <1>5, <1>6, <1>7, <1>8 DEF FilesNext, Next

LEMMA KnownUnsizedInit ==
    ASSUME FaithfulUnsized
    PROVE  Init => KnownUnsized
<1>1. Init => Streamed
  BY UnsizedFacts, HttpStepAssumption DEF Init, Streamed, InRun, FaithfulUnsized
<1> QED BY <1>1, WellFormedInit, ClaimsInit DEF KnownUnsized, Claimed, ClaimsOnDisk, Attended, Init

LEMMA KnownUnsizedNext ==
    ASSUME FaithfulUnsized, KnownUnsized, [FilesNext]_vars
    PROVE  KnownUnsized'
  BY WellFormedFilesNext, FilesClaimsNext, AttendedNext, StreamedNext
     DEF KnownUnsized, FaithfulUnsized

(* A download of a file whose length nobody told it (the server sent no    *)
(* Content-Length), and that reports COMPLETED, has the whole file: also   *)
(* if it was paused or killed and went on from an open-ended record, or    *)
(* was started again as a single stream (_runSubworkerWith,                *)
(* _engine.py:320).                                                        *)
THEOREM UnsizedIsWhole ==
    ASSUME FaithfulUnsized
    PROVE  FilesSpec => []CompletedFileCorrect
<1>1. KnownUnsized /\ [FilesNext]_vars => KnownUnsized'
  BY KnownUnsizedNext
<1>2. KnownUnsized => CompletedFileCorrect
  BY DEF KnownUnsized, Streamed, CompletedFileCorrect
<1> QED BY KnownUnsizedInit, <1>1, <1>2, PTL DEF FilesSpec
=============================================================================
