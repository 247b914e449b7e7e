---------------------------- MODULE HttpStepProofs ----------------------------
(***************************************************************************)
(* What TLAPS proves about HttpStep, for every file, every number of       *)
(* subworkers and every interleaving.                                      *)
(***************************************************************************)
EXTENDS HttpStep, TLAPS

-----------------------------------------------------------------------------
(* Lists of subworkers.                                                    *)

(* `new` comes from `old` by splits: nobody's start or received bytes      *)
(* change, and the newcomers have received nothing yet.                    *)
Grows(old, new) ==
    /\ new \in Seq(SubworkerType)
    /\ Sound(new)
    /\ Len(old) <= Len(new)
    /\ \A j \in 1 .. Len(old) :
          /\ new[j].start = old[j].start
          /\ new[j].receivedBytes = old[j].receivedBytes
          /\ new[j].end = NOT_SUPPORTED <=> old[j].end = NOT_SUPPORTED
    /\ \A j \in Len(old) + 1 .. Len(new) :
          /\ new[j].receivedBytes = 0
          /\ new[j].end # NOT_SUPPORTED

LEMMA GrowsRefl ==
    ASSUME NEW s \in Seq(SubworkerType), Sound(s)
    PROVE  Grows(s, s)
  BY DEF Grows

LEMMA GrowsTrans ==
    ASSUME NEW a \in Seq(SubworkerType), NEW b, NEW c, Grows(a, b), Grows(b, c)
    PROVE  Grows(a, c)
<1>1. /\ b \in Seq(SubworkerType) /\ c \in Seq(SubworkerType)
      /\ Len(a) \in Nat /\ Len(b) \in Nat /\ Len(c) \in Nat
  BY DEF Grows
<1>2. Len(a) <= Len(c)
  BY <1>1 DEF Grows
<1>3. ASSUME NEW j \in 1 .. Len(a)
      PROVE  /\ c[j].start = a[j].start
             /\ c[j].receivedBytes = a[j].receivedBytes
             /\ c[j].end = NOT_SUPPORTED <=> a[j].end = NOT_SUPPORTED
  <2>1. j \in 1 .. Len(b)
    BY <1>1 DEF Grows
  <2> QED BY <2>1, <1>1 DEF Grows
<1>4. ASSUME NEW j \in Len(a) + 1 .. Len(c)
      PROVE  c[j].receivedBytes = 0 /\ c[j].end # NOT_SUPPORTED
  <2>1. CASE j \in 1 .. Len(b)
    <3>1. j \in Len(a) + 1 .. Len(b)
      BY <2>1, <1>1
    <3> QED BY <3>1, <2>1, <1>1 DEF Grows
  <2>2. CASE j \notin 1 .. Len(b)
    <3>1. j \in Len(b) + 1 .. Len(c)
      BY <2>2, <1>1
    <3> QED BY <3>1 DEF Grows
  <2> QED BY <2>1, <2>2
<1> QED BY <1>1, <1>2, <1>3, <1>4 DEF Grows

(* The two halves of a split are not empty and leave no byte between them. *)
LEMMA SplitPoint ==
    ASSUME NEW sw \in SubworkerType, Remaining(sw) >= 2,
           NEW newEnd,
           newEnd = Position(sw) + Remaining(sw) \div 2 + (Remaining(sw) % 2) - 1
    PROVE  /\ newEnd \in Nat
           /\ Position(sw) <= newEnd
           /\ newEnd < sw.end
           /\ sw.end \in Nat
  BY DEF SubworkerType, Remaining, Position, NOT_SUPPORTED

LEMMA SplitAtGrows ==
    ASSUME NEW subs \in Seq(SubworkerType), Sound(subs),
           NEW i \in DOMAIN subs, Remaining(subs[i]) >= 2
    PROVE  Grows(subs, SplitAt(subs, i))
<1> DEFINE newEnd == Position(subs[i]) + Remaining(subs[i]) \div 2
                        + (Remaining(subs[i]) % 2) - 1
           kept   == [subs EXCEPT ![i].end = newEnd]
           newSw  == Subworker(newEnd + 1, subs[i].end)
<1>1. subs[i] \in SubworkerType
  OBVIOUS
<1>2. /\ newEnd \in Nat
      /\ Position(subs[i]) <= newEnd
      /\ newEnd < subs[i].end
      /\ subs[i].end \in Nat
  BY <1>1, SplitPoint
<1>3. SplitAt(subs, i) = Append(kept, newSw)
  BY DEF SplitAt
<1> HIDE DEF newEnd
<1>4. newSw \in SubworkerType /\ newSw.receivedBytes = 0
      /\ newSw.end # NOT_SUPPORTED /\ newSw.start <= newSw.end
  BY <1>2 DEF Subworker, SubworkerType, NOT_SUPPORTED
<1>5. kept[i] = [subs[i] EXCEPT !.end = newEnd] /\ subs[i].start <= newEnd
  BY <1>1, <1>2 DEF SubworkerType, Position
<1>6. kept[i] \in SubworkerType
  BY <1>1, <1>2, <1>5 DEF SubworkerType
<1>7. kept \in Seq(SubworkerType) /\ Len(kept) = Len(subs)
  BY <1>6
<1> DEFINE new == Append(kept, newSw)
<1>8. /\ new \in Seq(SubworkerType)
      /\ Len(new) = Len(subs) + 1
      /\ new[Len(subs) + 1] = newSw
      /\ \A j \in 1 .. Len(subs) : new[j] = kept[j]
  BY <1>4, <1>7
<1>9. ASSUME NEW j \in 1 .. Len(subs)
      PROVE  /\ new[j].start = subs[j].start
             /\ new[j].receivedBytes = subs[j].receivedBytes
             /\ new[j].end = NOT_SUPPORTED <=> subs[j].end = NOT_SUPPORTED
             /\ new[j].end # NOT_SUPPORTED => new[j].start <= new[j].end
  <2>0. new[j] = kept[j] /\ subs[j] \in SubworkerType
    BY <1>8
  <2>1. CASE j = i
    BY <2>0, <2>1, <1>1, <1>2, <1>5 DEF SubworkerType, NOT_SUPPORTED
  <2>2. CASE j # i
    BY <2>0, <2>2 DEF Sound
  <2> QED BY <2>1, <2>2
<1> HIDE DEF kept, newSw, new
<1>10. Sound(new)
  BY <1>4, <1>8, <1>9 DEF Sound
<1>11. Grows(subs, new)
  BY <1>4, <1>8, <1>9, <1>10 DEF Grows
<1> QED BY <1>3, <1>11 DEF new, kept, newSw

(* A range that is split has at least two bytes to come.                   *)
LEMMA LeastOfSplit ==
    ASSUME NEW r \in Int, NEW least \in Nat, r >= MaxOf(2, least)
    PROVE  r >= 2 /\ r >= least
  BY DEF MaxOf

LEMMA RemainingInt ==
    ASSUME NEW sw \in SubworkerType
    PROVE  Remaining(sw) \in Int
  BY DEF Remaining, Position, SubworkerType, NOT_SUPPORTED

(* Splitting the slowest range splits one range, or changes nothing.       *)
LEMMA SplitSlowestCases ==
    ASSUME NEW subs \in Seq(SubworkerType), NEW least \in Nat
    PROVE  \/ SplitSlowest(subs, least) = subs
           \/ \E i \in DOMAIN subs :
                 /\ Remaining(subs[i]) >= 2 /\ Remaining(subs[i]) >= least
                 /\ SplitSlowest(subs, least) = SplitAt(subs, i)
<1> DEFINE Splittable(i) == IsSlowest(subs, i) /\ Remaining(subs[i]) >= MaxOf(2, least)
<1>1. CASE \E i \in DOMAIN subs : Splittable(i)
  <2> DEFINE i == CHOOSE i \in DOMAIN subs : Splittable(i)
  <2>1. i \in DOMAIN subs /\ Splittable(i)
    BY <1>1
  <2>2. SplitSlowest(subs, least) = SplitAt(subs, i)
    BY <1>1 DEF SplitSlowest
  <2> HIDE DEF i
  <2>3. Remaining(subs[i]) \in Int
    BY <2>1, RemainingInt
  <2>4. Remaining(subs[i]) >= 2 /\ Remaining(subs[i]) >= least
    BY <2>1, <2>3, LeastOfSplit
  <2> QED BY <2>1, <2>2, <2>4
<1>2. CASE ~ \E i \in DOMAIN subs : Splittable(i)
  BY <1>2 DEF SplitSlowest
<1> QED BY <1>1, <1>2

LEMMA SplitSlowestGrows ==
    ASSUME NEW subs \in Seq(SubworkerType), Sound(subs), NEW least \in Nat
    PROVE  Grows(subs, SplitSlowest(subs, least))
  BY SplitSlowestCases, SplitAtGrows, GrowsRefl

LEMMA ReassignedGrows ==
    ASSUME NEW subs \in Seq(SubworkerType), Sound(subs)
    PROVE  Grows(subs, Reassigned(subs, FileSize, ReassignSize))
  BY HttpStepAssumption, SplitSlowestGrows, GrowsRefl DEF Reassigned

(* The four splits of one auto-acceleration.                               *)
LEMMA FourSplitsGrow ==
    ASSUME NEW subs \in Seq(SubworkerType), Sound(subs)
    PROVE  Grows(subs, Reassign(Reassign(Reassign(Reassign(subs)))))
<1>1. ASSUME NEW s \in Seq(SubworkerType), Sound(s)
      PROVE  Grows(s, Reassign(s)) /\ Reassign(s) \in Seq(SubworkerType) /\ Sound(Reassign(s))
  BY <1>1, ReassignedGrows DEF Reassign, Grows
<1> DEFINE s1 == Reassign(subs)  s2 == Reassign(s1)  s3 == Reassign(s2)  s4 == Reassign(s3)
<1>2. Grows(subs, s1) /\ s1 \in Seq(SubworkerType) /\ Sound(s1)
  BY <1>1
<1>3. Grows(s1, s2) /\ s2 \in Seq(SubworkerType) /\ Sound(s2)
  BY <1>1, <1>2
<1>4. Grows(s2, s3) /\ s3 \in Seq(SubworkerType) /\ Sound(s3)
  BY <1>1, <1>3
<1>5. Grows(s3, s4)
  BY <1>1, <1>4
<1> HIDE DEF s1, s2, s3, s4
<1>6. Grows(subs, s4)
  BY <1>2, <1>3, <1>4, <1>5, GrowsTrans
<1> QED BY <1>6 DEF s1, s2, s3, s4

(* A new list: nothing received, and only a single stream is open-ended.   *)
Fresh(subs) ==
    /\ subs \in Seq(SubworkerType)
    /\ Sound(subs)
    /\ \A i \in DOMAIN subs : subs[i].receivedBytes = 0

LEMMA ChunkSizePositive ==
    ASSUME NEW fileSize \in Nat \ {0}, NEW count \in 1 .. fileSize
    PROVE  /\ fileSize \div count \in Nat \ {0}
           /\ count * (fileSize \div count) <= fileSize
<1>1. count \in Nat /\ count > 0 /\ count <= fileSize
  OBVIOUS
<1> DEFINE q == fileSize \div count
           r == fileSize % count
<1>2. /\ q \in Int /\ r \in 0 .. count - 1
      /\ fileSize = count * q + r
  BY <1>1, Z3
<1> HIDE DEF q, r
<1>3. count * q <= fileSize /\ fileSize < count * q + count
  BY <1>1, <1>2
<1>4. q >= 1
  <2>1. SUFFICES ASSUME q <= 0 PROVE FALSE
    BY <1>2
  <2>2. count * q <= 0
    BY <1>1, <1>2, <2>1
  <2> QED BY <1>1, <1>2, <1>3, <2>2
<1> QED BY <1>2, <1>3, <1>4 DEF q

LEMMA ChunksFresh ==
    ASSUME NEW fileSize \in Nat \ {0}, NEW count \in 1 .. fileSize
    PROVE  /\ Fresh(Chunks(fileSize, count))
           /\ \A i \in DOMAIN Chunks(fileSize, count) :
                 Chunks(fileSize, count)[i].end # NOT_SUPPORTED
<1> DEFINE c == fileSize \div count
           subs == Chunks(fileSize, count)
<1>1. c \in Nat \ {0} /\ count * c <= fileSize
  BY ChunkSizePositive
<1>2. subs = [i \in 1 .. count |->
                Subworker((i - 1) * c,
                          IF i = count THEN fileSize - 1 ELSE i * c - 1)]
  BY DEF Chunks
<1> HIDE DEF c, subs
<1>3. ASSUME NEW i \in 1 .. count
      PROVE  /\ subs[i] \in SubworkerType
             /\ subs[i].start <= subs[i].end
             /\ subs[i].end # NOT_SUPPORTED
             /\ subs[i].receivedBytes = 0
  <2>1. (i - 1) * c \in Nat /\ i * c \in Nat /\ i * c = (i - 1) * c + c
    BY <1>1
  <2>2. CASE i = count
    <3>1. (i - 1) * c <= fileSize - 1
      BY <1>1, <2>1, <2>2
    <3> QED BY <1>2, <2>1, <2>2, <3>1 DEF Subworker, SubworkerType, NOT_SUPPORTED
  <2>3. CASE i # count
    <3>1. subs[i] = Subworker((i - 1) * c, i * c - 1)
      BY <1>2, <2>3
    <3>2. (i - 1) * c <= i * c - 1 /\ i * c - 1 \in Nat
      BY <1>1, <2>1
    <3> HIDE DEF c
    <3> QED BY <2>1, <3>1, <3>2 DEF Subworker, SubworkerType, NOT_SUPPORTED
  <2> QED BY <2>2, <2>3
<1>4. subs \in Seq(SubworkerType) /\ DOMAIN subs = 1 .. count
  BY <1>2, <1>3
<1> QED BY <1>3, <1>4 DEF Fresh, Sound, subs

LEMMA BuildSubworkersFresh ==
    ASSUME NEW ranged \in BOOLEAN, NEW n \in Nat \ {0}
    PROVE  LET subs == BuildSubworkers(FileSize, ranged, n)
           IN  /\ Fresh(subs)
               /\ ranged => \A i \in DOMAIN subs : subs[i].end # NOT_SUPPORTED
               /\ ~ ranged => subs = << Subworker(0, NOT_SUPPORTED) >>
<1>1. CASE ~ ranged
  <2>1. BuildSubworkers(FileSize, ranged, n) = << Subworker(0, NOT_SUPPORTED) >>
    BY <1>1 DEF BuildSubworkers
  <2>2. Subworker(0, NOT_SUPPORTED) \in SubworkerType
    BY DEF Subworker, SubworkerType
  <2>3. Fresh(<< Subworker(0, NOT_SUPPORTED) >>)
    BY <2>2 DEF Fresh, Sound, Subworker
  <2> QED BY <1>1, <2>1, <2>3
<1>2. CASE ranged /\ FileSize = UNKNOWN
  <2>1. BuildSubworkers(FileSize, ranged, n) = << Subworker(0, UNKNOWN) >>
    BY <1>2 DEF BuildSubworkers
  <2>2. Subworker(0, UNKNOWN) \in SubworkerType /\ UNKNOWN # NOT_SUPPORTED
    BY DEF Subworker, SubworkerType, UNKNOWN, NOT_SUPPORTED
  <2>3. Fresh(<< Subworker(0, UNKNOWN) >>)
    BY <2>2 DEF Fresh, Sound, Subworker, UNKNOWN
  <2>4. \A i \in DOMAIN << Subworker(0, UNKNOWN) >> :
            << Subworker(0, UNKNOWN) >>[i].end # NOT_SUPPORTED
    BY <2>2 DEF Subworker
  <2> QED BY <1>2, <2>1, <2>3, <2>4
<1>3. CASE ranged /\ FileSize # UNKNOWN
  <2>1. FileSize \in Nat \ {0} /\ MinOf(n, FileSize) \in 1 .. FileSize
    BY <1>3, HttpStepAssumption DEF MinOf, UNKNOWN
  <2>2. BuildSubworkers(FileSize, ranged, n) = Chunks(FileSize, MinOf(n, FileSize))
    BY <1>3 DEF BuildSubworkers
  <2> QED BY <1>3, <2>1, <2>2, ChunksFresh
<1> QED BY <1>1, <1>2, <1>3

-----------------------------------------------------------------------------
(* Subworkers with their tasks.                                            *)

LEMMA TaskTypes ==
    /\ NewTask \in TaskType
    /\ Orphan \in TaskType
    /\ NewTask.mode = "undecided"
    /\ Orphan.mode = "undecided"
  BY DEF NewTask, Orphan, TaskType, Pcs, Modes

LEMMA NewTasksPaired ==
    ASSUME NEW subs \in Seq(SubworkerType)
    PROVE  Paired(subs, [i \in DOMAIN subs |-> NewTask])
<1> DEFINE tasks == [i \in DOMAIN subs |-> NewTask]
<1>1. tasks \in Seq(TaskType)
  <2>1. DOMAIN subs = 1 .. Len(subs) /\ Len(subs) \in Nat
    OBVIOUS
  <2> QED BY <2>1, TaskTypes
<1> QED BY <1>1, TaskTypes DEF Paired

LEMMA ExtendedPaired ==
    ASSUME NEW subs \in Seq(SubworkerType), NEW tasks, Paired(subs, tasks),
           NEW new, Grows(subs, new), NEW t \in {NewTask, Orphan}
    PROVE  /\ Paired(new, Extended(tasks, new, t))
           /\ AllRanges(subs) => AllRanges(new)
<1>1. /\ new \in Seq(SubworkerType) /\ Len(subs) \in Nat /\ Len(new) \in Nat
      /\ DOMAIN new = 1 .. Len(new)
      /\ DOMAIN tasks = 1 .. Len(subs) /\ tasks \in Seq(TaskType)
      /\ Len(subs) <= Len(new)
  BY DEF Grows, Paired
<1> DEFINE all == Extended(tasks, new, t)
<1>2. all = [j \in 1 .. Len(new) |-> IF j \in 1 .. Len(subs) THEN tasks[j] ELSE t]
  BY <1>1 DEF Extended
<1> HIDE DEF all
<1>3. ASSUME NEW j \in 1 .. Len(new)
      PROVE  /\ all[j] \in TaskType
             /\ all[j].mode = "range" => new[j].end # NOT_SUPPORTED
             /\ all[j].mode = "single" => new[j].end = NOT_SUPPORTED
             /\ AllRanges(subs) => new[j].end # NOT_SUPPORTED
  <2>1. CASE j \in 1 .. Len(subs)
    <3>1. all[j] = tasks[j] /\ tasks[j] \in TaskType
      BY <1>1, <1>2, <2>1
    <3>2. new[j].end = NOT_SUPPORTED <=> subs[j].end = NOT_SUPPORTED
      BY <2>1 DEF Grows
    <3> QED BY <1>1, <2>1, <3>1, <3>2 DEF Paired, AllRanges
  <2>2. CASE j \notin 1 .. Len(subs)
    <3>1. j \in Len(subs) + 1 .. Len(new)
      BY <1>1, <2>2
    <3>2. all[j] = t /\ new[j].end # NOT_SUPPORTED
      BY <1>2, <2>2, <3>1 DEF Grows
    <3> QED BY <3>2, TaskTypes
  <2> QED BY <2>1, <2>2
<1>4. all \in Seq(TaskType) /\ DOMAIN all = DOMAIN new
  BY <1>1, <1>2, <1>3
<1> QED BY <1>1, <1>3, <1>4 DEF Paired, AllRanges, all

(* A task moves on.                                                        *)
LEMMA TaskSetPaired ==
    ASSUME NEW subs, NEW tasks, Paired(subs, tasks),
           NEW i \in DOMAIN tasks, NEW t \in TaskType,
           t.mode = "range" => subs[i].end # NOT_SUPPORTED,
           t.mode = "single" => subs[i].end = NOT_SUPPORTED
    PROVE  Paired(subs, [tasks EXCEPT ![i] = t])
  BY DEF Paired

LEMMA GotoPaired ==
    ASSUME NEW subs, NEW tasks, Paired(subs, tasks),
           NEW i \in DOMAIN tasks, NEW pc \in Pcs
    PROVE  Paired(subs, [tasks EXCEPT ![i].pc = pc])
<1> DEFINE t == [tasks[i] EXCEPT !.pc = pc]
<1>1. tasks[i] \in TaskType
  BY DEF Paired
<1>2. t \in TaskType /\ t.mode = tasks[i].mode
  BY <1>1 DEF TaskType
<1>3. Paired(subs, [tasks EXCEPT ![i] = t])
  BY <1>2, TaskSetPaired DEF Paired
<1> QED BY <1>3

(* A subworker receives.                                                   *)
LEMMA ReceivedSet ==
    ASSUME NEW subs \in Seq(SubworkerType), NEW i \in DOMAIN subs, NEW r \in Nat
    PROVE  LET new == [subs EXCEPT ![i].receivedBytes = r]
           IN  /\ new \in Seq(SubworkerType)
               /\ DOMAIN new = DOMAIN subs
               /\ \A j \in DOMAIN subs : /\ new[j].start = subs[j].start
                                         /\ new[j].end = subs[j].end
               /\ Sound(subs) => Sound(new)
               /\ AllRanges(subs) => AllRanges(new)
               /\ \A tasks : Paired(subs, tasks) => Paired(new, tasks)
<1> DEFINE new == [subs EXCEPT ![i].receivedBytes = r]
<1>1. subs[i] \in SubworkerType
  OBVIOUS
<1>2. [subs[i] EXCEPT !.receivedBytes = r] \in SubworkerType
  BY <1>1 DEF SubworkerType
<1>3. new \in Seq(SubworkerType) /\ DOMAIN new = DOMAIN subs
  BY <1>2
<1>4. ASSUME NEW j \in DOMAIN subs
      PROVE  new[j].start = subs[j].start /\ new[j].end = subs[j].end
  <2>1. subs[j] \in SubworkerType
    OBVIOUS
  <2> QED BY <2>1 DEF SubworkerType
<1> HIDE DEF new
<1>5. (Sound(subs) => Sound(new)) /\ (AllRanges(subs) => AllRanges(new))
  BY <1>3, <1>4 DEF Sound, AllRanges
<1>6. \A tasks : Paired(subs, tasks) => Paired(new, tasks)
  BY <1>3, <1>4 DEF Paired
<1> QED BY <1>3, <1>4, <1>5, <1>6 DEF new

-----------------------------------------------------------------------------
(* Type correctness.                                                       *)

LEMMA WellFormedInit == Init => WellFormed
<1> SUFFICES ASSUME Init PROVE WellFormed
  OBVIOUS
<1>1. TypeOK
  <2>1. /\ good \in SUBSET Nat /\ errors \in SUBSET EnvKinds
        /\ size \in Nat /\ faults \in Nat /\ wanted \in Nat
    BY HttpStepAssumption DEF Init
  <2>2. /\ record \in Seq(EntryType)
        /\ subworkers \in Seq(SubworkerType)
        /\ task \in Seq(TaskType)
    BY DEF Init
  <2> QED BY <2>1, <2>2 DEF Init, TypeOK, Statuses, Phases
<1>2. Sound(subworkers) /\ Sound(record)
  BY DEF Init, Sound
<1> QED BY <1>1, <1>2 DEF Init, WellFormed

LEMMA TruncatedDisk ==
    ASSUME good \in SUBSET Nat, NEW n \in Nat, Truncated(n)
    PROVE  good' \in SUBSET Nat /\ size' \in Nat
  BY DEF Truncated

LEMMA WrittenDisk ==
    ASSUME good \in SUBSET Nat, size \in Nat,
           NEW offset \in Nat, NEW k \in Int, offset + k >= 0, Written(offset, k)
    PROVE  good' \in SUBSET Nat /\ size' \in Nat
  BY DEF Written, MaxOf

(* What a subworker's step must show; Steady is the rest of WellFormed.    *)
WorkOK ==
    /\ good \in SUBSET Nat
    /\ size \in Nat
    /\ subworkers \in Seq(SubworkerType)
    /\ Sound(subworkers)
    /\ canRange => AllRanges(subworkers)
    /\ Paired(subworkers, task)
    /\ errors \in SUBSET EnvKinds
    /\ faults \in Nat

LEMMA SteadyWellFormed ==
    ASSUME WellFormed, phase = "group", Steady, WorkOK'
    PROVE  WellFormed'
<1>1. UNCHANGED << record, canRange, wanted, status, accel, phase, aborting,
                   cancelled, supervisor >>
  BY DEF Steady, step
<1>2. TypeOK'
  BY <1>1 DEF WellFormed, TypeOK, WorkOK, Paired
<1>3. /\ Sound(subworkers') /\ Sound(record')
      /\ canRange' => AllRanges(subworkers')
      /\ Paired(subworkers', task')
  <2>1. /\ Sound(subworkers')
        /\ canRange' => AllRanges(subworkers')
        /\ Paired(subworkers', task')
    BY DEF WorkOK
  <2>2. Sound(record')
    BY <1>1 DEF WellFormed
  <2> QED BY <2>1, <2>2
<1> QED BY <1>1, <1>2, <1>3 DEF WellFormed

LEMMA FinishPaired ==
    ASSUME NEW subs \in Seq(SubworkerType), Sound(subs), Paired(subs, task),
           NEW i \in DOMAIN task, Finish(i, subs)
    PROVE  /\ subworkers' \in Seq(SubworkerType)
           /\ Sound(subworkers')
           /\ AllRanges(subs) => AllRanges(subworkers')
           /\ Paired(subworkers', task')
<1> DEFINE after == Reassigned(subs, FileSize, ReassignSize)
           done  == [task EXCEPT ![i].pc = "done"]
<1>1. Grows(subs, after)
  BY ReassignedGrows
<1>2. Paired(subs, done)
  BY GotoPaired DEF Pcs
<1> HIDE DEF after, done
<1>3. /\ Paired(after, Extended(done, after, NewTask))
      /\ AllRanges(subs) => AllRanges(after)
  BY <1>1, <1>2, ExtendedPaired
<1> QED BY <1>1, <1>3 DEF Finish, Grows, after, done

LEMMA LoopTopWorkOK ==
    ASSUME WellFormed, phase = "group", NEW i \in DOMAIN task, NEW mode \in Modes,
           mode = "range" => subworkers[i].end # NOT_SUPPORTED,
           mode = "single" => subworkers[i].end = NOT_SUPPORTED,
           LoopTop(i, mode), Steady, errors' \in SUBSET EnvKinds, faults' \in Nat
    PROVE  WorkOK'
<1>1. /\ subworkers \in Seq(SubworkerType) /\ Sound(subworkers)
      /\ Paired(subworkers, task)
      /\ canRange => AllRanges(subworkers)
      /\ good \in SUBSET Nat /\ size \in Nat /\ errors \in SUBSET EnvKinds
      /\ faults \in Nat /\ i \in DOMAIN subworkers
  BY DEF WellFormed, TypeOK, Paired
<1>2. /\ UNCHANGED canRange
      /\ errors' \in SUBSET EnvKinds
      /\ faults' \in Nat
  BY DEF Steady, step
<1>3. CASE Finish(i, subworkers) /\ UNCHANGED << good, size >>
  <2>1. /\ subworkers' \in Seq(SubworkerType) /\ Sound(subworkers')
        /\ AllRanges(subworkers) => AllRanges(subworkers')
        /\ Paired(subworkers', task')
    BY <1>1, <1>3, FinishPaired
  <2> QED BY <1>1, <1>2, <1>3, <2>1 DEF WorkOK
<1>4. CASE /\ mode = "range" => ~ Complete(subworkers[i])
           /\ task' = [task EXCEPT ![i] = Requesting(mode, subworkers[i])]
           /\ \/ /\ mode = "single"
                 /\ Truncated(0)
                 /\ subworkers' = [subworkers EXCEPT ![i].receivedBytes = 0]
              \/ /\ mode # "single"
                 /\ UNCHANGED << good, size, subworkers >>
  <2>1. subworkers[i] \in SubworkerType
    BY <1>1
  <2>2. Requesting(mode, subworkers[i]) \in TaskType
        /\ Requesting(mode, subworkers[i]).mode = mode
    BY <2>1, <1>4, HttpStepAssumption
       DEF Requesting, MinOf, TaskType, Pcs, Complete, Position, SubworkerType, NOT_SUPPORTED
  <2>3. Paired(subworkers, task')
    BY <1>1, <1>4, <2>2, TaskSetPaired
  <2>4. CASE mode = "single"
    <3>1. good' \in SUBSET Nat /\ size' \in Nat
      BY <1>1, <1>4, <2>4, TruncatedDisk
    <3>2. /\ subworkers' \in Seq(SubworkerType) /\ Sound(subworkers')
          /\ canRange => AllRanges(subworkers')
          /\ Paired(subworkers', task')
      <4> DEFINE reset == [subworkers EXCEPT ![i].receivedBytes = 0]
      <4>1. /\ reset \in Seq(SubworkerType)
            /\ Sound(subworkers) => Sound(reset)
            /\ AllRanges(subworkers) => AllRanges(reset)
            /\ \A tasks : Paired(subworkers, tasks) => Paired(reset, tasks)
        BY <1>1, ReceivedSet
      <4>2. subworkers' = reset
        BY <1>4, <2>4
      <4> HIDE DEF reset
      <4> QED BY <1>1, <2>3, <4>1, <4>2
    <3> QED BY <1>1, <1>2, <3>1, <3>2 DEF WorkOK
  <2>5. CASE mode # "single"
    BY <1>1, <1>2, <1>4, <2>3, <2>5 DEF WorkOK
  <2> QED BY <2>4, <2>5
<1> QED BY <1>3, <1>4 DEF LoopTop

(* The part of a chunk that is used never takes a subworker below zero.    *)
LEMMA AcceptedBounds ==
    ASSUME WellFormed, phase = "group", NEW i \in DOMAIN task, NEW n \in ChunkSizes,
           Position(subworkers[i]) <= task[i].last
    PROVE  /\ Accepted(i, n) \in Int
           /\ subworkers[i].receivedBytes + Accepted(i, n) \in Nat
           /\ Position(subworkers[i]) + Accepted(i, n) >= 0
<1>1. /\ subworkers[i] \in SubworkerType
      /\ task[i] \in TaskType
      /\ task[i].mode = "range" => subworkers[i].end # NOT_SUPPORTED
      /\ subworkers[i].end # NOT_SUPPORTED => subworkers[i].start <= subworkers[i].end
  BY DEF WellFormed, TypeOK, Paired, Sound
<1>2. n \in Nat \ {0} /\ Position(subworkers[i]) \in Nat
  BY <1>1, HttpStepAssumption DEF SubworkerType, Position
<1> DEFINE k == Accepted(i, n)
           offset == Position(subworkers[i])
<1> HIDE DEF k, offset
<1>3. CASE task[i].mode = "range"
  BY <1>1, <1>2, <1>3
     DEF k, offset, Accepted, MinOf, Remaining, Position, SubworkerType, TaskType,
         NOT_SUPPORTED
<1>4. CASE task[i].mode # "range"
  BY <1>1, <1>2, <1>4
     DEF k, offset, Accepted, MinOf, Position, SubworkerType, TaskType
<1> QED BY <1>3, <1>4

(* The same for each step of a subworker.                                  *)
LEMMA SubworkerStepWellFormed ==
    ASSUME WellFormed, NEW i \in DOMAIN task, SubworkerStep(i)
    PROVE  WellFormed'
<1> USE DEF At
<1>0. phase = "group" /\ Steady
  BY DEF SubworkerStep, Start, Retry, ReplyOk, ReplyUnsatisfiable, ReplyPermanent,
         ReplyFull, TransientError, Chunk, WriteFatal, Resume, StreamEnd, Raise
<1>1. /\ subworkers \in Seq(SubworkerType)
      /\ Sound(subworkers)
      /\ Paired(subworkers, task)
      /\ canRange => AllRanges(subworkers)
      /\ good \in SUBSET Nat
      /\ size \in Nat
      /\ errors \in SUBSET EnvKinds
      /\ faults \in Nat
      /\ i \in DOMAIN subworkers
  BY <1>0 DEF WellFormed, TypeOK, Paired
<1>2. subworkers[i] \in SubworkerType /\ task[i] \in TaskType
  BY <1>1 DEF Paired
<1>3. UNCHANGED canRange
  BY <1>0 DEF Steady, step
<1>4. ASSUME NEW pc \in Pcs, Goto(i, pc), UNCHANGED subworkers
      PROVE  /\ Paired(subworkers', task')
             /\ subworkers' \in Seq(SubworkerType)
             /\ Sound(subworkers')
             /\ canRange' => AllRanges(subworkers')
  <2>1. Paired(subworkers, [task EXCEPT ![i].pc = pc])
    BY <1>1, GotoPaired
  <2>2. task' = [task EXCEPT ![i].pc = pc]
    BY <1>4 DEF Goto
  <2> QED BY <1>1, <1>3, <1>4, <2>1, <2>2
<1>5. SUFFICES WorkOK'
  BY <1>0, SteadyWellFormed
<1>6. ASSUME NEW mode \in Modes, LoopTop(i, mode),
             errors' \in SUBSET EnvKinds, faults' \in Nat,
             mode = "range" => subworkers[i].end # NOT_SUPPORTED,
             mode = "single" => subworkers[i].end = NOT_SUPPORTED
      PROVE  WorkOK'
  BY <1>0, <1>6, LoopTopWorkOK
<1>7. CASE Start(i)
  <2>1. /\ ModeOf(subworkers[i]) \in Modes
        /\ ModeOf(subworkers[i]) = "range" => subworkers[i].end # NOT_SUPPORTED
        /\ ModeOf(subworkers[i]) = "single" => subworkers[i].end = NOT_SUPPORTED
    BY DEF ModeOf, Modes
  <2> QED BY <1>1, <1>6, <1>7, <2>1 DEF Start
<1>8. CASE Retry(i)
  <2>1. /\ task[i].mode \in Modes
        /\ task[i].mode = "range" => subworkers[i].end # NOT_SUPPORTED
        /\ task[i].mode = "single" => subworkers[i].end = NOT_SUPPORTED
    BY <1>1, <1>2 DEF Paired, TaskType
  <2> QED BY <1>1, <1>6, <1>8, <2>1 DEF Retry
<1>9. CASE ReplyOk(i)
  BY <1>1, <1>4, <1>9 DEF ReplyOk, WorkOK, Pcs
<1>10. CASE ReplyUnsatisfiable(i)
  BY <1>1, <1>4, <1>10 DEF ReplyUnsatisfiable, WorkOK, Pcs
<1>11. CASE TransientError(i)
  BY <1>1, <1>4, <1>11 DEF TransientError, Fault, WorkOK, Pcs
<1>12. ASSUME NEW kind \in EnvKinds, Raise(i, kind)
       PROVE  WorkOK'
  BY <1>1, <1>4, <1>12 DEF Raise, Fault, WorkOK, Pcs
<1>13. CASE ReplyPermanent(i) \/ ReplyFull(i) \/ WriteFatal(i)
  BY <1>12, <1>13 DEF ReplyPermanent, ReplyFull, WriteFatal, EnvKinds
<1>14. ASSUME NEW n \in ChunkSizes, Chunk(i, n)
       PROVE  WorkOK'
  <2> DEFINE k == Accepted(i, n)
             offset == Position(subworkers[i])
             new == [subworkers EXCEPT ![i].receivedBytes = @ + k]
  <2>1. offset \in Nat
    BY <1>2 DEF SubworkerType, Position
  <2>2. /\ k \in Int
        /\ subworkers[i].receivedBytes + k \in Nat
        /\ offset + k >= 0
    BY <1>0, <1>14, AcceptedBounds DEF Chunk
  <2> HIDE DEF k
  <2>3. good' \in SUBSET Nat /\ size' \in Nat /\ faults' \in Nat
    <3>1. CASE Written(offset, k) /\ UNCHANGED faults
      BY <1>1, <2>1, <2>2, <3>1, WrittenDisk
    <3>2. CASE Fault("short") /\ \E j \in 1 .. k - 1 : Written(offset, j)
      <4>1. PICK j \in 1 .. k - 1 : Written(offset, j)
        BY <3>2
      <4>2. j \in Int /\ offset + j >= 0
        BY <2>1, <2>2
      <4> QED BY <1>1, <2>1, <3>2, <4>1, <4>2, WrittenDisk DEF Fault
    <3> QED BY <1>14, <3>1, <3>2 DEF Chunk, k
  <2>4. subworkers' = new
    BY <1>14 DEF Chunk, k
  <2>5. /\ new \in Seq(SubworkerType)
        /\ Sound(new)
        /\ canRange => AllRanges(new)
        /\ Paired(new, task)
    BY <1>1, <2>2, ReceivedSet
  <2> HIDE DEF new
  <2>6. Paired(new, [task EXCEPT ![i].pc = "limit"])
    BY <1>1, <2>5, GotoPaired DEF Pcs
  <2>7. task' = [task EXCEPT ![i].pc = "limit"] /\ UNCHANGED errors
    BY <1>14 DEF Chunk, Goto
  <2> QED BY <1>1, <1>3, <2>3, <2>4, <2>5, <2>6, <2>7 DEF WorkOK
<1>15. CASE Resume(i)
  <2>1. UNCHANGED << good, size, errors, faults >>
    BY <1>15 DEF Resume
  <2>2. CASE task[i].mode = "range" /\ Complete(subworkers[i])
    <3> DEFINE whole == subworkers[i].end - subworkers[i].start + 1
               new == [subworkers EXCEPT ![i].receivedBytes = whole]
    <3>1. whole \in Nat
      BY <1>1, <1>2, <2>2 DEF Paired, Sound, SubworkerType, NOT_SUPPORTED
    <3> HIDE DEF whole
    <3>2. /\ new \in Seq(SubworkerType)
          /\ Sound(new)
          /\ canRange => AllRanges(new)
          /\ Paired(new, task)
      BY <1>1, <3>1, ReceivedSet
    <3>3. Finish(i, new)
      BY <1>15, <2>2 DEF Resume, whole
    <3> HIDE DEF new
    <3>4. /\ subworkers' \in Seq(SubworkerType)
          /\ Sound(subworkers')
          /\ AllRanges(new) => AllRanges(subworkers')
          /\ Paired(subworkers', task')
      BY <3>2, <3>3, FinishPaired
    <3> QED BY <1>1, <1>3, <2>1, <3>2, <3>4 DEF WorkOK
  <2>3. CASE Goto(i, "stream") /\ UNCHANGED subworkers
    BY <1>1, <1>4, <2>1, <2>3 DEF WorkOK, Pcs
  <2> QED BY <1>15, <2>2, <2>3 DEF Resume
<1>16. CASE StreamEnd(i)
  <2>1. faults' \in Nat /\ UNCHANGED errors
    BY <1>1, <1>16 DEF StreamEnd, Fault
  <2>2. CASE task[i].mode = "range" /\ LoopTop(i, "range")
    <3>1. "range" \in Modes /\ subworkers[i].end # NOT_SUPPORTED /\ "range" # "single"
      BY <1>1, <2>2 DEF Modes, Paired
    <3> QED BY <1>1, <1>6, <2>1, <2>2, <3>1
  <2>3. CASE Goto(i, "done") /\ UNCHANGED << good, size, subworkers >>
    BY <1>1, <1>4, <2>1, <2>3 DEF WorkOK, Pcs
  <2>4. CASE /\ Truncated(subworkers[i].receivedBytes)
             /\ Goto(i, "done")
             /\ UNCHANGED subworkers
    <3>1. good' \in SUBSET Nat /\ size' \in Nat
      BY <1>1, <1>2, <2>4, TruncatedDisk DEF SubworkerType
    <3> QED BY <1>1, <1>4, <2>1, <2>4, <3>1 DEF WorkOK, Pcs
  <2> QED BY <1>16, <2>2, <2>3, <2>4 DEF StreamEnd
<1> QED BY <1>7, <1>8, <1>9, <1>10, <1>11, <1>13, <1>14, <1>15, <1>16
       DEF SubworkerStep

LEMMA LaunchPaired ==
    ASSUME NEW subs \in Seq(SubworkerType), Launch(subs)
    PROVE  /\ subworkers' = subs
           /\ phase' = "group"
           /\ Paired(subworkers', task')
           /\ errors' = {} /\ aborting' = FALSE /\ cancelled' = FALSE
           /\ supervisor' = "new"
<1>1. Paired(subs, [i \in DOMAIN subs |-> NewTask])
  BY NewTasksPaired
<1> QED BY <1>1 DEF Launch

(* A supervisor's step.                                                    *)
LEMMA SuperviseWellFormed ==
    ASSUME WellFormed, Supervise
    PROVE  WellFormed'
<1>1. /\ phase = "group" /\ UNCHANGED << good, size, canRange, wanted, status, phase, group, faults >>
      /\ subworkers \in Seq(SubworkerType)
      /\ Sound(subworkers)
      /\ canRange => AllRanges(subworkers)
      /\ Paired(subworkers, task)
  BY DEF Supervise, WellFormed, TypeOK
<1>2. record' \in Seq(EntryType) /\ Sound(record')
  <2>1. CASE ~ canRange
    BY <2>1 DEF Supervise, WellFormed, TypeOK
  <2>2. CASE canRange
    <3>1. record' = subworkers
      BY <2>2 DEF Supervise
    <3>2. ASSUME NEW i \in DOMAIN subworkers
          PROVE  subworkers[i] \in EntryType
      <4>1. subworkers[i] \in SubworkerType /\ subworkers[i].end # NOT_SUPPORTED
        BY <1>1, <2>2 DEF AllRanges
      <4> QED BY <4>1 DEF SubworkerType, EntryType
    <3>3. subworkers \in Seq(EntryType)
      BY <1>1, <3>2
    <3> QED BY <1>1, <3>1, <3>3
  <2> QED BY <2>1, <2>2
<1>3. /\ accel' \in {"idle", "measuring", "stopped"}
      /\ supervisor' \in {"off", "new", "running", "dead"}
  BY DEF Supervise, WellFormed, TypeOK
<1>4. /\ subworkers' \in Seq(SubworkerType)
      /\ Sound(subworkers')
      /\ canRange => AllRanges(subworkers')
      /\ Paired(subworkers', task')
  <2>1. CASE UNCHANGED << subworkers, task >>
    BY <1>1, <2>1
  <2>2. CASE /\ subworkers' = Reassign(Reassign(Reassign(Reassign(subworkers))))
             /\ task' = Extended(task, subworkers', NewTask)
    <3> DEFINE new == Reassign(Reassign(Reassign(Reassign(subworkers))))
    <3>1. Grows(subworkers, new)
      BY <1>1, FourSplitsGrow
    <3>2. subworkers' = new /\ task' = Extended(task, new, NewTask)
      BY <2>2
    <3> HIDE DEF new
    <3>3. /\ Paired(new, Extended(task, new, NewTask))
          /\ AllRanges(subworkers) => AllRanges(new)
      BY <1>1, <3>1, ExtendedPaired
    <3> QED BY <1>1, <3>1, <3>2, <3>3 DEF Grows
  <2>3. CASE /\ subworkers' = Reassign(subworkers)
             /\ task' = Extended(task, subworkers', Orphan)
    <3> DEFINE new == Reassign(subworkers)
    <3>1. Grows(subworkers, new)
      BY <1>1, ReassignedGrows DEF Reassign
    <3>2. subworkers' = new /\ task' = Extended(task, new, Orphan)
      BY <2>3
    <3> HIDE DEF new
    <3>3. /\ Paired(new, Extended(task, new, Orphan))
          /\ AllRanges(subworkers) => AllRanges(new)
      BY <1>1, <3>1, ExtendedPaired
    <3> QED BY <1>1, <3>1, <3>2, <3>3 DEF Grows
  <2> QED BY <2>1, <2>2, <2>3 DEF Supervise
<1>5. /\ UNCHANGED << good, size, canRange, wanted, status, phase, faults >>
      /\ UNCHANGED << errors, aborting, cancelled >>
  BY <1>1 DEF group
<1>6. task' \in Seq(TaskType)
  BY <1>4 DEF Paired
<1>7. TypeOK'
  BY <1>2, <1>3, <1>4, <1>5, <1>6 DEF WellFormed, TypeOK
<1> QED BY <1>1, <1>2, <1>4, <1>5, <1>7 DEF WellFormed

LEMMA EmptyLists ==
    /\ << >> \in Seq(EntryType) /\ << >> \in Seq(SubworkerType)
    /\ << >> \in Seq(TaskType)
    /\ Sound(<< >>) /\ AllRanges(<< >>)
  BY DEF Sound, AllRanges

LEMMA EntriesAreSubworkers ==
    ASSUME NEW subs \in Seq(EntryType)
    PROVE  subs \in Seq(SubworkerType) /\ AllRanges(subs)
<1>1. ASSUME NEW i \in DOMAIN subs
      PROVE  subs[i] \in SubworkerType /\ subs[i].end # NOT_SUPPORTED
  <2>1. subs[i] \in EntryType
    OBVIOUS
  <2> QED BY <2>1 DEF EntryType, SubworkerType, NOT_SUPPORTED
<1> QED BY <1>1 DEF AllRanges

LEMMA PreallocatedDisk ==
    ASSUME faults \in Nat, NEW kept \in SUBSET Nat, NEW old \in Nat, Preallocate(kept, old)
    PROVE  good' \in SUBSET Nat /\ size' \in Nat /\ faults' \in Nat
<1>1. FileSize \in Nat
  BY HttpStepAssumption DEF UNKNOWN
<1>2. faults' \in Nat
  BY DEF Preallocate, Fault
<1>3. size' \in Nat
  BY <1>1 DEF Preallocate
<1>4. good' = kept \/ good' = kept \cap (0 .. FileSize - 1)
  BY DEF Preallocate
<1> QED BY <1>2, <1>3, <1>4

(* The steps that start and restart a run.                                 *)
LEMMA StartWellFormed ==
    ASSUME WellFormed,
           \/ RunFresh \/ RunRestored \/ RestoreSplit \/ RestoreDone \/ Relaunch
    PROVE  WellFormed'
<1> USE DEF WellFormed, TypeOK
<1>1. CASE RunFresh
  <2> DEFINE subs == BuildSubworkers(FileSize, canRange, wanted)
  <2>1. /\ phase = "idle" /\ UNCHANGED << canRange, wanted, status >>
        /\ record' = record \/ record' = << >>
    BY <1>1 DEF RunFresh, DeleteRecord
  <2>2. wanted \in Nat \ {0}
    BY <2>1
  <2>3. /\ subs \in Seq(SubworkerType) /\ Sound(subs)
        /\ canRange => AllRanges(subs)
    BY <2>2, BuildSubworkersFresh DEF Fresh, AllRanges
  <2>4. Launch(subs)
    BY <1>1 DEF RunFresh
  <2> HIDE DEF subs
  <2>5. /\ subworkers' = subs /\ phase' = "group" /\ Paired(subworkers', task')
        /\ errors' = {} /\ aborting' = FALSE /\ cancelled' = FALSE
        /\ supervisor' = "new"
    BY <2>3, <2>4, LaunchPaired
  <2>6. good' \in SUBSET Nat /\ size' \in Nat /\ faults' \in Nat
    <3>1. CASE Preallocate(good, size)
      BY <3>1, PreallocatedDisk
    <3>2. CASE Preallocate({}, 0)
      BY <3>2, PreallocatedDisk
    <3> QED BY <1>1, <3>1, <3>2 DEF RunFresh
  <2>7. accel' \in {"idle", "measuring", "stopped"}
    BY <1>1 DEF RunFresh, ClockReset
  <2>8. task' \in Seq(TaskType)
    BY <2>5 DEF Paired
  <2>9. record' \in Seq(EntryType) /\ Sound(record')
    BY <2>1, EmptyLists
  <2>10. TypeOK'
    BY <2>1, <2>3, <2>5, <2>6, <2>7, <2>8, <2>9 DEF Phases
  <2> QED BY <2>1, <2>2, <2>3, <2>5, <2>9, <2>10
<1>2. CASE RunRestored
  <2>1. /\ subworkers' = record /\ phase' = "restoring" /\ canRange
        /\ UNCHANGED << good, size, record, canRange, wanted, status, task, errors,
                        aborting, cancelled, supervisor, faults >>
        /\ wanted # 0
    BY <1>2 DEF RunRestored, disk, group
  <2>2. accel' \in {"idle", "measuring", "stopped"}
    BY <1>2 DEF RunRestored, ClockReset
  <2>3. /\ subworkers' \in Seq(SubworkerType) /\ Sound(subworkers')
        /\ AllRanges(subworkers')
    BY <2>1, EntriesAreSubworkers
  <2>4. TypeOK'
    BY <2>1, <2>2, <2>3 DEF Phases
  <2> QED BY <2>1, <2>3, <2>4
<1>3. CASE RestoreSplit
  <2> DEFINE new == SplitSlowest(subworkers, 2)
  <2>1. /\ subworkers' = new /\ phase = "restoring"
        /\ UNCHANGED << good, size, record, canRange, wanted, status, accel, phase,
                        task, errors, aborting, cancelled, supervisor, faults >>
    BY <1>3 DEF RestoreSplit, disk, step, group
  <2>2. Grows(subworkers, new)
    BY SplitSlowestGrows
  <2> HIDE DEF new
  <2>3. new \in Seq(SubworkerType) /\ Sound(new)
    BY <2>2 DEF Grows
  <2>4. AllRanges(new)
    BY <2>1, <2>2, NewTasksPaired, ExtendedPaired
  <2> QED BY <2>1, <2>3, <2>4
<1>4. CASE RestoreDone \/ Relaunch
  <2>1. /\ Launch(subworkers) /\ phase \in {"restoring", "falling_back"}
        /\ UNCHANGED << good, size, record, canRange, wanted, status, accel, faults >>
    BY <1>4 DEF RestoreDone, Relaunch, disk, step
  <2>2. /\ subworkers' = subworkers /\ phase' = "group" /\ Paired(subworkers', task')
        /\ errors' = {} /\ aborting' = FALSE /\ cancelled' = FALSE
        /\ supervisor' = "new"
    BY <2>1, LaunchPaired
  <2>3. task' \in Seq(TaskType)
    BY <2>2 DEF Paired
  <2>4. TypeOK'
    BY <2>1, <2>2, <2>3 DEF Phases
  <2> QED BY <2>1, <2>2, <2>4
<1> QED BY <1>1, <1>2, <1>3, <1>4

(* The steps that end a run, and the death of the process.                 *)
LEMMA EndWellFormed ==
    ASSUME WellFormed,
           \/ SuperviseFails \/ Abort \/ Cancel
           \/ GroupCompleted \/ GroupCancelled \/ GroupFailed \/ FallBack \/ Settle
           \/ Kill \/ KillOpeningRecord \/ KillInFallBack
    PROVE  WellFormed'
<1> USE DEF WellFormed, TypeOK
<1>1. CASE SuperviseFails
  <2>1. /\ UNCHANGED << good, size, canRange, wanted, status, accel, subworkers, phase,
                        task, errors, aborting, cancelled >>
        /\ faults' \in Nat /\ supervisor' = "dead"
        /\ record' = record \/ record' = << >>
    BY <1>1 DEF SuperviseFails, step, group, Fault
  <2>2. record' \in Seq(EntryType) /\ Sound(record')
    BY <2>1, EmptyLists
  <2> QED BY <2>1, <2>2
<1>2. CASE Abort \/ Cancel
  <2>1. /\ UNCHANGED << good, size, record, canRange, wanted, status, accel, subworkers,
                        phase, errors, supervisor >>
        /\ phase = "group" /\ CancelLive /\ aborting' = TRUE
    BY <1>2 DEF Abort, Cancel, disk, step
  <2>2. Paired(subworkers, task')
    <3>1. task' = [i \in DOMAIN task |-> IF task[i].pc \in Live
                      THEN [task[i] EXCEPT !.pc = "cancelled"] ELSE task[i]]
      BY <2>1 DEF CancelLive
    <3>2. task \in Seq(TaskType) /\ DOMAIN task = 1 .. Len(task) /\ Len(task) \in Nat
      OBVIOUS
    <3>3. ASSUME NEW i \in DOMAIN task
          PROVE  task'[i] \in TaskType /\ task'[i].mode = task[i].mode
      <4>1. task[i] \in TaskType
        BY <3>2
      <4> QED BY <3>1, <4>1 DEF TaskType, Pcs
    <3>4. DOMAIN task' = DOMAIN task /\ task' \in Seq(TaskType)
      BY <3>1, <3>2, <3>3
    <3>5. Paired(subworkers, task)
      BY <2>1
    <3> QED BY <3>3, <3>4, <3>5 DEF Paired
  <2>3. task' \in Seq(TaskType)
    BY <2>2 DEF Paired
  <2>4. faults' \in Nat
    BY <1>2 DEF Abort, Cancel, Fault
  <2>5. cancelled' = cancelled \/ cancelled' = TRUE
    BY <1>2 DEF Abort, Cancel
  <2>6. cancelled' \in BOOLEAN
    BY <2>5
  <2> QED BY <2>1, <2>2, <2>3, <2>4, <2>6
<1>3. CASE GroupCompleted \/ GroupCancelled \/ GroupFailed
  <2>1. /\ UNCHANGED << good, size, record, canRange, wanted, accel, subworkers, task,
                        errors, aborting, cancelled, supervisor, faults >>
        /\ status' \in Statuses /\ phase = "group"
        /\ phase' \in {"completing", "pausing", "failing"}
    BY <1>3 DEF GroupCompleted, GroupCancelled, GroupFailed, GroupEnded, disk, step,
                group, Statuses
  <2> QED BY <2>1 DEF Phases
<1>4. CASE FallBack
  <2> DEFINE subs == BuildSubworkers(FileSize, FALSE, wanted)
  <2>1. /\ phase = "group" /\ phase' \in {"falling_back", "failing"} /\ canRange' = FALSE
        /\ subworkers' = subs /\ task' = << >>
        /\ Truncated(0) \/ UNCHANGED << good, size >>
        /\ UNCHANGED << wanted, status, aborting, cancelled, supervisor >>
        /\ record' = record \/ record' = << >>
        /\ accel' \in {"idle", "measuring", "stopped"}
        /\ errors' = errors \/ errors' = {"ftruncate"}
        /\ faults' \in Nat
    BY <1>4 DEF FallBack, MustFallBack, GroupEnded, DeleteRecord, disk, Fault, ClockReset
  <2>2. wanted \in Nat \ {0}
    BY <2>1
  <2>3. subs \in Seq(SubworkerType) /\ Sound(subs)
    BY <2>2, BuildSubworkersFresh DEF Fresh
  <2> HIDE DEF subs
  <2>4. good' \in SUBSET Nat /\ size' \in Nat
    BY <2>1, TruncatedDisk
  <2>5. record' \in Seq(EntryType) /\ Sound(record') /\ task' \in Seq(TaskType)
    BY <2>1, EmptyLists
  <2>6. TypeOK'
    BY <2>1, <2>3, <2>4, <2>5 DEF Phases, EnvKinds
  <2> QED BY <2>1, <2>2, <2>3, <2>5, <2>6
<1>5. CASE Settle
  <2>1. /\ UNCHANGED << good, size, canRange, wanted, status, accel, subworkers, faults >>
        /\ record' = record \/ record' = << >>
        /\ phase # "none" /\ phase' \in {"idle", "finished"}
        /\ supervisor' = "off" /\ task' = << >> /\ errors' = {}
        /\ aborting' = FALSE /\ cancelled' = FALSE
    BY <1>5 DEF Settle, DeleteRecord, step
  <2>2. record' \in Seq(EntryType) /\ Sound(record') /\ task' \in Seq(TaskType)
    BY <2>1, EmptyLists
  <2> QED BY <2>1, <2>2 DEF Phases
<1>6. CASE Kill \/ KillOpeningRecord \/ KillInFallBack
  <2>1. Lose /\ faults' \in Nat /\ (record' = record \/ record' = << >>)
    BY <1>6 DEF Kill, KillOpeningRecord, KillInFallBack, disk, Fault
  <2>2. good' \in SUBSET Nat /\ size' \in Nat
    <3>1. CASE UNCHANGED << good, size >>
      BY <3>1
    <3>2. CASE Truncated(0)
      BY <3>2, TruncatedDisk
    <3> QED BY <1>6, <3>1, <3>2 DEF Kill, KillOpeningRecord, KillInFallBack, disk
  <2>3. /\ record' \in Seq(EntryType) /\ Sound(record')
        /\ subworkers' \in Seq(SubworkerType) /\ Sound(subworkers')
        /\ task' \in Seq(TaskType)
    BY <2>1, EmptyLists DEF Lose
  <2>4. TypeOK'
    BY <2>1, <2>2, <2>3 DEF Lose, Phases, Statuses
  <2> QED BY <2>1, <2>3, <2>4 DEF Lose
<1> QED BY <1>1, <1>2, <1>3, <1>4, <1>5, <1>6

(* WellFormed is inductive.                                                *)
LEMMA WellFormedNext ==
    ASSUME WellFormed, [Next]_vars
    PROVE  WellFormed'
<1>1. CASE UNCHANGED vars
  BY <1>1 DEF vars, disk, step, group, WellFormed, TypeOK
<1>2. ASSUME NEW n \in Counts, NEW r \in Ranged, Create(n, r)
      PROVE  WellFormed'
  <2>1. n \in Nat \ {0} /\ r \in BOOLEAN
    BY HttpStepAssumption
  <2>2. /\ phase = "none" /\ phase' = "idle" /\ canRange' = r /\ wanted' = n
        /\ status' = "RUNNING" /\ accel' = "idle"
        /\ UNCHANGED << good, size, record, subworkers, task, errors, aborting, cancelled,
                        supervisor, faults >>
    BY <1>2 DEF Create, disk, group
  <2>3. AllRanges(subworkers')
    BY <2>2, EmptyLists DEF WellFormed
  <2>4. TypeOK'
    BY <2>1, <2>2 DEF WellFormed, TypeOK, Phases, Statuses
  <2> QED BY <2>1, <2>2, <2>3, <2>4 DEF WellFormed
<1>3. ASSUME NEW n \in Counts, SetOptions(n)
      PROVE  WellFormed'
  <2>1. n \in Nat \ {0}
    BY HttpStepAssumption
  <2> QED BY <1>3, <2>1 DEF SetOptions, disk, group, WellFormed, TypeOK
<1>4. CASE \E i \in DOMAIN task : SubworkerStep(i)
  BY <1>4, SubworkerStepWellFormed
<1>5. CASE \/ RunFresh \/ RunRestored \/ RestoreSplit \/ RestoreDone \/ Relaunch
  BY <1>5, StartWellFormed
<1>6. CASE Supervise
  BY <1>6, SuperviseWellFormed
<1>7. CASE \/ SuperviseFails \/ Abort \/ Cancel
           \/ GroupCompleted \/ GroupCancelled \/ GroupFailed \/ FallBack \/ Settle
           \/ Kill \/ KillOpeningRecord \/ KillInFallBack
  BY <1>7, EndWellFormed
<1>8. CASE Finished
  BY <1>1, <1>8 DEF Finished
<1> QED BY <1>1, <1>2, <1>3, <1>4, <1>5, <1>6, <1>7, <1>8 DEF Next

(* Every reachable state is well formed.                                   *)
THEOREM WellFormedAlways == Spec => []WellFormed
<1>1. WellFormed /\ [Next]_vars => WellFormed'
  BY WellFormedNext
<1> QED BY WellFormedInit, <1>1, PTL DEF Spec

(* Type correctness.  In particular a subworker without an end never       *)
(* reaches the record, whose entries are packed as unsigned integers.      *)
THEOREM TypeCorrect == Spec => []TypeOK
<1>1. WellFormed => TypeOK
  BY DEF WellFormed
<1> QED BY WellFormedAlways, <1>1, PTL
-----------------------------------------------------------------------------
(* The record never runs ahead of the data.                                *)

LEMMA OnDiskMore ==
    ASSUME NEW subs, NEW b, NEW c, OnDisk(subs, b), b \subseteq c
    PROVE  OnDisk(subs, c)
  BY DEF OnDisk

LEMMA NothingReceived ==
    ASSUME NEW sw \in SubworkerType, sw.receivedBytes = 0
    PROVE  Received(sw) = {}
  BY DEF Received, Position, SubworkerType

LEMMA FreshOnDisk ==
    ASSUME NEW subs, Fresh(subs), NEW b
    PROVE  OnDisk(subs, b)
<1>1. ASSUME NEW i \in DOMAIN subs
      PROVE  Received(subs[i]) = {}
  <2>1. subs[i] \in SubworkerType /\ subs[i].receivedBytes = 0
    BY DEF Fresh
  <2> QED BY <2>1, NothingReceived
<1> QED BY <1>1 DEF OnDisk

LEMMA GrowsOnDisk ==
    ASSUME NEW old \in Seq(SubworkerType), NEW new, Grows(old, new),
           NEW b, OnDisk(old, b)
    PROVE  OnDisk(new, b)
<1>1. /\ new \in Seq(SubworkerType) /\ Len(old) \in Nat /\ Len(new) \in Nat
      /\ DOMAIN new = 1 .. Len(new) /\ DOMAIN old = 1 .. Len(old)
  BY DEF Grows
<1>2. ASSUME NEW j \in DOMAIN new
      PROVE  Received(new[j]) \subseteq b
  <2>1. CASE j \in 1 .. Len(old)
    <3>1. Received(new[j]) = Received(old[j])
      BY <2>1 DEF Grows, Received, Position
    <3> QED BY <1>1, <2>1, <3>1 DEF OnDisk
  <2>2. CASE j \notin 1 .. Len(old)
    <3>1. j \in Len(old) + 1 .. Len(new)
      BY <1>1, <2>2
    <3>2. new[j] \in SubworkerType /\ new[j].receivedBytes = 0
      BY <1>1, <3>1 DEF Grows
    <3> QED BY <3>2, NothingReceived
  <2> QED BY <2>1, <2>2
<1> QED BY <1>2 DEF OnDisk

(* Subworker i received more, or counts less than before.                  *)
LEMMA ReceivedOnDisk ==
    ASSUME NEW subs \in Seq(SubworkerType), NEW i \in DOMAIN subs, NEW r \in Nat,
           NEW b, NEW c, OnDisk(subs, b), b \subseteq c,
           \A x \in Position(subs[i]) .. subs[i].start + r - 1 : x \in c
    PROVE  OnDisk([subs EXCEPT ![i].receivedBytes = r], c)
<1> DEFINE new == [subs EXCEPT ![i].receivedBytes = r]
<1>1. subs[i] \in SubworkerType
  OBVIOUS
<1>2. new[i].start = subs[i].start /\ new[i].receivedBytes = r
  BY <1>1 DEF SubworkerType
<1>3. \A j \in DOMAIN subs : j # i => new[j] = subs[j]
  OBVIOUS
<1>4. DOMAIN new = DOMAIN subs
  OBVIOUS
<1> HIDE DEF new
<1>5. Received(new[i]) \subseteq c
  <2>1. SUFFICES ASSUME NEW x \in Received(new[i]) PROVE x \in c
    OBVIOUS
  <2>2. x \in subs[i].start .. subs[i].start + r - 1
    BY <1>1, <1>2 DEF Received, Position, SubworkerType
  <2>3. CASE x < Position(subs[i])
    <3>1. x \in Received(subs[i])
      BY <1>1, <2>2, <2>3 DEF Received, Position, SubworkerType
    <3> QED BY <3>1 DEF OnDisk
  <2>4. CASE ~ (x < Position(subs[i]))
    <3>1. x \in Position(subs[i]) .. subs[i].start + r - 1
      BY <1>1, <2>2, <2>4 DEF Position, SubworkerType
    <3> QED BY <3>1
  <2> QED BY <2>3, <2>4
<1>6. ASSUME NEW j \in DOMAIN subs, j # i
      PROVE  Received(new[j]) \subseteq c
  BY <1>3, <1>6 DEF OnDisk
<1>7. OnDisk(new, c)
  BY <1>4, <1>5, <1>6 DEF OnDisk
<1> QED BY <1>7 DEF new

(* A single stream is never split.                                         *)
LEMMA SingleStreamKept ==
    ASSUME NEW subs \in Seq(SubworkerType), SingleStream(subs)
    PROVE  Reassign(subs) = subs
<1>1. ASSUME NEW i \in DOMAIN subs, NEW least \in Nat
      PROVE  ~ (Remaining(subs[i]) >= MaxOf(2, least))
  <2>1. i = 1 /\ subs[1] \in SubworkerType
    BY DEF SingleStream
  <2> QED BY <2>1 DEF SingleStream, Remaining, Position, SubworkerType, MaxOf, NOT_SUPPORTED
<1> QED BY <1>1, HttpStepAssumption DEF Reassign, Reassigned, SplitSlowest

(* The disk writes what it is given, the .ghd file can be deleted while it *)
(* is open, and the process does not die between the two statements that   *)
(* empty the file and delete the record.                                   *)
OrderlyDisk == Env \cap {"short", "locked", "kill_fallback"} = {}

LEMMA ClaimsInit == Init => ClaimsOnDisk
  BY DEF Init, ClaimsOnDisk, RecordOnDisk, OnDisk

(* Neither the disk nor the lists change, and no run starts.               *)
LEMMA ClaimsFrame ==
    ASSUME ClaimsOnDisk, UNCHANGED good,
           record' = record \/ record' = << >>,
           subworkers' = subworkers \/ subworkers' = << >> \/ subworkers' = record,
           \/ phase' \notin {"group", "falling_back"}
           \/ UNCHANGED << phase, canRange, subworkers >>
    PROVE  ClaimsOnDisk'
<1>1. OnDisk(record', good') /\ OnDisk(subworkers', good')
  BY DEF ClaimsOnDisk, RecordOnDisk, OnDisk
<1>2. phase' \in {"group", "falling_back"} /\ ~ canRange' =>
          record' = << >> /\ SingleStream(subworkers')
  BY DEF ClaimsOnDisk
<1> QED BY <1>1, <1>2 DEF ClaimsOnDisk, RecordOnDisk

LEMMA RunFreshClaims ==
    ASSUME OrderlyDisk, WellFormed, RunFresh
    PROVE  ClaimsOnDisk'
<1> DEFINE subs == BuildSubworkers(FileSize, canRange, wanted)
<1>1. /\ record' = << >> /\ UNCHANGED canRange /\ subworkers' = subs
      /\ canRange \in BOOLEAN /\ wanted \in Nat \ {0}
  BY DEF RunFresh, DeleteRecord, OrderlyDisk, Launch, WellFormed, TypeOK
<1>2. Fresh(subs) /\ (~ canRange => subs = << Subworker(0, NOT_SUPPORTED) >>)
  BY <1>1, BuildSubworkersFresh
<1>3. ~ canRange => SingleStream(subs)
  BY <1>2 DEF SingleStream, Subworker
<1> HIDE DEF subs
<1>4. OnDisk(record', good') /\ OnDisk(subworkers', good')
  <2>1. OnDisk(subs, good')
    BY <1>2, FreshOnDisk
  <2> QED BY <1>1, <2>1 DEF OnDisk
<1> QED BY <1>1, <1>3, <1>4 DEF ClaimsOnDisk, RecordOnDisk

LEMMA StartClaims ==
    ASSUME OrderlyDisk, WellFormed, ClaimsOnDisk,
           \/ RunFresh \/ RunRestored \/ RestoreSplit \/ RestoreDone \/ Relaunch
    PROVE  ClaimsOnDisk'
<1>1. CASE RunFresh
  BY <1>1, RunFreshClaims
<1>2. CASE RunRestored
  <2>1. /\ UNCHANGED << good, record >> /\ subworkers' = record
        /\ phase' \notin {"group", "falling_back"}
    BY <1>2 DEF RunRestored, disk
  <2> QED BY <2>1, ClaimsFrame
<1>3. CASE RestoreSplit
  <2> DEFINE new == SplitSlowest(subworkers, 2)
  <2>1. /\ subworkers' = new /\ UNCHANGED << good, record >>
        /\ phase' \notin {"group", "falling_back"}
    BY <1>3 DEF RestoreSplit, disk
  <2>2. Grows(subworkers, new)
    BY SplitSlowestGrows DEF WellFormed, TypeOK
  <2> HIDE DEF new
  <2>3. OnDisk(new, good)
    BY <2>2, GrowsOnDisk DEF WellFormed, TypeOK, ClaimsOnDisk
  <2> QED BY <2>1, <2>3 DEF ClaimsOnDisk, RecordOnDisk
<1>4. CASE RestoreDone \/ Relaunch
  <2>1. /\ UNCHANGED << good, record, canRange, subworkers >>
        /\ phase = "restoring" \/ phase = "falling_back"
    BY <1>4 DEF RestoreDone, Relaunch, Launch, disk, step
  <2>2. ~ canRange' => record' = << >> /\ SingleStream(subworkers')
    BY <2>1 DEF ClaimsOnDisk, WellFormed
  <2>3. OnDisk(record', good') /\ OnDisk(subworkers', good')
    BY <2>1 DEF ClaimsOnDisk, RecordOnDisk
  <2> QED BY <2>2, <2>3 DEF ClaimsOnDisk, RecordOnDisk
<1> QED BY <1>1, <1>2, <1>3, <1>4

LEMMA SuperviseClaims ==
    ASSUME WellFormed, ClaimsOnDisk, Supervise
    PROVE  ClaimsOnDisk'
<1>1. /\ phase = "group" /\ UNCHANGED << good, canRange, phase >>
      /\ subworkers \in Seq(SubworkerType)
      /\ Sound(subworkers)
  BY DEF Supervise, WellFormed, TypeOK
<1>2. OnDisk(record', good)
  BY DEF Supervise, ClaimsOnDisk, RecordOnDisk
<1>3. Grows(subworkers, subworkers')
  BY <1>1, GrowsRefl, ReassignedGrows, FourSplitsGrow DEF Supervise, Reassign
<1>4. OnDisk(subworkers', good)
  BY <1>1, <1>3, GrowsOnDisk DEF ClaimsOnDisk
<1>5. CASE ~ canRange
  <2>1. record = << >> /\ SingleStream(subworkers)
    BY <1>1, <1>5 DEF ClaimsOnDisk
  <2>2. Reassign(subworkers) = subworkers
    BY <1>1, <2>1, SingleStreamKept
  <2>3. subworkers' = subworkers
    BY <2>2 DEF Supervise
  <2>4. record' = << >>
    BY <1>5, <2>1 DEF Supervise
  <2> QED BY <1>1, <1>2, <1>4, <2>1, <2>3, <2>4 DEF ClaimsOnDisk, RecordOnDisk
<1>6. CASE canRange
  BY <1>1, <1>2, <1>4, <1>6 DEF ClaimsOnDisk, RecordOnDisk
<1> QED BY <1>5, <1>6 DEF WellFormed, TypeOK

LEMMA EndClaims ==
    ASSUME OrderlyDisk, WellFormed, ClaimsOnDisk,
           \/ SuperviseFails \/ Abort \/ Cancel
           \/ GroupCompleted \/ GroupCancelled \/ GroupFailed \/ FallBack \/ Settle
           \/ Kill \/ KillOpeningRecord \/ KillInFallBack
    PROVE  ClaimsOnDisk'
<1>1. CASE SuperviseFails \/ Abort \/ Cancel
  <2>1. /\ UNCHANGED << good, phase, canRange, subworkers >>
        /\ record' = record \/ record' = << >>
    BY <1>1 DEF SuperviseFails, Abort, Cancel, disk, step
  <2> QED BY <2>1, ClaimsFrame
<1>2. CASE GroupCompleted \/ GroupCancelled \/ GroupFailed \/ Settle
  <2>1. /\ UNCHANGED << good, subworkers >>
        /\ record' = record \/ record' = << >>
        /\ phase' \notin {"group", "falling_back"}
    BY <1>2 DEF GroupCompleted, GroupCancelled, GroupFailed, Settle, DeleteRecord, disk
  <2> QED BY <2>1, ClaimsFrame
<1>3. CASE Kill \/ KillOpeningRecord
  <2>1. /\ UNCHANGED good /\ subworkers' = << >>
        /\ record' = record \/ record' = << >>
        /\ phase' \notin {"group", "falling_back"}
    BY <1>3 DEF Kill, KillOpeningRecord, Lose, disk
  <2> QED BY <2>1, ClaimsFrame
<1>4. CASE KillInFallBack
  BY <1>4 DEF KillInFallBack, Fault, OrderlyDisk
<1>5. CASE FallBack
  <2> DEFINE subs == BuildSubworkers(FileSize, FALSE, wanted)
  <2>1. /\ subworkers' = subs /\ phase = "group"
        /\ \/ record' = << >>
           \/ UNCHANGED << good, record >> /\ phase' = "failing"
    BY <1>5 DEF FallBack, MustFallBack, GroupEnded, DeleteRecord, OrderlyDisk, disk
  <2>2. wanted \in Nat \ {0}
    BY <2>1 DEF WellFormed, TypeOK
  <2>3. Fresh(subs) /\ subs = << Subworker(0, NOT_SUPPORTED) >>
    BY <2>2, BuildSubworkersFresh
  <2>4. SingleStream(<< Subworker(0, NOT_SUPPORTED) >>)
    BY DEF SingleStream, Subworker
  <2> HIDE DEF subs
  <2>5. OnDisk(subs, good')
    BY <2>3, FreshOnDisk
  <2> QED BY <2>1, <2>3, <2>4, <2>5 DEF ClaimsOnDisk, RecordOnDisk, OnDisk
<1> QED BY <1>1, <1>2, <1>3, <1>4, <1>5

LEMMA SubworkerStepClaims ==
    ASSUME OrderlyDisk, WellFormed, ClaimsOnDisk, NEW i \in DOMAIN task, SubworkerStep(i)
    PROVE  ClaimsOnDisk'
<1>0. phase = "group" /\ Steady
  BY DEF SubworkerStep, Start, Retry, ReplyOk, ReplyUnsatisfiable, ReplyPermanent,
         ReplyFull, TransientError, Chunk, WriteFatal, Resume, StreamEnd, Raise, At
<1>1. /\ subworkers \in Seq(SubworkerType)
      /\ Sound(subworkers)
      /\ Paired(subworkers, task)
      /\ canRange => AllRanges(subworkers)
      /\ i \in DOMAIN subworkers
      /\ good \in SUBSET Nat
      /\ canRange \in BOOLEAN
  BY <1>0 DEF WellFormed, TypeOK, Paired
<1>2. /\ OnDisk(record, good)
      /\ OnDisk(subworkers, good)
      /\ ~ canRange => record = << >> /\ SingleStream(subworkers)
  BY <1>0 DEF ClaimsOnDisk, RecordOnDisk
<1>3. UNCHANGED << record, canRange, phase >>
  BY <1>0 DEF Steady, step
<1>4. subworkers[i] \in SubworkerType /\ task[i] \in TaskType
  BY <1>1 DEF Paired
<1>5. subworkers[i].end = NOT_SUPPORTED => i = 1 /\ ~ canRange
  BY <1>1, <1>2 DEF AllRanges, SingleStream
(* A list `subs` with its claims on the disk stays so when i finishes.     *)
<1>6. ASSUME NEW subs \in Seq(SubworkerType), Sound(subs), OnDisk(subs, good),
             canRange, Finish(i, subs), UNCHANGED good
      PROVE  ClaimsOnDisk'
  <2>1. Grows(subs, subworkers')
    BY <1>6, ReassignedGrows DEF Finish
  <2>2. OnDisk(subworkers', good)
    BY <1>6, <2>1, GrowsOnDisk
  <2> QED BY <1>2, <1>3, <1>6, <2>2 DEF ClaimsOnDisk, RecordOnDisk
<1>7. ASSUME UNCHANGED subworkers, good \subseteq good'
      PROVE  ClaimsOnDisk'
  <2>1. OnDisk(record, good') /\ OnDisk(subworkers, good')
    BY <1>2, <1>7, OnDiskMore
  <2> QED BY <1>2, <1>3, <1>7, <2>1 DEF ClaimsOnDisk, RecordOnDisk
(* A single stream starts over: there is no record to disagree with.       *)
<1>8. ASSUME NEW r \in Nat, subworkers[i].end = NOT_SUPPORTED,
             subworkers' = [subworkers EXCEPT ![i].receivedBytes = r],
             \A x \in 0 .. r - 1 : x \in good'
      PROVE  ClaimsOnDisk'
  <2>1. i = 1 /\ record = << >> /\ SingleStream(subworkers) /\ DOMAIN subworkers = {1}
    BY <1>1, <1>2, <1>5, <1>8 DEF SingleStream
  <2>2. /\ Len(subworkers') = 1 /\ DOMAIN subworkers' = {1}
        /\ subworkers'[1] = [subworkers[1] EXCEPT !.receivedBytes = r]
    BY <1>1, <1>8, <2>1 DEF SingleStream
  <2>3. /\ subworkers'[1].start = 0 /\ subworkers'[1].end = NOT_SUPPORTED
        /\ subworkers'[1].receivedBytes = r
    BY <1>4, <2>1, <2>2 DEF SingleStream, SubworkerType
  <2>4. OnDisk(subworkers', good')
    BY <1>8, <2>2, <2>3 DEF OnDisk, Received, Position
  <2>5. OnDisk(record', good')
    BY <1>3, <2>1 DEF OnDisk
  <2> QED BY <1>3, <2>1, <2>2, <2>3, <2>4, <2>5 DEF ClaimsOnDisk, RecordOnDisk, SingleStream
<1>9. ASSUME NEW mode \in Modes, LoopTop(i, mode),
             mode = "range" => subworkers[i].end # NOT_SUPPORTED,
             mode = "single" => subworkers[i].end = NOT_SUPPORTED
      PROVE  ClaimsOnDisk'
  <2>1. CASE mode = "range" /\ Finish(i, subworkers) /\ UNCHANGED good
    <3>1. canRange
      BY <1>2, <1>1, <1>9, <2>1 DEF SingleStream
    <3> QED BY <1>1, <1>2, <1>6, <2>1, <3>1
  <2>2. CASE /\ mode = "single"
             /\ subworkers' = [subworkers EXCEPT ![i].receivedBytes = 0]
    <3>1. 0 \in Nat /\ \A x \in 0 .. 0 - 1 : x \in good'
      OBVIOUS
    <3> QED BY <1>8, <1>9, <2>2, <3>1
  <2>3. CASE UNCHANGED << good, subworkers >>
    BY <1>7, <2>3
  <2> QED BY <1>9, <2>1, <2>2, <2>3 DEF LoopTop
<1>10. CASE Start(i)
  <2>1. /\ ModeOf(subworkers[i]) \in Modes
        /\ ModeOf(subworkers[i]) = "range" => subworkers[i].end # NOT_SUPPORTED
        /\ ModeOf(subworkers[i]) = "single" => subworkers[i].end = NOT_SUPPORTED
    BY DEF ModeOf, Modes
  <2> QED BY <1>9, <1>10, <2>1 DEF Start
<1>11. CASE Retry(i)
  <2>1. /\ task[i].mode \in Modes
        /\ task[i].mode = "range" => subworkers[i].end # NOT_SUPPORTED
        /\ task[i].mode = "single" => subworkers[i].end = NOT_SUPPORTED
    BY <1>1, <1>4 DEF Paired, TaskType
  <2> QED BY <1>9, <1>11, <2>1 DEF Retry
<1>12. CASE \/ ReplyOk(i) \/ ReplyUnsatisfiable(i) \/ TransientError(i)
            \/ ReplyPermanent(i) \/ ReplyFull(i) \/ WriteFatal(i)
  <2>1. UNCHANGED << good, subworkers >>
    BY <1>12 DEF ReplyOk, ReplyUnsatisfiable, TransientError, ReplyPermanent, ReplyFull,
                 WriteFatal, Raise
  <2> QED BY <1>7, <2>1
<1>13. ASSUME NEW n \in ChunkSizes, Chunk(i, n)
       PROVE  ClaimsOnDisk'
  <2> DEFINE k == Accepted(i, n)
             offset == Position(subworkers[i])
             r == subworkers[i].receivedBytes + k
  <2>1. Written(offset, k) /\ subworkers' = [subworkers EXCEPT ![i].receivedBytes = r]
    BY <1>13 DEF Chunk, Fault, OrderlyDisk
  <2>2. /\ k \in Int /\ r \in Nat
        /\ offset = subworkers[i].start + subworkers[i].receivedBytes
        /\ offset \in Nat
    <3>1. offset <= task[i].last
      BY <1>13 DEF Chunk
    <3> QED BY <1>0, <1>4, <3>1, AcceptedBounds DEF Position, SubworkerType
  <2> HIDE DEF k, offset
  <2>3. good \subseteq good' /\ \A x \in offset .. offset + k - 1 : x \in good'
    BY <2>1 DEF Written
  <2>4. offset + k - 1 = subworkers[i].start + r - 1
    BY <1>4, <2>2 DEF SubworkerType
  <2>5. \A x \in offset .. subworkers[i].start + r - 1 : x \in good'
    BY <2>3, <2>4
  <2> HIDE DEF r
  <2>6. OnDisk([subworkers EXCEPT ![i].receivedBytes = r], good')
    BY <1>1, <1>2, <2>2, <2>3, <2>5, ReceivedOnDisk DEF offset
  <2>7. subworkers[i].end = NOT_SUPPORTED \/ canRange
    BY <1>1, <1>2 DEF SingleStream
  <2>8. ~ canRange => SingleStream(subworkers')
    <3>1. SUFFICES ASSUME ~ canRange PROVE SingleStream(subworkers')
      OBVIOUS
    <3>2. SingleStream(subworkers)
      BY <1>2, <3>1
    <3>3. i = 1 /\ Len(subworkers') = 1
      BY <1>1, <2>1, <3>2 DEF SingleStream
    <3>4. subworkers'[1] = [subworkers[1] EXCEPT !.receivedBytes = r]
      BY <1>1, <2>1, <3>3
    <3>5. subworkers'[1].start = 0 /\ subworkers'[1].end = NOT_SUPPORTED
      BY <1>4, <3>2, <3>3, <3>4 DEF SingleStream, SubworkerType
    <3> QED BY <3>3, <3>5 DEF SingleStream
  <2>9. OnDisk(record, good')
    BY <1>2, <2>3, OnDiskMore
  <2> QED BY <1>2, <1>3, <2>1, <2>6, <2>8, <2>9 DEF ClaimsOnDisk, RecordOnDisk
<1>14. CASE Resume(i)
  <2>1. UNCHANGED good
    BY <1>14 DEF Resume
  <2>2. CASE task[i].mode = "range" /\ Complete(subworkers[i])
    <3> DEFINE whole == subworkers[i].end - subworkers[i].start + 1
               new == [subworkers EXCEPT ![i].receivedBytes = whole]
    <3>1. canRange /\ subworkers[i].end # NOT_SUPPORTED
      BY <1>1, <1>2, <2>2 DEF Paired, SingleStream
    <3>2. whole \in Nat /\ Position(subworkers[i]) > subworkers[i].end
      <4>1. subworkers[i].start <= subworkers[i].end
        BY <1>1, <3>1 DEF Sound
      <4> QED BY <1>4, <2>2, <3>1, <4>1 DEF SubworkerType, Complete
    <3>3. Finish(i, new)
      BY <1>14, <2>2 DEF Resume
    <3>4. \A x \in Position(subworkers[i]) .. subworkers[i].start + whole - 1 : x \in good
      BY <1>4, <3>1, <3>2 DEF Position, SubworkerType
    <3> HIDE DEF whole
    <3>5. OnDisk(new, good)
      BY <1>1, <1>2, <3>2, <3>4, ReceivedOnDisk
    <3>6. new \in Seq(SubworkerType) /\ Sound(new)
      BY <1>1, <3>2, ReceivedSet
    <3> HIDE DEF new
    <3> QED BY <1>6, <2>1, <3>1, <3>3, <3>5, <3>6
  <2>3. CASE UNCHANGED subworkers
    BY <1>7, <2>1, <2>3
  <2> QED BY <1>14, <2>2, <2>3 DEF Resume
<1>15. CASE StreamEnd(i)
  <2>1. CASE task[i].mode = "range" /\ LoopTop(i, "range")
    <3>1. "range" \in Modes /\ subworkers[i].end # NOT_SUPPORTED /\ "range" # "single"
      BY <1>1, <2>1 DEF Modes, Paired
    <3> QED BY <1>9, <2>1, <3>1
  <2>2. CASE UNCHANGED << good, subworkers >>
    BY <1>7, <2>2
  <2>3. CASE /\ task[i].mode = "single"
             /\ Truncated(subworkers[i].receivedBytes)
             /\ UNCHANGED subworkers
    <3> DEFINE r == subworkers[i].receivedBytes
    <3>1. /\ subworkers[i].end = NOT_SUPPORTED /\ r \in Nat
          /\ subworkers[i].start = 0
      BY <1>1, <1>2, <1>4, <1>5, <2>3 DEF Paired, SingleStream, SubworkerType
    <3>2. subworkers' = [subworkers EXCEPT ![i].receivedBytes = r]
      BY <1>1, <1>4, <2>3 DEF SubworkerType
    <3>3. ASSUME NEW x \in 0 .. r - 1
          PROVE  x \in good'
      <4>1. x \in Received(subworkers[i])
        BY <3>1 DEF Received, Position
      <4>2. x \in good
        BY <1>1, <1>2, <4>1 DEF OnDisk
      <4> QED BY <2>3, <4>2 DEF Truncated
    <3> QED BY <1>8, <3>1, <3>2, <3>3
  <2> QED BY <1>15, <2>1, <2>2, <2>3 DEF StreamEnd
<1> QED BY <1>10, <1>11, <1>12, <1>13, <1>14, <1>15 DEF SubworkerStep

LEMMA ClaimsNext ==
    ASSUME OrderlyDisk, WellFormed, ClaimsOnDisk, [Next]_vars
    PROVE  ClaimsOnDisk'
<1>1. ASSUME UNCHANGED << good, record, subworkers >>,
             UNCHANGED << phase, canRange >> \/ phase' = "idle"
      PROVE  ClaimsOnDisk'
  BY <1>1, ClaimsFrame
<1>2. CASE UNCHANGED vars
  BY <1>1, <1>2 DEF vars, disk, step
<1>3. CASE \E n \in Counts, r \in Ranged : Create(n, r)
  BY <1>1, <1>3 DEF Create, disk
<1>4. CASE \E n \in Counts : SetOptions(n)
  BY <1>1, <1>4 DEF SetOptions, disk
<1>5. CASE \E i \in DOMAIN task : SubworkerStep(i)
  BY <1>5, SubworkerStepClaims
<1>6. CASE \/ RunFresh \/ RunRestored \/ RestoreSplit \/ RestoreDone \/ Relaunch
  BY <1>6, StartClaims
<1>7. CASE Supervise
  BY <1>7, SuperviseClaims
<1>8. CASE \/ SuperviseFails \/ Abort \/ Cancel
           \/ GroupCompleted \/ GroupCancelled \/ GroupFailed \/ FallBack \/ Settle
           \/ Kill \/ KillOpeningRecord \/ KillInFallBack
  BY <1>8, EndClaims
<1>9. CASE Finished
  BY <1>2, <1>9 DEF Finished
<1> QED BY <1>2, <1>3, <1>4, <1>5, <1>6, <1>7, <1>8, <1>9 DEF Next

(* On an orderly disk the record is never ahead of the data: whatever was  *)
(* interrupted and whenever, resuming skips no byte that is missing.       *)
THEOREM RecordNeverAhead ==
    ASSUME OrderlyDisk
    PROVE  Spec => []RecordOnDisk
<1>1. WellFormed /\ ClaimsOnDisk /\ [Next]_vars => ClaimsOnDisk'
  BY ClaimsNext
<1>2. ClaimsOnDisk => RecordOnDisk
  BY DEF ClaimsOnDisk
<1> QED BY WellFormedAlways, ClaimsInit, <1>1, <1>2, PTL DEF Spec
=============================================================================
