----------------------------- MODULE TransferProofs -----------------------------
(***************************************************************************)
(* Recorded progress is kept, ranges do not overlap, and HttpStep with its *)
(* files implements Transfer: proved for every file, every number of       *)
(* subworkers and every interleaving.                                      *)
(***************************************************************************)
EXTENDS HttpStepFilesProofs

-----------------------------------------------------------------------------
(***************************************************************************)
(* Resuming loses no recorded progress: proved for every file, every       *)
(* number of subworkers and every interleaving.                            *)
(*                                                                         *)
(* The argument.  In a run with ranges the subworkers have received all    *)
(* that the record says (Carried).  A subworker that asks for a range does *)
(* not go past its end (Fitted), so that what it has received never gets   *)
(* less when it is set to the size of the whole range.                     *)
(***************************************************************************)

(* What the subworkers of subs have received together.                     *)
Got(subs) == UNION {Received(subs[i]) : i \in DOMAIN subs}

Working == {"request", "stream", "limit", "backoff"}

(* No range is past its end; for 0 see ModeOf.                             *)
NotPast(subs) ==
    \A i \in DOMAIN subs :
        subs[i].end \notin {UNKNOWN, NOT_SUPPORTED} => Position(subs[i]) <= subs[i].end + 1

Fitted(subs, tasks) ==
    \A i \in DOMAIN subs :
        /\ tasks[i].mode = "range" => Position(subs[i]) <= subs[i].end + 1
        /\ tasks[i].mode = "unknown" => subs[i].end = UNKNOWN
        /\ tasks[i].pc \in Working => tasks[i].mode # "undecided"

Carried ==
    /\ NotPast(record)
    /\ phase = "falling_back" => ~ canRange
    /\ phase \in {"restoring", "group", "falling_back"} => NotPast(subworkers)
    /\ phase \in {"restoring", "group"} /\ canRange => Recorded \subseteq Got(subworkers)
    /\ phase = "group" => Fitted(subworkers, task)

-----------------------------------------------------------------------------
(* Lists that are split.                                                   *)

(* A range that is split ends where it has not yet been.                   *)
Narrows(old, new) ==
    /\ Grows(old, new)
    /\ \A j \in DOMAIN old :
          \/ new[j] = old[j]
          \/ /\ old[j].end # UNKNOWN
             /\ old[j].end # NOT_SUPPORTED
             /\ Position(new[j]) <= new[j].end + 1

LEMMA SplitAtNarrows ==
    ASSUME NEW subs \in Seq(SubworkerType), Sound(subs),
           NEW i \in DOMAIN subs, Remaining(subs[i]) >= 2
    PROVE  Narrows(subs, SplitAt(subs, i))
<1> DEFINE newEnd == Position(subs[i]) + Remaining(subs[i]) \div 2
                        + (Remaining(subs[i]) % 2) - 1
           kept   == [subs EXCEPT ![i].end = newEnd]
           newSw  == Subworker(newEnd + 1, subs[i].end)
<1>1. subs[i] \in SubworkerType
  OBVIOUS
<1>2. subs[i].end # UNKNOWN /\ subs[i].end # NOT_SUPPORTED
  BY <1>1 DEF Remaining, Position, SubworkerType, UNKNOWN, NOT_SUPPORTED
<1>3. SplitAt(subs, i) = Append(kept, newSw)
  BY DEF SplitAt
<1>4. newEnd \in Nat /\ Position(subs[i]) <= newEnd
  BY <1>1, SplitPoint
<1> HIDE DEF newEnd
<1>5. kept[i] = [subs[i] EXCEPT !.end = newEnd]
  OBVIOUS
<1>6. kept[i] \in SubworkerType
  BY <1>1, <1>4, <1>5 DEF SubworkerType
<1>7. kept \in Seq(SubworkerType) /\ Len(kept) = Len(subs)
  BY <1>6
<1> HIDE DEF kept, newSw
<1>8. Position(kept[i]) <= kept[i].end + 1
  BY <1>1, <1>4, <1>5 DEF SubworkerType, Position
<1>9. Append(kept, newSw)[i] = kept[i]
  BY <1>7
<1>10. \A j \in DOMAIN subs : j # i => SplitAt(subs, i)[j] = subs[j]
  BY SplitAtOthers
<1> QED BY <1>2, <1>3, <1>8, <1>9, <1>10, SplitAtGrows DEF Narrows

LEMMA SplitSlowestNarrows ==
    ASSUME NEW subs \in Seq(SubworkerType), Sound(subs), NEW least \in Nat
    PROVE  Narrows(subs, SplitSlowest(subs, least))
  BY SplitSlowestCases, SplitAtNarrows, GrowsRefl DEF Narrows

LEMMA ReassignNarrows ==
    ASSUME NEW subs \in Seq(SubworkerType), Sound(subs)
    PROVE  Narrows(subs, Reassign(subs))
  BY HttpStepAssumption, SplitSlowestNarrows, GrowsRefl DEF Reassign, Reassigned, Narrows

LEMMA NarrowsDomain ==
    ASSUME NEW a \in Seq(SubworkerType), NEW b, Narrows(a, b)
    PROVE  DOMAIN a \subseteq DOMAIN b
<1>1. b \in Seq(SubworkerType) /\ Len(a) <= Len(b) /\ Len(a) \in Nat /\ Len(b) \in Nat
  BY DEF Narrows, Grows
<1> QED BY <1>1

LEMMA NarrowsTrans ==
    ASSUME NEW a \in Seq(SubworkerType), NEW b, NEW c, Narrows(a, b), Narrows(b, c)
    PROVE  Narrows(a, c)
<1>1. Grows(a, c)
  BY GrowsTrans DEF Narrows
<1>2. DOMAIN a \subseteq DOMAIN b
  BY NarrowsDomain
<1> QED BY <1>1, <1>2 DEF Narrows

LEMMA FourNarrow ==
    ASSUME NEW subs \in Seq(SubworkerType), Sound(subs)
    PROVE  Narrows(subs, Reassign(Reassign(Reassign(Reassign(subs)))))
<1> DEFINE s1 == Reassign(subs)  s2 == Reassign(s1)  s3 == Reassign(s2)  s4 == Reassign(s3)
<1>1. Narrows(subs, s1) /\ s1 \in Seq(SubworkerType) /\ Sound(s1)
  BY ReassignNarrows DEF Narrows, Grows
<1> HIDE DEF s1
<1>2. Narrows(s1, s2) /\ s2 \in Seq(SubworkerType) /\ Sound(s2)
  BY <1>1, ReassignNarrows DEF Narrows, Grows
<1> HIDE DEF s2
<1>3. Narrows(s2, s3) /\ s3 \in Seq(SubworkerType) /\ Sound(s3)
  BY <1>2, ReassignNarrows DEF Narrows, Grows
<1> HIDE DEF s3
<1>4. Narrows(s3, s4)
  BY <1>3, ReassignNarrows
<1> HIDE DEF s4
<1>5. Narrows(subs, s2) /\ Narrows(subs, s3)
  BY <1>1, <1>2, <1>3, NarrowsTrans
<1>6. Narrows(subs, s4)
  BY <1>4, <1>5, NarrowsTrans
<1> QED BY <1>6 DEF s1, s2, s3, s4

(* What was received stays received, and no range is past its end.         *)
LEMMA NarrowsKeeps ==
    ASSUME NEW old \in Seq(SubworkerType), NEW new, Narrows(old, new), NotPast(old)
    PROVE  NotPast(new) /\ Got(old) \subseteq Got(new)
<1>1. /\ new \in Seq(SubworkerType) /\ Sound(new) /\ Len(old) \in Nat /\ Len(new) \in Nat
      /\ DOMAIN new = 1 .. Len(new) /\ DOMAIN old = 1 .. Len(old) /\ Len(old) <= Len(new)
  BY DEF Narrows, Grows
<1>2. ASSUME NEW j \in DOMAIN new, new[j].end \notin {UNKNOWN, NOT_SUPPORTED}
      PROVE  Position(new[j]) <= new[j].end + 1
  <2>1. CASE j \in DOMAIN old
    BY <1>2, <2>1 DEF Narrows, NotPast
  <2>2. CASE j \notin DOMAIN old
    <3>1. j \in Len(old) + 1 .. Len(new)
      BY <1>1, <2>2
    <3>2. new[j].receivedBytes = 0 /\ new[j].start <= new[j].end
      BY <1>1, <1>2, <3>1 DEF Narrows, Grows, Sound
    <3>3. new[j] \in SubworkerType
      BY <1>1
    <3> QED BY <3>2, <3>3 DEF Position, SubworkerType, NOT_SUPPORTED
  <2> QED BY <2>1, <2>2
<1>3. ASSUME NEW j \in DOMAIN old
      PROVE  j \in DOMAIN new /\ Received(new[j]) = Received(old[j])
  BY <1>1 DEF Narrows, Grows, Received, Position
<1> QED BY <1>2, <1>3 DEF NotPast, Got

LEMMA ExtendedFitted ==
    ASSUME NEW subs \in Seq(SubworkerType), NEW tasks, Paired(subs, tasks), Fitted(subs, tasks),
           NEW new, Narrows(subs, new), NEW t \in {NewTask, Orphan}
    PROVE  Fitted(new, Extended(tasks, new, t))
<1> DEFINE all == Extended(tasks, new, t)
<1>1. DOMAIN tasks = DOMAIN subs
      /\ \A j \in DOMAIN new : all[j] = IF j \in DOMAIN subs THEN tasks[j] ELSE t
  BY DEF Paired, Extended
<1> HIDE DEF all
<1>2. ASSUME NEW j \in DOMAIN new
      PROVE  /\ all[j].mode = "range" => Position(new[j]) <= new[j].end + 1
             /\ all[j].mode = "unknown" => new[j].end = UNKNOWN
             /\ all[j].pc \in Working => all[j].mode # "undecided"
  <2>1. CASE j \in DOMAIN subs
    BY <1>1, <2>1 DEF Fitted, Narrows
  <2>2. CASE j \notin DOMAIN subs
    <3>1. all[j] \in {NewTask, Orphan}
      BY <1>1, <2>2
    <3> QED BY <3>1, NewTaskLast DEF Working
  <2> QED BY <2>1, <2>2
<1> QED BY <1>2 DEF Fitted, all

(* Subworker i counts at least as much as before.                          *)
LEMMA MoreGot ==
    ASSUME NEW subs \in Seq(SubworkerType), NEW i \in DOMAIN subs, NEW r \in Nat,
           subs[i].receivedBytes <= r
    PROVE  Got(subs) \subseteq Got([subs EXCEPT ![i].receivedBytes = r])
<1> DEFINE new == [subs EXCEPT ![i].receivedBytes = r]
<1>1. subs[i] \in SubworkerType
  OBVIOUS
<1>2. /\ DOMAIN new = DOMAIN subs /\ new[i].start = subs[i].start /\ new[i].receivedBytes = r
      /\ \A j \in DOMAIN subs : j # i => new[j] = subs[j]
  BY <1>1 DEF SubworkerType
<1> HIDE DEF new
<1>3. Received(subs[i]) \subseteq Received(new[i])
  BY <1>1, <1>2 DEF Received, Position, SubworkerType
<1>4. \A j \in DOMAIN subs : Received(subs[j]) \subseteq Received(new[j])
  BY <1>2, <1>3
<1> QED BY <1>2, <1>4 DEF Got, new

LEMMA ReceivedNotPast ==
    ASSUME NEW subs \in Seq(SubworkerType), NotPast(subs), NEW i \in DOMAIN subs, NEW r \in Nat,
           subs[i].end \notin {UNKNOWN, NOT_SUPPORTED} => subs[i].start + r <= subs[i].end + 1
    PROVE  NotPast([subs EXCEPT ![i].receivedBytes = r])
<1> DEFINE new == [subs EXCEPT ![i].receivedBytes = r]
<1>1. subs[i] \in SubworkerType
  OBVIOUS
<1>2. /\ DOMAIN new = DOMAIN subs /\ new[i].start = subs[i].start /\ new[i].receivedBytes = r
      /\ new[i].end = subs[i].end
      /\ \A j \in DOMAIN subs : j # i => new[j] = subs[j]
  BY <1>1 DEF SubworkerType
<1> HIDE DEF new
<1>3. NotPast(new)
  BY <1>2 DEF NotPast, Position
<1> QED BY <1>3 DEF new

LEMMA ReceivedFitted ==
    ASSUME NEW subs \in Seq(SubworkerType), NEW tasks, Fitted(subs, tasks),
           NEW i \in DOMAIN subs, NEW r \in Nat,
           tasks[i].mode = "range" => subs[i].start + r <= subs[i].end + 1
    PROVE  Fitted([subs EXCEPT ![i].receivedBytes = r], tasks)
<1> DEFINE new == [subs EXCEPT ![i].receivedBytes = r]
<1>1. subs[i] \in SubworkerType
  OBVIOUS
<1>2. /\ DOMAIN new = DOMAIN subs /\ new[i].start = subs[i].start /\ new[i].receivedBytes = r
      /\ new[i].end = subs[i].end
      /\ \A j \in DOMAIN subs : j # i => new[j] = subs[j]
  BY <1>1 DEF SubworkerType
<1> HIDE DEF new
<1>3. Fitted(new, tasks)
  BY <1>2 DEF Fitted, Position
<1> QED BY <1>3 DEF new

LEMMA TaskSetFitted ==
    ASSUME NEW subs, NEW tasks, Paired(subs, tasks), Fitted(subs, tasks), NEW i \in DOMAIN tasks,
           NEW t,
           t.mode = "range" => Position(subs[i]) <= subs[i].end + 1,
           t.mode = "unknown" => subs[i].end = UNKNOWN,
           t.pc \in Working => t.mode # "undecided"
    PROVE  Fitted(subs, [tasks EXCEPT ![i] = t])
  BY DEF Paired, Fitted

LEMMA PcFitted ==
    ASSUME NEW subs, NEW tasks, Paired(subs, tasks), Fitted(subs, tasks), NEW i \in DOMAIN tasks,
           NEW pc, pc \in Working => tasks[i].mode # "undecided"
    PROVE  Fitted(subs, [tasks EXCEPT ![i].pc = pc])
<1> DEFINE t == [tasks[i] EXCEPT !.pc = pc]
<1>1. tasks[i] \in TaskType
  BY DEF Paired
<1>2. t.pc = pc /\ t.mode = tasks[i].mode /\ [tasks EXCEPT ![i].pc = pc] = [tasks EXCEPT ![i] = t]
  BY <1>1 DEF TaskType
<1> HIDE DEF t
<1>3. i \in DOMAIN subs
  BY DEF Paired
<1>4. /\ t.mode = "range" => Position(subs[i]) <= subs[i].end + 1
      /\ t.mode = "unknown" => subs[i].end = UNKNOWN
  BY <1>2, <1>3 DEF Fitted
<1> QED BY <1>2, <1>4, TaskSetFitted

-----------------------------------------------------------------------------
(* The step of a subworker.                                                *)

(* A chunk does not take a subworker past the end of its range.            *)
LEMMA AcceptedFits ==
    ASSUME WellFormed, Carried, phase = "group", NEW i \in DOMAIN task, NEW n \in ChunkSizes,
           Position(subworkers[i]) <= task[i].last
    PROVE  /\ Accepted(i, n) \in Nat
           /\ task[i].mode = "range" =>
                 Position(subworkers[i]) + Accepted(i, n) <= subworkers[i].end + 1
<1> DEFINE k == Accepted(i, n)
<1>0. /\ i \in DOMAIN subworkers /\ subworkers[i] \in SubworkerType /\ task[i] \in TaskType
      /\ Paired(subworkers, task) /\ Fitted(subworkers, task)
  BY DEF WellFormed, TypeOK, Paired, Carried
<1>1. n \in Nat \ {0}
  BY HttpStepAssumption
<1>2. MinOf(n, task[i].last - Position(subworkers[i]) + 1) \in Nat
  BY <1>0, <1>1 DEF MinOf, Position, SubworkerType, TaskType
<1>3. CASE task[i].mode = "range"
  <2>1. Remaining(subworkers[i]) \in Nat
    BY <1>0, <1>3 DEF Fitted, Remaining, Position, SubworkerType, NOT_SUPPORTED
  <2>2. k \in Nat /\ k <= Remaining(subworkers[i])
    BY <1>2, <1>3, <2>1 DEF Accepted, MinOf
  <2>3. /\ Position(subworkers[i]) \in Nat /\ subworkers[i].end \in Int
        /\ Remaining(subworkers[i]) = subworkers[i].end - Position(subworkers[i]) + 1
    BY <1>0 DEF Remaining, Position, SubworkerType, NOT_SUPPORTED
  <2> HIDE DEF k
  <2>4. Position(subworkers[i]) + k <= subworkers[i].end + 1
    BY <2>2, <2>3
  <2> QED BY <2>2, <2>4 DEF k
<1>4. CASE task[i].mode # "range"
  BY <1>2, <1>4 DEF Accepted
<1> QED BY <1>3, <1>4

LEMMA SubworkerStepCarried ==
    ASSUME WellFormed, Carried, NEW i \in DOMAIN task, SubworkerStep(i)
    PROVE  /\ Carried' /\ UNCHANGED record
           /\ canRange => Got(subworkers) \subseteq Got(subworkers')
<1> USE DEF At
<1>0. phase = "group" /\ Steady
  BY DEF SubworkerStep, Start, Retry, ReplyOk, ReplyUnsatisfiable, ReplyPermanent,
         ReplyFull, TransientError, Chunk, WriteFatal, Resume, StreamEnd, Raise
<1>1. /\ UNCHANGED << record, canRange, phase >> /\ NotPast(record)
      /\ subworkers \in Seq(SubworkerType) /\ Sound(subworkers) /\ Paired(subworkers, task)
      /\ i \in DOMAIN subworkers /\ subworkers[i] \in SubworkerType /\ task[i] \in TaskType
      /\ NotPast(subworkers) /\ Fitted(subworkers, task)
      /\ canRange => Recorded \subseteq Got(subworkers)
      /\ canRange => subworkers[i].end # NOT_SUPPORTED
  BY <1>0 DEF Steady, step, WellFormed, TypeOK, Paired, Carried, AllRanges
<1> DEFINE Kept == Carried' /\ (canRange => Got(subworkers) \subseteq Got(subworkers'))
<1> SUFFICES Kept
  BY <1>1
<1>2. ASSUME NotPast(subworkers'), Fitted(subworkers', task'),
             canRange => Got(subworkers) \subseteq Got(subworkers')
      PROVE  Kept
  <2>1. Recorded' = Recorded
    BY <1>1 DEF Recorded
  <2> QED BY <1>0, <1>1, <1>2, <2>1 DEF Carried
<1> HIDE DEF Kept
<1>3. ASSUME NEW pc, Goto(i, pc), UNCHANGED subworkers,
             pc \in Working => task[i].mode # "undecided"
      PROVE  Kept
  <2>1. Fitted(subworkers, task')
    BY <1>1, <1>3, PcFitted DEF Goto
  <2> QED BY <1>1, <1>2, <1>3, <2>1
<1>4. ASSUME NEW subs \in Seq(SubworkerType), Sound(subs), Paired(subs, task),
             NotPast(subs), Fitted(subs, task),
             canRange => Got(subworkers) \subseteq Got(subs), Finish(i, subs)
      PROVE  Kept
  <2> DEFINE done  == [task EXCEPT ![i].pc = "done"]
             after == Reassign(subs)
  <2>1. Paired(subs, done) /\ Fitted(subs, done)
    BY <1>4, GotoPaired, PcFitted DEF Pcs, Working
  <2>2. Narrows(subs, after)
    BY <1>4, ReassignNarrows
  <2>3. subworkers' = after /\ task' = Extended(done, after, NewTask)
    BY <1>4 DEF Finish, Reassign
  <2> HIDE DEF done, after
  <2>4. NotPast(after) /\ Got(subs) \subseteq Got(after)
    BY <1>4, <2>2, NarrowsKeeps
  <2>5. Fitted(after, Extended(done, after, NewTask))
    BY <1>4, <2>1, <2>2, ExtendedFitted
  <2> QED BY <1>2, <1>4, <2>3, <2>4, <2>5
<1>5. ASSUME NEW mode, LoopTop(i, mode), mode # "undecided",
             mode = "unknown" => subworkers[i].end = UNKNOWN,
             mode = "range" => Position(subworkers[i]) <= subworkers[i].end + 1,
             mode = "single" => ~ canRange /\ subworkers[i].end = NOT_SUPPORTED
      PROVE  Kept
  <2>1. CASE Finish(i, subworkers)
    BY <1>1, <1>4, <2>1
  <2>2. CASE task' = [task EXCEPT ![i] = Requesting(mode, subworkers[i])]
    <3> DEFINE t == Requesting(mode, subworkers[i])
    <3>1. t.mode = mode
      BY DEF Requesting
    <3>2. task' = [task EXCEPT ![i] = t]
      BY <2>2
    <3> HIDE DEF t
    <3>3. Fitted(subworkers, task')
      BY <1>1, <1>5, <3>1, <3>2, TaskSetFitted
    <3>4. CASE UNCHANGED subworkers
      BY <1>1, <1>2, <3>3, <3>4
    <3>5. CASE mode = "single" /\ subworkers' = [subworkers EXCEPT ![i].receivedBytes = 0]
      <4>1. NotPast(subworkers')
        BY <1>1, <1>5, <3>5, ReceivedNotPast
      <4>2. task'[i].mode = "single"
        BY <3>1, <3>2, <3>5
      <4>3. Fitted(subworkers', task')
        BY <1>1, <3>3, <3>5, <4>2, ReceivedFitted
      <4> QED BY <1>2, <1>5, <3>5, <4>1, <4>3
    <3>6. CASE Finish(i, subworkers)
      BY <2>1, <3>6
    <3> QED BY <1>5, <3>4, <3>5, <3>6 DEF LoopTop
  <2> QED BY <1>5, <2>1, <2>2 DEF LoopTop
<1>6. CASE Start(i)
  <2> DEFINE mode == ModeOf(subworkers[i])
  <2>1. /\ mode # "undecided"
        /\ mode = "unknown" => subworkers[i].end = UNKNOWN
        /\ mode = "single" => subworkers[i].end = NOT_SUPPORTED
        /\ mode = "range" => subworkers[i].end \notin {UNKNOWN, NOT_SUPPORTED}
    BY DEF ModeOf
  <2> HIDE DEF mode
  <2>2. mode = "range" => Position(subworkers[i]) <= subworkers[i].end + 1
    BY <1>1, <2>1 DEF NotPast
  <2>3. LoopTop(i, mode)
    BY <1>6 DEF Start, mode
  <2> QED BY <1>1, <1>5, <2>1, <2>2, <2>3
<1>7. CASE Retry(i)
  <2>1. /\ task[i].mode # "undecided"
        /\ task[i].mode = "unknown" => subworkers[i].end = UNKNOWN
        /\ task[i].mode = "range" => Position(subworkers[i]) <= subworkers[i].end + 1
        /\ task[i].mode = "single" => subworkers[i].end = NOT_SUPPORTED
    BY <1>1, <1>7 DEF Retry, Fitted, Working, Paired
  <2> QED BY <1>1, <1>5, <1>7, <2>1 DEF Retry
<1>8. CASE ReplyOk(i) \/ ReplyUnsatisfiable(i) \/ TransientError(i)
  <2>1. task[i].mode # "undecided"
    BY <1>1, <1>8 DEF ReplyOk, ReplyUnsatisfiable, TransientError, Fitted, Working
  <2> QED BY <1>3, <1>8, <2>1 DEF ReplyOk, ReplyUnsatisfiable, TransientError
<1>9. CASE ReplyPermanent(i) \/ ReplyFull(i) \/ WriteFatal(i)
  BY <1>3, <1>9 DEF ReplyPermanent, ReplyFull, WriteFatal, Raise, Working
<1>10. ASSUME NEW n \in ChunkSizes, Chunk(i, n) PROVE Kept
  <2> DEFINE k == Accepted(i, n)
             r == subworkers[i].receivedBytes + k
  <2>1. k \in Int /\ r \in Nat
    BY <1>0, <1>10, AcceptedBounds DEF Chunk
  <2>2. task[i].mode # "undecided"
    BY <1>1, <1>10 DEF Chunk, Fitted, Working
  <2>3. /\ k >= 0
        /\ task[i].mode = "range" => subworkers[i].start + r <= subworkers[i].end + 1
    <3>1. /\ k \in Nat
          /\ task[i].mode = "range" => Position(subworkers[i]) + k <= subworkers[i].end + 1
      BY <1>0, <1>10, AcceptedFits DEF Chunk
    <3> HIDE DEF k
    <3> QED BY <1>1, <3>1 DEF Position, SubworkerType
  <2>4. subworkers[i].end \notin {UNKNOWN, NOT_SUPPORTED} => task[i].mode = "range"
    BY <1>1, <2>2 DEF Fitted, Paired, TaskType, Modes
  <2>5. subworkers' = [subworkers EXCEPT ![i].receivedBytes = r] /\ Goto(i, "limit")
    BY <1>10 DEF Chunk
  <2>6. subworkers[i].receivedBytes <= r
    BY <1>1, <2>1, <2>3 DEF SubworkerType
  <2> HIDE DEF k, r
  <2>7. NotPast(subworkers') /\ Got(subworkers) \subseteq Got(subworkers')
    BY <1>1, <2>1, <2>3, <2>4, <2>5, <2>6, ReceivedNotPast, MoreGot
  <2>8. Fitted(subworkers', task)
    BY <1>1, <2>1, <2>3, <2>5, ReceivedFitted
  <2>9. Paired(subworkers', task)
    BY <1>1, <2>1, <2>5, ReceivedSet
  <2>10. Fitted(subworkers', task')
    BY <2>2, <2>5, <2>8, <2>9, PcFitted DEF Goto
  <2> QED BY <1>1, <1>2, <2>7, <2>10
<1>11. CASE Resume(i)
  <2>0. task[i].mode # "undecided"
    BY <1>1, <1>11 DEF Resume, Fitted, Working
  <2>1. CASE task[i].mode = "range" /\ Complete(subworkers[i])
    <3> DEFINE whole == subworkers[i].end - subworkers[i].start + 1
               new == [subworkers EXCEPT ![i].receivedBytes = whole]
    <3>1. whole \in Nat
      BY <1>1, <2>1 DEF Paired, Sound, SubworkerType, NOT_SUPPORTED
    <3>2. /\ subworkers[i].receivedBytes <= whole
          /\ subworkers[i].start + whole <= subworkers[i].end + 1
      BY <1>1, <2>1 DEF Fitted, Position, SubworkerType, Paired, NOT_SUPPORTED
    <3>3. Finish(i, new)
      BY <1>11, <2>1 DEF Resume
    <3> HIDE DEF whole
    <3>4. new \in Seq(SubworkerType) /\ Sound(new) /\ Paired(new, task)
      BY <1>1, <3>1, ReceivedSet
    <3>5. NotPast(new) /\ Got(subworkers) \subseteq Got(new) /\ Fitted(new, task)
      BY <1>1, <3>1, <3>2, ReceivedNotPast, MoreGot, ReceivedFitted
    <3> HIDE DEF new
    <3> QED BY <1>1, <1>4, <3>3, <3>4, <3>5
  <2>2. CASE Goto(i, "stream") /\ UNCHANGED subworkers
    BY <1>3, <2>0, <2>2
  <2> QED BY <1>11, <2>1, <2>2 DEF Resume
<1>12. CASE StreamEnd(i)
  <2>1. CASE LoopTop(i, "range") /\ task[i].mode = "range"
    BY <1>1, <1>5, <2>1 DEF Fitted
  <2>2. CASE Goto(i, "done") /\ UNCHANGED subworkers
    BY <1>3, <2>2 DEF Working
  <2> QED BY <1>12, <2>1, <2>2 DEF StreamEnd
<1> QED BY <1>1, <1>6, <1>7, <1>8, <1>9, <1>10, <1>11, <1>12 DEF SubworkerStep

-----------------------------------------------------------------------------
(* The other steps.                                                        *)

LEMMA SuperviseCarried ==
    ASSUME WellFormed, Carried, Supervise
    PROVE  Carried' /\ Recorded \subseteq Recorded'
<1>1. /\ phase = "group" /\ UNCHANGED << canRange, phase >>
      /\ record' = IF canRange THEN subworkers ELSE record
      /\ NotPast(record) /\ NotPast(subworkers) /\ Fitted(subworkers, task)
      /\ canRange \in BOOLEAN /\ (canRange => Recorded \subseteq Got(subworkers))
      /\ subworkers \in Seq(SubworkerType) /\ Sound(subworkers) /\ Paired(subworkers, task)
  BY DEF Supervise, WellFormed, TypeOK, Carried
<1>2. \/ UNCHANGED << subworkers, task >>
      \/ \E t \in {NewTask, Orphan} :
            /\ subworkers' \in { Reassign(subworkers),
                                  Reassign(Reassign(Reassign(Reassign(subworkers)))) }
            /\ task' = Extended(task, subworkers', t)
  BY DEF Supervise
<1>3. Narrows(subworkers, Reassign(subworkers))
      /\ Narrows(subworkers, Reassign(Reassign(Reassign(Reassign(subworkers)))))
  BY <1>1, ReassignNarrows, FourNarrow
<1>4. NotPast(subworkers') /\ Got(subworkers) \subseteq Got(subworkers')
  BY <1>1, <1>2, <1>3, NarrowsKeeps
<1>5. Fitted(subworkers', task')
  BY <1>1, <1>2, <1>3, ExtendedFitted
<1>6. NotPast(record')
  BY <1>1
<1>7. /\ canRange => Recorded' = Got(subworkers)
      /\ ~ canRange => Recorded' = Recorded
  BY <1>1 DEF Recorded, Got
<1> QED BY <1>1, <1>4, <1>5, <1>6, <1>7 DEF Carried

(* What the record keeps when it is copied, left alone or deleted.         *)
LEMMA CarriedFrame ==
    ASSUME Carried, record' \in {record, << >>},
           \/ phase' \notin {"restoring", "group", "falling_back"}
           \/ UNCHANGED << phase, canRange, subworkers >> /\ Fitted(subworkers', task')
    PROVE  Carried'
<1>1. NotPast(record')
  BY DEF Carried, NotPast
<1>2. Recorded' \subseteq Recorded
  BY DEF Recorded
<1> QED BY <1>1, <1>2 DEF Carried

LEMMA LaunchCarried ==
    ASSUME NEW subs, Launch(subs), NotPast(record'), NotPast(subs),
           canRange' => Recorded' \subseteq Got(subs)
    PROVE  Carried'
<1>1. phase' = "group" /\ subworkers' = subs /\ task' = [j \in DOMAIN subs |-> NewTask]
  BY DEF Launch
<1>2. Fitted(subs, [j \in DOMAIN subs |-> NewTask])
  BY NewTaskLast DEF Fitted, Working
<1> QED BY <1>1, <1>2 DEF Carried

LEMMA FreshNotPast ==
    ASSUME NEW subs, Fresh(subs)
    PROVE  NotPast(subs)
<1>1. ASSUME NEW j \in DOMAIN subs, subs[j].end \notin {UNKNOWN, NOT_SUPPORTED}
      PROVE  Position(subs[j]) <= subs[j].end + 1
  <2>1. subs[j] \in SubworkerType /\ subs[j].receivedBytes = 0 /\ subs[j].start <= subs[j].end
    BY <1>1 DEF Fresh, Sound
  <2> QED BY <2>1 DEF Position, SubworkerType, NOT_SUPPORTED
<1> QED BY <1>1 DEF NotPast

LEMMA StartCarried ==
    ASSUME WellFormed, Carried,
           RunFresh \/ RunRestored \/ RestoreSplit \/ RestoreDone \/ Relaunch
    PROVE  Carried'
<1>1. CASE RunFresh
  <2> DEFINE subs == BuildSubworkers(FileSize, canRange, wanted)
  <2>1. /\ record' \in {record, << >>} /\ (canRange' => record' = << >>)
        /\ Launch(subs) /\ canRange \in BOOLEAN /\ wanted \in Nat \ {0}
    BY <1>1 DEF RunFresh, DeleteRecord, WellFormed, TypeOK
  <2>2. Fresh(subs)
    BY <2>1, BuildSubworkersFresh
  <2> HIDE DEF subs
  <2>3. NotPast(subs) /\ NotPast(record') /\ (canRange' => Recorded' = {})
    BY <2>1, <2>2, FreshNotPast DEF Carried, NotPast, Recorded
  <2> QED BY <2>1, <2>3, LaunchCarried
<1>2. CASE RunRestored
  <2>1. UNCHANGED << record, canRange >> /\ subworkers' = record /\ phase' = "restoring"
    BY <1>2 DEF RunRestored, disk
  <2>2. Recorded' \subseteq Got(subworkers')
    BY <2>1 DEF Recorded, Got
  <2> QED BY <2>1, <2>2 DEF Carried
<1>3. CASE RestoreSplit
  <2>1. /\ UNCHANGED << record, canRange, phase >> /\ phase = "restoring"
        /\ subworkers' = SplitSlowest(subworkers, 2)
        /\ subworkers \in Seq(SubworkerType) /\ Sound(subworkers)
    BY <1>3 DEF RestoreSplit, disk, step, WellFormed, TypeOK
  <2>2. Narrows(subworkers, SplitSlowest(subworkers, 2))
    BY <2>1, SplitSlowestNarrows
  <2>3. NotPast(subworkers') /\ Got(subworkers) \subseteq Got(subworkers')
    BY <2>1, <2>2, NarrowsKeeps DEF Carried
  <2>4. Recorded' = Recorded
    BY <2>1 DEF Recorded
  <2> QED BY <2>1, <2>3, <2>4 DEF Carried
<1>4. CASE RestoreDone \/ Relaunch
  <2>1. /\ UNCHANGED << record, canRange >> /\ Launch(subworkers)
        /\ phase \in {"restoring", "falling_back"}
    BY <1>4 DEF RestoreDone, Relaunch, disk, step
  <2>2. Recorded' = Recorded
    BY <2>1 DEF Recorded
  <2> QED BY <2>1, <2>2, LaunchCarried DEF Carried
<1> QED BY <1>1, <1>2, <1>3, <1>4

LEMMA GroupCarried ==
    ASSUME WellFormed, Carried, SuperviseFails \/ Abort \/ Cancel
    PROVE  Carried'
<1>1. /\ phase = "group" /\ UNCHANGED << canRange, phase, subworkers >>
      /\ record' \in {record, << >>} /\ Paired(subworkers, task) /\ Fitted(subworkers, task)
  BY DEF SuperviseFails, Abort, Cancel, WellFormed, disk, step, Carried
<1>2. \A j \in DOMAIN task : /\ task'[j].mode = task[j].mode
                              /\ task'[j].pc \in {task[j].pc, "cancelled"}
  <2>1. \A j \in DOMAIN task : task[j] \in TaskType
    BY <1>1 DEF Paired
  <2>2. UNCHANGED task \/ CancelLive
    BY DEF SuperviseFails, Abort, Cancel
  <2> QED BY <2>1, <2>2 DEF CancelLive, TaskType
<1>3. Fitted(subworkers', task')
  BY <1>1, <1>2 DEF Fitted, Paired, Working
<1> QED BY <1>1, <1>3, CarriedFrame

LEMMA EndCarried ==
    ASSUME WellFormed, Carried,
           \/ GroupCompleted \/ GroupCancelled \/ GroupFailed \/ FallBack \/ Settle
           \/ Kill \/ KillOpeningRecord \/ KillInFallBack
    PROVE  Carried'
<1>1. CASE FallBack
  <2>1. /\ phase' \in {"falling_back", "failing"} /\ ~ canRange'
        /\ record' \in {record, << >>} /\ subworkers' = << Subworker(0, NOT_SUPPORTED) >>
    BY <1>1 DEF FallBack, DeleteRecord, BuildSubworkers, disk
  <2>2. NotPast(subworkers')
    BY <2>1 DEF NotPast, Subworker
  <2>3. NotPast(record')
    BY <2>1 DEF Carried, NotPast
  <2> QED BY <2>1, <2>2, <2>3 DEF Carried
<1>2. CASE \/ GroupCompleted \/ GroupCancelled \/ GroupFailed \/ Settle
           \/ Kill \/ KillOpeningRecord \/ KillInFallBack
  <2>1. /\ phase' \notin {"restoring", "group", "falling_back"}
        /\ record' \in {record, << >>}
    BY <1>2 DEF GroupCompleted, GroupCancelled, GroupFailed, Settle, DeleteRecord, Kill,
                KillOpeningRecord, KillInFallBack, Lose, disk
  <2> QED BY <2>1, CarriedFrame
<1> QED BY <1>1, <1>2

LEMMA CarriedInit == Init => Carried
  BY DEF Init, Carried, NotPast

LEMMA CarriedNext ==
    ASSUME WellFormed, Carried, [FilesNext]_vars
    PROVE  Carried'
<1>1. CASE UNCHANGED vars
  <2>1. UNCHANGED << record, phase, canRange, subworkers, task >>
    BY <1>1 DEF vars, disk, step
  <2>2. Recorded' = Recorded
    BY <2>1 DEF Recorded
  <2> QED BY <2>1, <2>2 DEF Carried, Fitted, NotPast, Got
<1>2. CASE \E i \in DOMAIN task : SubworkerStep(i)
  BY <1>2, SubworkerStepCarried
<1>3. CASE RunFresh \/ RunRestored \/ RestoreSplit \/ RestoreDone \/ Relaunch
  BY <1>3, StartCarried
<1>4. CASE Supervise
  BY <1>4, SuperviseCarried
<1>5. CASE SuperviseFails \/ Abort \/ Cancel
  BY <1>5, GroupCarried
<1>6. CASE \/ GroupCompleted \/ GroupCancelled \/ GroupFailed \/ FallBack \/ Settle
           \/ Kill \/ KillOpeningRecord \/ KillInFallBack
  BY <1>6, EndCarried
<1>7. CASE \/ \E n \in Counts, r \in Ranged : Create(n, r)
           \/ \E n \in Counts : SetOptions(n)
           \/ DeleteFiles \/ MoveFiles \/ RemoteChanges
  <2>1. phase' = "idle" /\ record' \in {record, << >>}
    BY <1>7, FilesStep DEF Create, SetOptions, disk
  <2> QED BY <2>1, CarriedFrame
<1>8. CASE Finished
  BY <1>1, <1>8 DEF Finished
<1> QED BY <1>1, <1>2, <1>3, <1>4, <1>5, <1>6, <1>7, <1>8 DEF FilesNext, Next

-----------------------------------------------------------------------------
(* What no step but those RecordedProgressKept names does: giving up       *)
(* recorded progress.                                                      *)
LEMMA RecordedStep ==
    ASSUME Env \cap {"record", "kill_opening"} = {}, WellFormed, Carried, [Next]_vars
    PROVE  \/ Recorded \subseteq Recorded'
           \/ phase' \in {"finished", "falling_back"}
           \/ phase' = "group" /\ ~ canRange'
<1>1. ASSUME UNCHANGED record PROVE Recorded' = Recorded
  BY <1>1 DEF Recorded
<1>2. CASE UNCHANGED vars
  BY <1>1, <1>2 DEF vars, disk
<1>3. CASE \E i \in DOMAIN task : SubworkerStep(i)
  BY <1>1, <1>3, SubworkerStepCarried
<1>4. CASE Supervise
  BY <1>4, SuperviseCarried
<1>5. CASE RunFresh
  <2>1. (canRange => UNCHANGED record) /\ UNCHANGED canRange /\ phase' = "group"
    BY <1>5 DEF RunFresh, Launch
  <2> QED BY <1>1, <2>1
<1>6. CASE SuperviseFails \/ KillOpeningRecord
  BY <1>6 DEF SuperviseFails, KillOpeningRecord, Fault
<1>7. CASE FallBack
  BY <1>1, <1>7 DEF FallBack, disk
<1>8. CASE Settle
  BY <1>1, <1>8 DEF Settle
<1>9. CASE \/ \E n \in Counts, r \in Ranged : Create(n, r)
           \/ \E n \in Counts : SetOptions(n)
           \/ RunRestored \/ RestoreSplit \/ RestoreDone \/ Relaunch
           \/ Abort \/ Cancel \/ GroupCompleted \/ GroupCancelled \/ GroupFailed
           \/ Kill \/ KillInFallBack \/ Finished
  <2>1. UNCHANGED record
    BY <1>9 DEF Create, SetOptions, RunRestored, RestoreSplit, RestoreDone, Relaunch, Abort,
                Cancel, GroupCompleted, GroupCancelled, GroupFailed, Kill, KillInFallBack,
                Finished, vars, disk
  <2> QED BY <1>1, <2>1
<1> QED BY <1>2, <1>3, <1>4, <1>5, <1>6, <1>7, <1>8, <1>9 DEF Next

(* A byte the record had marked as received stays marked (_supervise and   *)
(* _loadRecord), across splits, failures, pauses and restarts, until the   *)
(* download completes or turns to a single stream.  The record may be lost *)
(* only when writing it fails, or the process dies, just after opening it  *)
(* has emptied it: both are excluded.                                      *)
THEOREM RecordedProgressLasts ==
    ASSUME Env \cap {"record", "kill_opening"} = {}
    PROVE  Spec => RecordedProgressKept
<1>1. WellFormed /\ [Next]_vars => WellFormed'
  BY WellFormedNext
<1>2. WellFormed /\ Carried /\ [Next]_vars => Carried'
  BY CarriedNext DEF FilesNext
<1>3. WellFormed /\ Carried /\ [Next]_vars =>
          [ \/ Recorded \subseteq Recorded'
            \/ phase' \in {"finished", "falling_back"}
            \/ phase' = "group" /\ ~ canRange' ]_vars
  BY RecordedStep
<1> QED BY WellFormedInit, CarriedInit, <1>1, <1>2, <1>3, PTL DEF Spec, RecordedProgressKept

-----------------------------------------------------------------------------
(***************************************************************************)
(* No two subworkers fetch the same byte: proved for every file, every     *)
(* number of subworkers and every interleaving, but for one case.          *)
(*                                                                         *)
(* The argument.  The ranges tile the file (Tiled), and no subworker goes  *)
(* past the end of its range (Apart, which holds between two runs too).    *)
(* The case is a range that ends at byte 0: its end is the one that says   *)
(* that the size is not known (see ModeOf), and the subworker does not     *)
(* stop at it.                                                             *)
(***************************************************************************)

(* No range of several is the first byte alone.                            *)
Long(subs) == Len(subs) > 1 => \A i \in DOMAIN subs : subs[i].end # UNKNOWN

(* NotPast, between two runs too, and where there is but one range.        *)
Apart ==
    /\ NotPast(subworkers)
    /\ ~ canRange /\ subworkers # << >> => SingleStream(subworkers)
    /\ FileSize = UNKNOWN => Len(record) <= 1 /\ Len(subworkers) <= 1

(* What a subworker's step does to the list of subworkers: it counts what  *)
(* it has received, and may split a range.                                 *)
LEMMA SubworkerStepList ==
    ASSUME WellFormed, NEW i \in DOMAIN task, SubworkerStep(i)
    PROVE  /\ i \in DOMAIN subworkers
           /\ \E r \in Nat :
                 subworkers' \in { [subworkers EXCEPT ![i].receivedBytes = r],
                                   Reassign([subworkers EXCEPT ![i].receivedBytes = r]) }
<1> DEFINE Counted(r) == [subworkers EXCEPT ![i].receivedBytes = r]
           Same == subworkers[i].receivedBytes
<1> USE DEF At
<1>0. phase = "group"
  BY DEF SubworkerStep, Start, Retry, ReplyOk, ReplyUnsatisfiable, ReplyPermanent,
         ReplyFull, TransientError, Chunk, WriteFatal, Resume, StreamEnd, Raise
<1>1. /\ i \in DOMAIN subworkers /\ subworkers[i] \in SubworkerType
      /\ subworkers \in Seq(SubworkerType) /\ Sound(subworkers) /\ Paired(subworkers, task)
  BY <1>0 DEF WellFormed, TypeOK, Paired
<1>2. Same \in Nat /\ Counted(Same) = subworkers
  BY <1>1 DEF SubworkerType
<1> SUFFICES \E r \in Nat : subworkers' \in {Counted(r), Reassign(Counted(r))}
  BY <1>1
<1> HIDE DEF Same
<1>3. CASE subworkers' \in {subworkers, Reassign(subworkers)}
  BY <1>2, <1>3
<1>4. ASSUME NEW mode, LoopTop(i, mode)
      PROVE  \E r \in Nat : subworkers' \in {Counted(r), Reassign(Counted(r))}
  <2>1. CASE Finish(i, subworkers)
    BY <1>3, <2>1 DEF Finish, Reassign
  <2>2. CASE subworkers' = Counted(0)
    BY <2>2
  <2> QED BY <1>3, <1>4, <2>1, <2>2 DEF LoopTop
<1>5. CASE Start(i) \/ Retry(i)
  BY <1>4, <1>5 DEF Start, Retry
<1>6. CASE \/ ReplyOk(i) \/ ReplyUnsatisfiable(i) \/ ReplyPermanent(i) \/ ReplyFull(i)
           \/ TransientError(i) \/ WriteFatal(i)
  BY <1>3, <1>6 DEF ReplyOk, ReplyUnsatisfiable, ReplyPermanent, ReplyFull, TransientError,
                    WriteFatal, Raise
<1>7. ASSUME NEW n \in ChunkSizes, Chunk(i, n)
      PROVE  \E r \in Nat : subworkers' \in {Counted(r), Reassign(Counted(r))}
  <2> DEFINE r == subworkers[i].receivedBytes + Accepted(i, n)
  <2>1. r \in Nat
    BY <1>0, <1>7, AcceptedBounds DEF Chunk
  <2>2. subworkers' = Counted(r)
    BY <1>7 DEF Chunk
  <2> HIDE DEF r, Counted
  <2> QED BY <2>1, <2>2
<1>8. CASE Resume(i)
  <2>1. CASE task[i].mode = "range" /\ Complete(subworkers[i])
    <3> DEFINE whole == subworkers[i].end - subworkers[i].start + 1
    <3>1. whole \in Nat
      BY <1>1, <2>1 DEF Paired, Sound, SubworkerType, NOT_SUPPORTED
    <3>2. subworkers' = Reassign(Counted(whole))
      BY <1>8, <2>1 DEF Resume, Finish, Reassign
    <3> HIDE DEF whole, Counted
    <3> QED BY <3>1, <3>2
  <2>2. CASE UNCHANGED subworkers
    BY <1>3, <2>2
  <2> QED BY <1>8, <2>1, <2>2 DEF Resume
<1>9. CASE StreamEnd(i)
  <2>1. CASE LoopTop(i, "range")
    BY <1>4, <2>1
  <2>2. CASE UNCHANGED subworkers
    BY <1>3, <2>2
  <2> QED BY <1>9, <2>1, <2>2 DEF StreamEnd
<1> QED BY <1>5, <1>6, <1>7, <1>8, <1>9 DEF SubworkerStep

(* Counting what one of them has received leaves the ranges as they are.   *)
SameRanges(a, b) ==
    /\ b \in Seq(SubworkerType) /\ Sound(b)
    /\ Len(b) = Len(a) /\ DOMAIN b = DOMAIN a
    /\ \A j \in DOMAIN a : b[j].start = a[j].start /\ b[j].end = a[j].end

LEMMA CountedRanges ==
    ASSUME NEW subs \in Seq(SubworkerType), Sound(subs), NEW i \in DOMAIN subs, NEW r \in Nat
    PROVE  SameRanges(subs, [subs EXCEPT ![i].receivedBytes = r]) /\ subs # << >>
<1> DEFINE new == [subs EXCEPT ![i].receivedBytes = r]
<1>1. new \in Seq(SubworkerType) /\ DOMAIN new = DOMAIN subs
  <2>1. subs[i] \in SubworkerType
    OBVIOUS
  <2>2. [subs[i] EXCEPT !.receivedBytes = r] \in SubworkerType
    BY <2>1 DEF SubworkerType
  <2> QED BY <2>2
<1>2. \A j \in DOMAIN subs : new[j].start = subs[j].start /\ new[j].end = subs[j].end
  BY DEF SubworkerType
<1> HIDE DEF new
<1>3. Sound(new)
  BY <1>1, <1>2 DEF Sound
<1>4. Len(new) = Len(subs) /\ subs # << >>
  BY <1>1
<1> QED BY <1>1, <1>2, <1>3, <1>4 DEF SameRanges, new

LEMMA EmptyKept == Reassign(<< >>) = << >>
  BY DEF Reassign, Reassigned, SplitSlowest

LEMMA UnknownNotSplit ==
    ASSUME FileSize = UNKNOWN, NEW subs
    PROVE  Reassign(subs) = subs
  BY DEF Reassign, Reassigned, UNKNOWN

LEMMA SubworkerStepApart ==
    ASSUME WellFormed, Carried, Apart, NEW i \in DOMAIN task, SubworkerStep(i)
    PROVE  Apart'
<1>1. /\ phase' = "group" /\ UNCHANGED << record, canRange >>
      /\ subworkers \in Seq(SubworkerType) /\ Sound(subworkers)
  BY DEF SubworkerStep, Start, Retry, ReplyOk, ReplyUnsatisfiable, ReplyPermanent, At, Steady,
         ReplyFull, TransientError, Chunk, WriteFatal, Resume, StreamEnd, Raise, step,
         WellFormed, TypeOK
<1>2. NotPast(subworkers')
  BY <1>1, SubworkerStepCarried DEF Carried
<1>3. PICK r \in Nat : subworkers' \in { [subworkers EXCEPT ![i].receivedBytes = r],
                                Reassign([subworkers EXCEPT ![i].receivedBytes = r]) }
  BY SubworkerStepList
<1> DEFINE subs == [subworkers EXCEPT ![i].receivedBytes = r]
<1>4. i \in DOMAIN subworkers
  BY SubworkerStepList
<1>5. SameRanges(subworkers, subs) /\ subworkers # << >>
  BY <1>1, <1>4, CountedRanges
<1>6. subworkers' \in {subs, Reassign(subs)}
  BY <1>3
<1> HIDE DEF subs
<1>7. ~ canRange => SingleStream(subworkers')
  <2>1. SingleStream(subworkers) => SingleStream(subs)
    BY <1>5 DEF SingleStream, SameRanges
  <2> QED BY <1>5, <1>6, <2>1, SingleStreamKept DEF Apart, SameRanges
<1>8. FileSize = UNKNOWN => Len(subworkers') <= 1
  BY <1>5, <1>6, UnknownNotSplit DEF Apart, SameRanges
<1> QED BY <1>1, <1>2, <1>7, <1>8 DEF Apart

LEMMA SuperviseApart ==
    ASSUME WellFormed, Carried, Apart, Supervise
    PROVE  Apart'
<1>1. /\ phase' = "group" /\ UNCHANGED canRange
      /\ record' = IF canRange THEN subworkers ELSE record
      /\ subworkers \in Seq(SubworkerType)
      /\ subworkers' \in { subworkers, Reassign(subworkers),
                           Reassign(Reassign(Reassign(Reassign(subworkers)))) }
  BY DEF Supervise, WellFormed, TypeOK, Carried
<1>2. NotPast(subworkers')
  BY <1>1, SuperviseCarried DEF Carried
<1>3. Reassign(subworkers) = subworkers => subworkers' = subworkers
  BY <1>1
<1>4. ~ canRange /\ subworkers' # << >> => SingleStream(subworkers')
  <2>1. CASE subworkers = << >>
    BY <1>3, <2>1, EmptyKept
  <2>2. CASE subworkers # << >>
    BY <1>1, <1>3, <2>2, SingleStreamKept DEF Apart
  <2> QED BY <2>1, <2>2
<1>5. FileSize = UNKNOWN => Len(subworkers') <= 1 /\ Len(record') <= 1
  BY <1>1, <1>3, UnknownNotSplit DEF Apart
<1> QED BY <1>1, <1>2, <1>4, <1>5 DEF Apart

(* Steps that leave the subworkers alone, or drop them.                    *)
LEMMA ApartFrame ==
    ASSUME Apart, record' \in {record, << >>},
           \/ subworkers' = << >>
           \/ UNCHANGED << subworkers, canRange >>
    PROVE  Apart'
  BY DEF Apart, NotPast

LEMMA StartApart ==
    ASSUME WellFormed, Carried, Apart, RunFresh \/ RunRestored \/ RestoreSplit
    PROVE  Apart'
<1>1. NotPast(subworkers')
  <2>1. phase' \in {"restoring", "group"}
    BY DEF RunFresh, RunRestored, RestoreSplit, Launch
  <2> QED BY <2>1, StartCarried DEF Carried
<1>2. CASE RunFresh
  <2> DEFINE subs == BuildSubworkers(FileSize, canRange, wanted)
  <2>1. record' \in {record, << >>} /\ UNCHANGED canRange /\ subworkers' = subs
    BY <1>2 DEF RunFresh, DeleteRecord, Launch
  <2>2. ~ canRange => SingleStream(subs)
    BY DEF BuildSubworkers, SingleStream, Subworker
  <2>3. FileSize = UNKNOWN => Len(subs) <= 1
    BY DEF BuildSubworkers
  <2> QED BY <1>1, <2>1, <2>2, <2>3 DEF Apart
<1>3. CASE RunRestored
  <2>1. canRange /\ UNCHANGED << record, canRange >> /\ subworkers' = record
    BY <1>3 DEF RunRestored, disk
  <2> QED BY <1>1, <2>1 DEF Apart
<1>4. CASE RestoreSplit
  <2>1. canRange /\ UNCHANGED << record, canRange >> /\ FileSize # UNKNOWN
    BY <1>4 DEF RestoreSplit, TooFew, WellFormed, disk, step, UNKNOWN
  <2> QED BY <1>1, <2>1 DEF Apart
<1> QED BY <1>2, <1>3, <1>4

LEMMA FallBackApart ==
    ASSUME Apart, FallBack
    PROVE  Apart'
<1>1. /\ record' \in {record, << >>} /\ ~ canRange'
      /\ subworkers' = << Subworker(0, NOT_SUPPORTED) >>
  BY DEF FallBack, DeleteRecord, BuildSubworkers, disk
<1>2. NotPast(subworkers') /\ SingleStream(subworkers') /\ Len(subworkers') = 1
  BY <1>1 DEF NotPast, SingleStream, Subworker
<1> QED BY <1>1, <1>2 DEF Apart

LEMMA ApartInit == Init => Apart
  BY DEF Init, Apart, NotPast

LEMMA ApartNext ==
    ASSUME WellFormed, Carried, Apart, [FilesNext]_vars
    PROVE  Apart'
<1>1. CASE UNCHANGED vars
  BY <1>1, ApartFrame DEF vars, disk, step
<1>2. CASE \E i \in DOMAIN task : SubworkerStep(i)
  BY <1>2, SubworkerStepApart
<1>3. CASE RunFresh \/ RunRestored \/ RestoreSplit
  BY <1>3, StartApart
<1>4. CASE Supervise
  BY <1>4, SuperviseApart
<1>5. CASE FallBack
  BY <1>5, FallBackApart
<1>6. CASE \/ RestoreDone \/ Relaunch \/ SuperviseFails \/ Abort \/ Cancel
           \/ GroupCompleted \/ GroupCancelled \/ GroupFailed \/ Settle
           \/ \E n \in Counts : SetOptions(n)
           \/ DeleteFiles \/ MoveFiles \/ RemoteChanges
  <2>1. UNCHANGED << subworkers, canRange >> /\ record' \in {record, << >>}
    BY <1>6, FilesStep DEF RestoreDone, Relaunch, Launch, SuperviseFails, Abort, Cancel,
          GroupCompleted, GroupCancelled, GroupFailed, Settle, DeleteRecord, SetOptions,
          disk, step
  <2> QED BY <2>1, ApartFrame
<1>7. CASE \/ \E n \in Counts, r \in Ranged : Create(n, r)
           \/ Kill \/ KillOpeningRecord \/ KillInFallBack
  <2>1. subworkers' = << >> /\ record' \in {record, << >>}
    BY <1>7 DEF Create, Kill, KillOpeningRecord, KillInFallBack, Lose, WellFormed, disk
  <2> QED BY <2>1, ApartFrame
<1>8. CASE Finished
  BY <1>1, <1>8 DEF Finished
<1> QED BY <1>1, <1>2, <1>3, <1>4, <1>5, <1>6, <1>7, <1>8 DEF FilesNext, Next

(* Ranges that are apart, in a list of subworkers.                         *)
LEMMA OneNoOverlap ==
    ASSUME NEW subs \in Seq(SubworkerType), Len(subs) <= 1,
           NEW i \in DOMAIN subs, NEW j \in DOMAIN subs
    PROVE  i = j
  OBVIOUS

LEMMA DisjointReceived ==
    ASSUME NEW a \in SubworkerType, NEW b \in SubworkerType,
           Position(a) <= a.end + 1, a.end < b.start
    PROVE  Received(a) \cap Received(b) = {}
<1>1. /\ a.start \in Nat /\ a.receivedBytes \in Nat /\ a.end \in Int
      /\ b.start \in Nat /\ b.receivedBytes \in Nat
  BY DEF SubworkerType, NOT_SUPPORTED
<1>2. a.start + a.receivedBytes <= b.start
  BY <1>1 DEF Position
<1>3. \A x \in Received(a) : x < b.start
  BY <1>1, <1>2 DEF Received, Position
<1>4. \A x \in Received(b) : b.start <= x /\ x \in Int
  BY <1>1 DEF Received, Position
<1>5. \A x \in Received(a) : x \in Int
  BY <1>1 DEF Received, Position
<1> QED BY <1>1, <1>3, <1>4, <1>5

LEMMA ApartNoOverlap ==
    ASSUME WellFormed, Tiled, Apart, Long(subworkers)
    PROVE  NoOverlap
<1>1. subworkers \in Seq(SubworkerType) /\ (canRange => AllRanges(subworkers))
      /\ canRange \in BOOLEAN /\ FileSize \in Nat
  BY HttpStepAssumption DEF WellFormed, TypeOK
<1> SUFFICES ASSUME NEW i \in DOMAIN subworkers, NEW j \in DOMAIN subworkers, i # j
             PROVE  Received(subworkers[i]) \cap Received(subworkers[j]) = {}
  BY DEF NoOverlap
<1>2. subworkers[i] \in SubworkerType /\ subworkers[j] \in SubworkerType /\ subworkers # << >>
  BY <1>1
<1>3. Len(subworkers) > 1
  <2>1. ~ (Len(subworkers) <= 1)
    BY <1>1, OneNoOverlap
  <2> QED BY <1>1, <2>1
<1>4. canRange /\ FileSize > 0
  BY <1>1, <1>2, <1>3 DEF Apart, SingleStream, UNKNOWN
<1>5. /\ Position(subworkers[i]) <= subworkers[i].end + 1
      /\ Position(subworkers[j]) <= subworkers[j].end + 1
  BY <1>1, <1>3, <1>4 DEF Apart, NotPast, Long, AllRanges
<1>6. \/ subworkers[i].end < subworkers[j].start
      \/ subworkers[j].end < subworkers[i].start
  BY <1>2, <1>4 DEF Tiled, Tiles
<1> QED BY <1>2, <1>5, <1>6, DisjointReceived

(* No two subworkers fetch the same byte (_splitSlowest and                *)
(* _reassignSubworker, _engine.py), whatever the disk, the server, the     *)
(* user and the system do, as long as no range of several is the first     *)
(* byte of the file alone: such a range is taken for one that has no end.  *)
THEOREM LongRangesNeverOverlap ==
    FilesSpec => [](Long(subworkers) => NoOverlap)
<1> DEFINE Inv == WellFormed /\ Tiled /\ Carried /\ Apart
<1>1. Init => Inv
  BY WellFormedInit, TiledInit, CarriedInit, ApartInit
<1>2. Inv /\ [FilesNext]_vars => Inv'
  BY WellFormedFilesNext, TiledNext, CarriedNext, ApartNext
<1>3. Inv => (Long(subworkers) => NoOverlap)
  BY ApartNoOverlap
<1> QED BY <1>1, <1>2, <1>3, PTL DEF FilesSpec

-----------------------------------------------------------------------------
(* Where no range is ever the first byte alone.  Only the first range can  *)
(* come to that, and each split of it may halve it: room[k] is a number of *)
(* bytes it has when there are k ranges.  That is enough for the ranges it *)
(* begins with, for the splits of a record that has fewer ranges than the  *)
(* caller wants now (_restoreFromFile), and after any other split, which   *)
(* wants ReassignSize bytes to come (_reassignSubworker, 512 KiB unless it *)
(* is configured).                                                         *)
Roomy(room) ==
    /\ room \in [Nat \ {0} -> Nat]
    /\ \A j, k \in Nat \ {0} : j <= k => 2 <= room[k] /\ room[k] <= room[j]
    /\ \A n \in Counts :
          /\ n * room[n] <= FileSize
          /\ 2 * room[n + 1] <= ReassignSize + 1
          /\ \A m \in Counts, k \in Nat :
                m <= k /\ k < n => 2 * room[k + 1] <= room[k]

(* One number of subworkers for all runs, and two bytes for each.          *)
LEMMA SameCountIsRoomy ==
    ASSUME NEW n \in Nat \ {0}, Counts = {n}, 2 * n <= FileSize, ReassignSize >= 3
    PROVE  Roomy([k \in Nat \ {0} |-> 2])
<1> DEFINE room == [k \in Nat \ {0} |-> 2]
<1>1. room \in [Nat \ {0} -> Nat] /\ \A k \in Nat \ {0} : room[k] = 2
  OBVIOUS
<1> HIDE DEF room
<1>2. n + 1 \in Nat \ {0} /\ FileSize \in Nat /\ ReassignSize \in Nat
  BY HttpStepAssumption
<1>3. n * room[n] <= FileSize /\ 2 * room[n + 1] <= ReassignSize + 1
  BY <1>1, <1>2
<1>4. \A k \in Nat : ~ (n <= k /\ k < n)
  OBVIOUS
<1>5. \A j, k \in Nat \ {0} : j <= k => 2 <= room[k] /\ room[k] <= room[j]
  BY <1>1
<1> QED BY <1>1, <1>3, <1>4, <1>5 DEF Roomy, room

(* Any numbers of subworkers up to the 8 of _do_download (main.py:71), and *)
(* a file of 256 bytes or more.                                            *)
LEMMA EightAreRoomy ==
    ASSUME Counts \subseteq 1 .. 8, FileSize >= 256, ReassignSize >= 255
    PROVE  \E room : Roomy(room)
<1> DEFINE room == [k \in Nat \ {0} |->
                      CASE k = 1 -> 256 [] k = 2 -> 128 [] k = 3 -> 64 [] k = 4 -> 32
                        [] k = 5 -> 16 [] k = 6 -> 8 [] k = 7 -> 4 [] OTHER -> 2]
<1>1. /\ room[1] = 256 /\ room[2] = 128 /\ room[3] = 64 /\ room[4] = 32
      /\ room[5] = 16 /\ room[6] = 8 /\ room[7] = 4
      /\ \A k \in Nat \ {0} : k >= 8 => room[k] = 2
  OBVIOUS
<1>2. room \in [Nat \ {0} -> Nat]
  OBVIOUS
<1> HIDE DEF room
<1>3. \A k \in Nat \ {0} : k \in {1, 2, 3, 4, 5, 6, 7} \/ k >= 8
  OBVIOUS
<1>4. \A j, k \in Nat \ {0} : j <= k => 2 <= room[k] /\ room[k] <= room[j]
  <2> TAKE j, k \in Nat \ {0}
  <2> HAVE j <= k
  <2>1. CASE k >= 8
    BY <1>1, <1>3, <2>1
  <2>2. CASE k \in {1, 2, 3, 4, 5, 6, 7}
    BY <1>1, <1>3, <2>2
  <2> QED BY <1>3, <2>1, <2>2
<1>5. FileSize \in Nat /\ ReassignSize \in Nat
  BY HttpStepAssumption
<1>6. ASSUME NEW n \in Counts
      PROVE  /\ n * room[n] <= FileSize
             /\ 2 * room[n + 1] <= ReassignSize + 1
             /\ \A m \in Counts, k \in Nat :
                   m <= k /\ k < n => 2 * room[k + 1] <= room[k]
  <2>1. n \in {1, 2, 3, 4, 5, 6, 7, 8}
    BY <1>6
  <2>2. n * room[n] <= FileSize
    BY <1>1, <1>5, <2>1
  <2>3. 2 * room[n + 1] <= ReassignSize + 1
    BY <1>1, <1>5, <2>1
  <2>4. ASSUME NEW m \in Counts, NEW k \in Nat, m <= k, k < n
        PROVE  2 * room[k + 1] <= room[k]
    <3>1. k \in {1, 2, 3, 4, 5, 6, 7}
      BY <2>1, <2>4, m \in 1 .. 8
    <3> QED BY <1>1, <3>1
  <2> QED BY <2>2, <2>3, <2>4
<1> QED BY <1>2, <1>4, <1>6 DEF Roomy

AllLong(subs) == \A i \in DOMAIN subs : subs[i].end # UNKNOWN

(* There are as many ranges as some run asked for, and the first has room. *)
Spacious(subs, room) ==
    /\ \E n \in Counts : n <= Len(subs)
    /\ subs[1].start = 0
    /\ room[Len(subs)] <= subs[1].end + 1

Enough(room) ==
    /\ phase # "none" => wanted \in Counts
    /\ record # << >> => Spacious(record, room)
    /\ canRange /\ subworkers # << >> => Spacious(subworkers, room)

LEMMA RoomyFacts ==
    ASSUME NEW room, Roomy(room), NEW n \in Counts
    PROVE  /\ n \in Nat \ {0} /\ FileSize \in Nat \ {0} /\ 2 * n <= FileSize
           /\ ReassignSize \in Nat /\ room[n] \in Nat /\ 2 <= room[n]
<1>1. n \in Nat \ {0} /\ FileSize \in Nat /\ ReassignSize \in Nat
  BY HttpStepAssumption
<1>2. room[n] \in Nat /\ 2 <= room[n] /\ n * room[n] <= FileSize
  BY <1>1 DEF Roomy
<1>3. 2 * n <= room[n] * n /\ room[n] * n = n * room[n]
  BY <1>1, <1>2, MulMono
<1> QED BY <1>1, <1>2, <1>3

LEMMA RoomAt ==
    ASSUME NEW room, Roomy(room), NEW k \in Nat \ {0}
    PROVE  /\ room[k] \in Nat /\ 2 <= room[k]
           /\ \A j \in Nat \ {0} : k <= j => room[j] <= room[k]
<1>1. room[k] \in Nat
  BY DEF Roomy
<1>2. k <= k
  OBVIOUS
<1> QED BY <1>1, <1>2 DEF Roomy

LEMMA ChunksSpacious ==
    ASSUME NEW room, Roomy(room), NEW n \in Counts
    PROVE  /\ n \in 1 .. FileSize
           /\ Spacious(Chunks(FileSize, n), room)
<1> DEFINE c == FileSize \div n
           subs == Chunks(FileSize, n)
<1>1. /\ n \in Nat \ {0} /\ FileSize \in Nat \ {0} /\ 2 * n <= FileSize
      /\ room[n] \in Nat /\ 2 <= room[n] /\ n * room[n] <= FileSize
  BY RoomyFacts DEF Roomy
<1>2. c \in Nat /\ room[n] <= c /\ n * c <= FileSize
  <2>1. c \in Nat /\ n * c <= FileSize /\ FileSize < n * c + n
    BY <1>1
  <2> HIDE DEF c
  <2>2. SUFFICES ASSUME c + 1 <= room[n] PROVE FALSE
    BY <1>1, <2>1
  <2>3. (c + 1) * n <= room[n] * n
    BY <1>1, <2>1, <2>2, MulMono
  <2>4. (c + 1) * n = n * c + n /\ room[n] * n = n * room[n]
    BY <1>1, <2>1
  <2> QED BY <1>1, <2>1, <2>3, <2>4
<1>3. subs = [i \in 1 .. n |->
                Subworker((i - 1) * c, IF i = n THEN FileSize - 1 ELSE i * c - 1)]
  BY DEF Chunks
<1> HIDE DEF c, subs
<1>4. Len(subs) = n /\ 1 \in 1 .. n
  BY <1>1, <1>3
<1>5. /\ subs[1].start = (1 - 1) * c
      /\ subs[1].end = IF 1 = n THEN FileSize - 1 ELSE 1 * c - 1
  BY <1>3, <1>4 DEF Subworker
<1>6. subs[1].start = 0 /\ room[n] <= subs[1].end + 1
  BY <1>1, <1>2, <1>5
<1>7. Spacious(subs, room)
  BY <1>1, <1>4, <1>6 DEF Spacious
<1> QED BY <1>1, <1>7 DEF subs

(* A split leaves at least half of the range, and of what it had still to  *)
(* come the larger half.                                                   *)
LEMMA LargerHalf ==
    ASSUME NEW position \in Nat, NEW left \in Nat, NEW newEnd \in Nat, NEW x \in Nat,
           newEnd = position + left \div 2 + (left % 2) - 1,
           2 * x <= position + left \/ 2 * x <= left + 1
    PROVE  x <= newEnd + 1
<1> DEFINE h == left \div 2  o == left % 2
<1>1. h \in Int /\ o \in 0 .. 1 /\ left = 2 * h + o
  OBVIOUS
<1>2. newEnd = position + h + o - 1
  OBVIOUS
<1> HIDE DEF h, o
<1> QED BY <1>1, <1>2

LEMMA SplitAtSpacious ==
    ASSUME NEW room, Roomy(room), NEW subs \in Seq(SubworkerType), NEW i \in DOMAIN subs,
           Remaining(subs[i]) >= 2, Spacious(subs, room),
           \/ 2 * room[Len(subs) + 1] <= room[Len(subs)]
           \/ 2 * room[Len(subs) + 1] <= Remaining(subs[i]) + 1
    PROVE  Spacious(SplitAt(subs, i), room)
<1> DEFINE newEnd == Position(subs[i]) + Remaining(subs[i]) \div 2
                        + (Remaining(subs[i]) % 2) - 1
           kept   == [subs EXCEPT ![i].end = newEnd]
           newSw  == Subworker(newEnd + 1, subs[i].end)
           n      == Len(subs)
<1>1. subs[i] \in SubworkerType /\ n \in Nat \ {0} /\ DOMAIN subs = 1 .. n
  OBVIOUS
<1>2. newEnd \in Nat /\ newEnd < subs[i].end /\ subs[i].end \in Nat
  BY <1>1, SplitPoint
<1>3. SplitAt(subs, i) = Append(kept, newSw)
  BY DEF SplitAt
<1>4. /\ Position(subs[i]) \in Nat /\ Remaining(subs[i]) \in Nat
      /\ subs[i].end + 1 = Position(subs[i]) + Remaining(subs[i])
  <2>1. /\ subs[i].start \in Nat /\ subs[i].receivedBytes \in Nat /\ subs[i].end \in Nat
    BY <1>1, <1>2 DEF SubworkerType
  <2>2. Position(subs[i]) \in Nat
    BY <2>1 DEF Position
  <2>3. Remaining(subs[i]) = subs[i].end - Position(subs[i]) + 1
    BY DEF Remaining
  <2> QED BY <2>1, <2>2, <2>3
<1>5. newEnd = Position(subs[i]) + Remaining(subs[i]) \div 2
                  + (Remaining(subs[i]) % 2) - 1
  OBVIOUS
<1> HIDE DEF newEnd
<1>6. /\ kept \in Seq(SubworkerType) /\ Len(kept) = n
      /\ kept[i].start = subs[i].start /\ kept[i].end = newEnd
      /\ \A j \in DOMAIN subs : j # i => kept[j] = subs[j]
  <2>1. [subs[i] EXCEPT !.end = newEnd] \in SubworkerType
    BY <1>1, <1>2 DEF SubworkerType
  <2> QED BY <1>1, <2>1 DEF SubworkerType
<1>7. newSw \in SubworkerType
  BY <1>2 DEF Subworker, SubworkerType
<1> HIDE DEF kept, newSw
<1>8. Len(Append(kept, newSw)) = n + 1 /\ Append(kept, newSw)[1] = kept[1]
  BY <1>1, <1>6, <1>7
<1>9. /\ room[n] \in Nat /\ room[n + 1] \in Nat /\ room[n + 1] <= room[n]
      /\ subs[1].start = 0 /\ room[n] <= subs[1].end + 1
  <2>1. n + 1 \in Nat \ {0} /\ n <= n + 1
    BY <1>1
  <2> QED BY <1>1, <2>1, RoomAt DEF Spacious
<1>10. kept[1].start = 0 /\ room[n + 1] <= kept[1].end + 1
  <2>1. CASE i = 1
    <3> DEFINE x == room[n + 1]  p == Position(subs[i])  left == Remaining(subs[i])
    <3>1. 2 * x <= p + left \/ 2 * x <= left + 1
      BY <1>1, <1>2, <1>4, <1>9, <2>1
    <3>2. /\ x \in Nat /\ p \in Nat /\ left \in Nat /\ newEnd \in Nat
          /\ newEnd = p + left \div 2 + (left % 2) - 1
      BY <1>2, <1>4, <1>9, <1>5
    <3> HIDE DEF x, p, left
    <3>3. x <= newEnd + 1
      BY <3>1, <3>2, LargerHalf
    <3>4. room[n + 1] <= newEnd + 1
      BY <3>3 DEF x
    <3> QED BY <1>2, <1>6, <1>9, <2>1, <3>4
  <2>2. CASE i # 1
    <3>1. subs[1] \in SubworkerType /\ kept[1] = subs[1]
      BY <1>1, <1>6, <2>2
    <3> QED BY <1>9, <3>1 DEF SubworkerType, NOT_SUPPORTED
  <2> QED BY <2>1, <2>2
<1>11. \E m \in Counts : m <= n + 1
  BY <1>1, HttpStepAssumption DEF Spacious, n
<1> QED BY <1>3, <1>8, <1>10, <1>11 DEF Spacious

LEMMA ReassignSpacious ==
    ASSUME NEW room, Roomy(room), NEW subs \in Seq(SubworkerType), Sound(subs),
           subs # << >>, Spacious(subs, room)
    PROVE  /\ Spacious(Reassign(subs), room)
           /\ Reassign(subs) \in Seq(SubworkerType) /\ Sound(Reassign(subs))
           /\ Reassign(subs) # << >>
<1>1. PICK n \in Counts : n <= Len(subs)
  BY DEF Spacious
<1>2. n \in Nat \ {0} /\ FileSize > 0 /\ ReassignSize \in Nat /\ Len(subs) \in Nat \ {0}
  BY RoomyFacts
<1>3. Reassign(subs) = SplitSlowest(subs, ReassignSize)
  BY <1>2 DEF Reassign, Reassigned
<1>4. 2 * room[Len(subs) + 1] <= ReassignSize + 1
  <2>1. /\ 2 * room[n + 1] <= ReassignSize + 1
        /\ room[Len(subs) + 1] <= room[n + 1]
        /\ room[Len(subs) + 1] \in Nat /\ room[n + 1] \in Nat
    <3>1. n + 1 \in Nat \ {0} /\ Len(subs) + 1 \in Nat \ {0} /\ n + 1 <= Len(subs) + 1
      BY <1>1, <1>2
    <3>2. 2 * room[n + 1] <= ReassignSize + 1
      BY DEF Roomy
    <3> QED BY <3>1, <3>2, RoomAt
  <2> QED BY <1>2, <2>1
<1>5. ASSUME NEW i \in DOMAIN subs, Remaining(subs[i]) >= 2,
             Remaining(subs[i]) >= ReassignSize, Reassign(subs) = SplitAt(subs, i)
      PROVE  Spacious(Reassign(subs), room)
  <2>1. room[Len(subs) + 1] \in Nat /\ Remaining(subs[i]) \in Int
    BY <1>2, RemainingInt, RoomAt
  <2>2. 2 * room[Len(subs) + 1] <= Remaining(subs[i]) + 1
    BY <1>2, <1>4, <1>5, <2>1
  <2> QED BY <1>5, <2>2, SplitAtSpacious
<1>6. Spacious(Reassign(subs), room)
  BY <1>2, <1>3, <1>5, SplitSlowestCases
<1>7. Grows(subs, Reassign(subs))
  BY ReassignedGrows DEF Reassign
<1>8. Reassign(subs) \in Seq(SubworkerType) /\ Sound(Reassign(subs))
      /\ Len(subs) <= Len(Reassign(subs))
  BY <1>7 DEF Grows
<1>9. Reassign(subs) # << >>
  <2>1. Len(Reassign(subs)) # 0
    BY <1>2, <1>8
  <2> QED BY <2>1
<1> QED BY <1>6, <1>8, <1>9

LEMMA FourSpacious ==
    ASSUME NEW room, Roomy(room), NEW subs \in Seq(SubworkerType), Sound(subs),
           subs # << >>, Spacious(subs, room)
    PROVE  Spacious(Reassign(Reassign(Reassign(Reassign(subs)))), room)
<1> DEFINE Fit(s) == s \in Seq(SubworkerType) /\ Sound(s) /\ s # << >> /\ Spacious(s, room)
           s1 == Reassign(subs)  s2 == Reassign(s1)  s3 == Reassign(s2)
<1>1. Fit(s1)
  BY ReassignSpacious
<1> HIDE DEF s1
<1>2. Fit(s2)
  BY <1>1, ReassignSpacious
<1> HIDE DEF s2
<1>3. Fit(s3)
  BY <1>2, ReassignSpacious
<1> HIDE DEF s3
<1>4. Fit(Reassign(s3))
  BY <1>3, ReassignSpacious
<1> QED BY <1>4 DEF s1, s2, s3

LEMMA EnoughInit == \A room : Init => Enough(room)
  BY DEF Init, Enough

(* Steps that leave the subworkers alone, or drop them, or turn to a       *)
(* single stream.                                                          *)
LEMMA EnoughFrame ==
    ASSUME NEW room, Enough(room), record' \in {record, << >>},
           phase' = "none" \/ (phase # "none" /\ UNCHANGED wanted) \/ wanted' \in Counts,
           \/ subworkers' = << >>
           \/ ~ canRange'
           \/ UNCHANGED << subworkers, canRange >>
    PROVE  Enough(room)'
  BY DEF Enough

LEMMA EnoughNext ==
    ASSUME NEW room, Roomy(room), WellFormed, Enough(room), [FilesNext]_vars
    PROVE  Enough(room)'
<1>0. subworkers \in Seq(SubworkerType) /\ Sound(subworkers)
  BY DEF WellFormed, TypeOK
<1>1. CASE UNCHANGED vars
  BY <1>1 DEF vars, disk, step, Enough
<1>2. CASE \E i \in DOMAIN task : SubworkerStep(i)
  <2>1. PICK i \in DOMAIN task : SubworkerStep(i)
    BY <1>2
  <2>2. PICK r \in Nat : subworkers' \in { [subworkers EXCEPT ![i].receivedBytes = r],
                                  Reassign([subworkers EXCEPT ![i].receivedBytes = r]) }
    BY <2>1, SubworkerStepList
  <2> DEFINE subs == [subworkers EXCEPT ![i].receivedBytes = r]
  <2>3. i \in DOMAIN subworkers /\ UNCHANGED << record, wanted, canRange, phase >>
        /\ phase = "group"
    BY <2>1, SubworkerStepList
       DEF SubworkerStep, Start, Retry, ReplyOk, ReplyUnsatisfiable, ReplyPermanent, At, Steady,
           ReplyFull, TransientError, Chunk, WriteFatal, Resume, StreamEnd, Raise, step
  <2>4. SameRanges(subworkers, subs) /\ subworkers # << >>
    BY <1>0, <2>3, CountedRanges
  <2>5. subworkers' \in {subs, Reassign(subs)}
    BY <2>2
  <2> HIDE DEF subs
  <2>6. subs \in Seq(SubworkerType) /\ Sound(subs) /\ subs # << >>
    BY <1>0, <2>4 DEF SameRanges
  <2>7. canRange => Spacious(subs, room)
    <3>1. 1 \in DOMAIN subworkers
      BY <1>0, <2>4
    <3> QED BY <2>4, <3>1 DEF Enough, Spacious, SameRanges
  <2>8. canRange => Spacious(subworkers', room)
    BY <2>5, <2>6, <2>7, ReassignSpacious
  <2> QED BY <2>3, <2>8 DEF Enough
<1>3. CASE RunFresh
  <2>1. /\ record' \in {record, << >>} /\ UNCHANGED << canRange, wanted >>
        /\ wanted \in Counts /\ subworkers' = BuildSubworkers(FileSize, canRange, wanted)
    BY <1>3 DEF RunFresh, DeleteRecord, Launch, Enough
  <2>2. wanted \in 1 .. FileSize /\ Spacious(Chunks(FileSize, wanted), room)
    BY <2>1, ChunksSpacious
  <2>3. FileSize \in Nat \ {0} /\ wanted <= FileSize
    BY <2>1, RoomyFacts, <2>2
  <2>4. canRange => subworkers' = Chunks(FileSize, wanted)
    BY <2>1, <2>3 DEF BuildSubworkers, MinOf, UNKNOWN
  <2> QED BY <2>1, <2>2, <2>4 DEF Enough
<1>4. CASE RunRestored
  BY <1>4 DEF RunRestored, Enough, disk
<1>5. CASE RestoreSplit
  <2>1. /\ phase = "restoring" /\ canRange /\ wanted \in Counts /\ TooFew
        /\ subworkers' = SplitSlowest(subworkers, 2)
        /\ UNCHANGED << record, phase, canRange, wanted >>
    BY <1>5 DEF RestoreSplit, WellFormed, Enough, disk, step
  <2>2. wanted \in Nat \ {0} /\ FileSize \in Nat
    BY <2>1, RoomyFacts
  <2>3. Len(subworkers) < wanted /\ SplitSlowest(subworkers, 2) # subworkers
    BY <1>0, <2>1, <2>2 DEF TooFew, MinOf
  <2>4. PICK i \in DOMAIN subworkers : /\ Remaining(subworkers[i]) >= 2
                                       /\ subworkers' = SplitAt(subworkers, i)
    BY <1>0, <2>1, <2>3, SplitSlowestCases
  <2>5. subworkers # << >> /\ Spacious(subworkers, room)
    BY <1>0, <2>1, <2>4 DEF Enough
  <2>6. 2 * room[Len(subworkers) + 1] <= room[Len(subworkers)]
    <3>1. PICK m \in Counts : m <= Len(subworkers)
      BY <2>5 DEF Spacious
    <3>2. Len(subworkers) \in Nat
      BY <1>0
    <3> QED BY <2>1, <2>3, <3>1, <3>2 DEF Roomy
  <2>7. Spacious(subworkers', room)
    BY <1>0, <2>4, <2>5, <2>6, SplitAtSpacious
  <2> QED BY <2>1, <2>7 DEF Enough
<1>6. CASE Supervise
  <2>1. /\ phase = "group" /\ UNCHANGED << canRange, wanted, phase >>
        /\ record' = IF canRange THEN subworkers ELSE record
        /\ subworkers' \in { subworkers, Reassign(subworkers),
                             Reassign(Reassign(Reassign(Reassign(subworkers)))) }
    BY <1>6 DEF Supervise
  <2>2. ASSUME subworkers # << >>, canRange
        PROVE  Spacious(subworkers', room)
    BY <1>0, <2>1, <2>2, ReassignSpacious, FourSpacious DEF Enough
  <2>3. ASSUME subworkers = << >> PROVE subworkers' = << >>
    BY <2>1, <2>3, EmptyKept
  <2> QED BY <2>1, <2>2, <2>3 DEF Enough
<1>7. CASE \/ RestoreDone \/ Relaunch \/ SuperviseFails \/ Abort \/ Cancel
           \/ GroupCompleted \/ GroupCancelled \/ GroupFailed \/ Settle
           \/ DeleteFiles \/ MoveFiles \/ RemoteChanges
  <2>1. /\ UNCHANGED << subworkers, canRange, wanted >> /\ record' \in {record, << >>}
        /\ phase # "none"
    BY <1>7, FilesStep DEF RestoreDone, Relaunch, Launch, SuperviseFails, Abort, Cancel,
          GroupCompleted, GroupCancelled, GroupFailed, GroupEnded, Settle, DeleteRecord,
          disk, step
  <2> QED BY <2>1, EnoughFrame
<1>8. CASE FallBack
  <2>1. /\ ~ canRange' /\ record' \in {record, << >>} /\ UNCHANGED wanted /\ phase # "none"
    BY <1>8 DEF FallBack, DeleteRecord, MustFallBack, GroupEnded, disk
  <2> QED BY <2>1, EnoughFrame
<1>9. CASE \/ \E k \in Counts, r \in Ranged : Create(k, r)
           \/ \E k \in Counts : SetOptions(k)
  <2>1. /\ UNCHANGED subworkers /\ record' = record /\ wanted' \in Counts
        /\ subworkers' = << >> \/ UNCHANGED canRange
    BY <1>9 DEF Create, SetOptions, WellFormed, disk
  <2> QED BY <2>1, EnoughFrame
<1>10. CASE Kill \/ KillOpeningRecord \/ KillInFallBack
  <2>1. subworkers' = << >> /\ record' \in {record, << >>} /\ phase' = "none"
    BY <1>10 DEF Kill, KillOpeningRecord, KillInFallBack, Lose, disk
  <2> QED BY <2>1, EnoughFrame
<1>11. CASE Finished
  BY <1>1, <1>11 DEF Finished
<1> QED BY <1>1, <1>2, <1>3, <1>4, <1>5, <1>6, <1>7, <1>8, <1>9, <1>10, <1>11
        DEF FilesNext, Next

(* The ranges after the first begin after it ends.                         *)
LEMMA SpaciousLong ==
    ASSUME NEW room, Roomy(room), NEW subs \in Seq(SubworkerType), Sound(subs),
           AllRanges(subs), Tiles(subs), subs # << >>, Spacious(subs, room)
    PROVE  AllLong(subs)
<1>1. Len(subs) \in Nat \ {0} /\ 1 \in DOMAIN subs /\ DOMAIN subs = 1 .. Len(subs)
  OBVIOUS
<1>2. subs[1].start = 0 /\ 2 <= subs[1].end + 1
  <2>1. subs[1] \in SubworkerType
    BY <1>1
  <2>2. 2 <= room[Len(subs)] /\ room[Len(subs)] \in Nat
    BY <1>1 DEF Roomy
  <2> QED BY <2>1, <2>2 DEF Spacious, SubworkerType, NOT_SUPPORTED
<1> SUFFICES ASSUME NEW j \in DOMAIN subs PROVE subs[j].end # UNKNOWN
  BY DEF AllLong
<1>3. /\ subs[j] \in SubworkerType /\ subs[1] \in SubworkerType
      /\ subs[j].end # NOT_SUPPORTED /\ subs[1].end # NOT_SUPPORTED
  BY <1>1 DEF AllRanges
<1>4. subs[j].start <= subs[j].end
  BY <1>3 DEF Sound
<1>5. CASE j = 1
  BY <1>2, <1>5 DEF UNKNOWN
<1>6. CASE j # 1
  <2>1. subs[1].end < subs[j].start \/ subs[j].end < subs[1].start
    BY <1>1, <1>6 DEF Tiles
  <2> QED BY <1>2, <1>3, <1>4, <2>1 DEF SubworkerType, UNKNOWN
<1> QED BY <1>5, <1>6

LEMMA EnoughLong ==
    ASSUME NEW room, Roomy(room), WellFormed, Tiled, Apart, Enough(room)
    PROVE  Long(subworkers)
<1>1. CASE canRange /\ subworkers # << >>
  <2>1. /\ subworkers \in Seq(SubworkerType) /\ Sound(subworkers) /\ AllRanges(subworkers)
        /\ Spacious(subworkers, room)
    BY <1>1 DEF WellFormed, TypeOK, Enough
  <2>2. FileSize > 0
    BY <2>1, RoomyFacts DEF Spacious
  <2>3. AllLong(subworkers)
    BY <1>1, <2>1, <2>2, SpaciousLong DEF Tiled
  <2> QED BY <2>3 DEF Long, AllLong
<1>2. CASE ~ (canRange /\ subworkers # << >>)
  <2>1. subworkers = << >> \/ Len(subworkers) = 1
    BY <1>2 DEF Apart, SingleStream
  <2>2. Len(subworkers) = 0 \/ Len(subworkers) = 1
    BY <2>1
  <2>3. ~ (0 > 1) /\ ~ (1 > 1)
    OBVIOUS
  <2>4. ~ (Len(subworkers) > 1)
    BY <2>2, <2>3, Zenon
  <2> QED BY <2>4, Zenon DEF Long
<1> QED BY <1>1, <1>2

(* No two subworkers fetch the same byte (_splitSlowest and                *)
(* _reassignSubworker, _engine.py), whatever the disk, the server, the     *)
(* user and the system do, and whatever numbers of subworkers the callers  *)
(* ask for in turn, when the file and ReassignSize are large enough for    *)
(* them: 256 bytes are enough for numbers up to 8.                         *)
THEOREM RangesNeverOverlap ==
    ASSUME \E room : Roomy(room)
    PROVE  FilesSpec => []NoOverlap
<1>1. PICK room : Roomy(room)
  OBVIOUS
<1> DEFINE Inv == WellFormed /\ Tiled /\ Carried /\ Apart /\ Enough(room)
<1>2. Init => Inv
  BY WellFormedInit, TiledInit, CarriedInit, ApartInit, EnoughInit
<1>3. Inv /\ [FilesNext]_vars => Inv'
  BY <1>1, WellFormedFilesNext, TiledNext, CarriedNext, ApartNext, EnoughNext
<1>4. Inv => Long(subworkers)
  BY <1>1, EnoughLong
<1> QED BY <1>2, <1>3, <1>4, LongRangesNeverOverlap, PTL DEF FilesSpec

-----------------------------------------------------------------------------
(***************************************************************************)
(* HttpStep, with its files, implements Transfer: each of its steps is a   *)
(* step of Transfer, or changes nothing that Transfer knows of.            *)
(***************************************************************************)

(* The refinement mapping (see HttpStepFiles).                             *)
Mapped == << good \cap Bytes, Recorded, Run >>

(* All that is known of a state, whether the step was told the length of   *)
(* the file or not, and that no recorded byte is given up.                 *)
KnownAll ==
    /\ (Faithful /\ Known) \/ (FaithfulUnsized /\ KnownUnsized)
    /\ Carried

(* What the environment must keep to: as for CompletedIsWhole or           *)
(* UnsizedIsWhole, and the process does not die while it opens the record, *)
(* which empties it.                                                       *)
Tidy == (Faithful \/ FaithfulUnsized) /\ "kill_opening" \notin Env

-----------------------------------------------------------------------------
(* The steps of Transfer.                                                  *)

LEMMA StutterStep ==
    ASSUME good' = good, Recorded' = Recorded, Run' = Run
    PROVE  [Download!Next]_Mapped
  BY DEF Mapped, Bytes

LEMMA BeginStep ==
    ASSUME Run = "off", Run' = "on",
           \/ good' = good /\ Recorded' = Recorded
           \/ good' \in {good, {}} /\ Recorded' = {}
    PROVE  [Download!Next]_Mapped
  BY DEF Mapped, Bytes, Download!Next, Download!Resume, Download!StartAfresh

LEMMA StoreStep ==
    ASSUME Run = "on", Run' = "on", Recorded' = Recorded,
           good \subseteq good', good' \subseteq Bytes
    PROVE  [Download!Next]_Mapped
  BY DEF Mapped, Bytes, Download!Next, Download!Store

LEMMA SaveStep ==
    ASSUME Run = "on", Run' = "on", good' = good,
           Recorded \subseteq Recorded', Recorded' \subseteq good \cap Bytes
    PROVE  [Download!Next]_Mapped
  BY DEF Mapped, Bytes, Download!Next, Download!Save

LEMMA UnsaveStep ==
    ASSUME Run = "on", Run' = "on", good' = good, Recorded' = {}
    PROVE  [Download!Next]_Mapped
  BY DEF Mapped, Bytes, Download!Next, Download!Unsave

LEMMA StartOverStep ==
    ASSUME Run = "on", Run' = "on", good' = {}, Recorded' = {}
    PROVE  [Download!Next]_Mapped
  BY DEF Mapped, Bytes, Download!Next, Download!StartOver

LEMMA StopStep ==
    ASSUME Run \in {"on", "complete"}, Run' = "off", good' = good, Recorded' = Recorded
    PROVE  [Download!Next]_Mapped
  BY DEF Mapped, Bytes, Download!Next, Download!Stop

LEMMA CompleteStep ==
    ASSUME Run = "on", Run' = "complete", good = Bytes, good' = good, Recorded' = Recorded
    PROVE  [Download!Next]_Mapped
  BY DEF Mapped, Bytes, Download!Next, Download!Complete

LEMMA FinishStep ==
    ASSUME Run = "complete", Run' = "over", good' = good, Recorded' = {}
    PROVE  [Download!Next]_Mapped
  BY DEF Mapped, Bytes, Download!Next, Download!Finish

LEMMA DeleteStep ==
    ASSUME Run = "off", Run' = "off", good' \in {good, {}}, Recorded' = {}
    PROVE  [Download!Next]_Mapped
  BY DEF Mapped, Bytes, Download!Next, Download!Delete

-----------------------------------------------------------------------------
(* The steps of HttpStep.                                                  *)

(* A step that leaves the file and the record alone.                       *)
LEMMA SameFiles ==
    ASSUME UNCHANGED << good, record >>
    PROVE  good' = good /\ Recorded' = Recorded
  BY DEF Recorded

LEMMA NoRecord ==
    /\ record = << >> => Recorded = {}
    /\ record' = << >> => Recorded' = {}
  BY DEF Recorded

LEMMA Shorter ==
    ASSUME NEW m \in Nat, NEW n \in Nat, m <= n
    PROVE  0 .. m - 1 \subseteq 0 .. n - 1
  OBVIOUS

(* What a known length and an unknown one have in common.                  *)
LEMMA KnownFacts ==
    ASSUME KnownAll
    PROVE  /\ OrderlyFiles /\ WellFormed /\ Claimed /\ Carried /\ Length \in Nat
           /\ good \subseteq 0 .. Length - 1
           /\ status = "COMPLETED" => phase \in {"completing", "finished"}
<1>1. CASE Faithful /\ Known
  BY <1>1, LengthFacts DEF KnownAll, Faithful, Known, Measured
<1>2. CASE FaithfulUnsized /\ KnownUnsized
  <2>1. /\ good \subseteq 0 .. size - 1 /\ size <= Length /\ size \in Nat /\ Length \in Nat
    BY <1>2, UnsizedFacts DEF KnownUnsized, Streamed, WellFormed, TypeOK
  <2>2. good \subseteq 0 .. Length - 1
    BY <2>1
  <2> QED BY <1>2, <2>1, <2>2 DEF KnownAll, FaithfulUnsized, KnownUnsized, Streamed
<1> QED BY <1>1, <1>2 DEF KnownAll

(* Completed is a run that has ended, and only that.                       *)
LEMMA RunOn ==
    ASSUME KnownAll, phase \notin {"none", "idle", "completing", "finished"}
    PROVE  status # "COMPLETED" /\ Run = "on"
  BY KnownFacts DEF Run

LEMMA RunOff ==
    ASSUME KnownAll, phase \in {"none", "idle"}
    PROVE  status # "COMPLETED" /\ Run = "off"
  BY KnownFacts DEF Run

(* A single stream that ends leaves a file of its full length.             *)
LEMMA StreamEndsWhole ==
    ASSUME KnownAll, NEW i \in DOMAIN task, SubworkerStep(i), ~ canRange,
           i \in DOMAIN subworkers, subworkers[i].end = NOT_SUPPORTED,
           UNCHANGED subworkers, i \in DOMAIN task', task'[i].pc = "done"
    PROVE  subworkers[i].receivedBytes = Length
<1>1. CASE Faithful /\ Known
  <2>1. StreamDone(subworkers', task', size')
    BY <1>1, StreamStep DEF Known
  <2> QED BY <2>1 DEF StreamDone
<1>2. CASE FaithfulUnsized /\ KnownUnsized
  <2>1. EndsWhole(subworkers', task')
    BY <1>2, StepWhole DEF KnownUnsized
  <2> QED BY <2>1 DEF EndsWhole
<1> QED BY <1>1, <1>2 DEF KnownAll

(* A subworker adds to the file, or empties it: a single stream that       *)
(* starts over.                                                            *)
LEMMA StepStores ==
    ASSUME KnownAll, NEW i \in DOMAIN task, SubworkerStep(i)
    PROVE  good \subseteq good' \/ (~ canRange /\ good' = {})
<1> USE DEF At
<1>0. /\ phase = "group" /\ Paired(subworkers, task) /\ i \in DOMAIN subworkers
      /\ subworkers[i] \in SubworkerType /\ task[i] \in TaskType
      /\ canRange => subworkers[i].end # NOT_SUPPORTED
      /\ good \subseteq 0 .. Length - 1
  BY KnownFacts
     DEF SubworkerStep, Start, Retry, ReplyOk, ReplyUnsatisfiable, ReplyPermanent,
         ReplyFull, TransientError, Chunk, WriteFatal, Resume, StreamEnd, Raise, WellFormed,
         TypeOK, Paired, AllRanges
<1>1. CASE UNCHANGED good
  BY <1>1
<1>2. ASSUME NEW mode, LoopTop(i, mode), mode = "single" => subworkers[i].end = NOT_SUPPORTED
      PROVE  good \subseteq good' \/ (~ canRange /\ good' = {})
  <2>1. UNCHANGED good \/ (mode = "single" /\ Truncated(0))
    BY <1>2 DEF LoopTop
  <2>2. Truncated(0) => good' = {}
    BY <1>0 DEF Truncated
  <2> QED BY <1>0, <1>2, <2>1, <2>2
<1>3. CASE Start(i)
  <2>1. ModeOf(subworkers[i]) = "single" => subworkers[i].end = NOT_SUPPORTED
    BY DEF ModeOf
  <2> QED BY <1>2, <1>3, <2>1 DEF Start
<1>4. CASE Retry(i)
  <2>1. task[i].mode = "single" => subworkers[i].end = NOT_SUPPORTED
    BY <1>0 DEF Paired
  <2> QED BY <1>2, <1>4, <2>1 DEF Retry
<1>5. CASE \/ ReplyOk(i) \/ ReplyUnsatisfiable(i) \/ ReplyPermanent(i) \/ ReplyFull(i)
           \/ TransientError(i) \/ WriteFatal(i) \/ Resume(i)
  BY <1>1, <1>5 DEF ReplyOk, ReplyUnsatisfiable, ReplyPermanent, ReplyFull, TransientError,
                    WriteFatal, Raise, Resume
<1>6. ASSUME NEW n \in ChunkSizes, Chunk(i, n) PROVE good \subseteq good'
  BY <1>6 DEF Chunk, Written
<1>7. CASE StreamEnd(i)
  <2>1. CASE LoopTop(i, "range")
    BY <1>2, <2>1
  <2>2. CASE task[i].mode = "single" /\ Truncated(subworkers[i].receivedBytes)
                /\ Goto(i, "done") /\ UNCHANGED subworkers
    <3>1. ~ canRange /\ subworkers[i].end = NOT_SUPPORTED
      BY <1>0, <2>2 DEF Paired
    <3>2. i \in DOMAIN task' /\ task'[i].pc = "done"
      BY <1>0, <2>2 DEF Goto, TaskType
    <3>3. subworkers[i].receivedBytes = Length
      BY <1>0, <2>2, <3>1, <3>2, StreamEndsWhole
    <3> QED BY <1>0, <2>2, <3>3 DEF Truncated
  <2> QED BY <1>1, <1>7, <2>1, <2>2 DEF StreamEnd
<1> QED BY <1>3, <1>4, <1>5, <1>6, <1>7 DEF SubworkerStep

LEMMA SubworkerStepMapped ==
    ASSUME Tidy, KnownAll, NEW i \in DOMAIN task, SubworkerStep(i)
    PROVE  [Download!Next]_Mapped
<1>1. phase = "group" /\ UNCHANGED << record, phase, status, canRange >>
  BY DEF SubworkerStep, Start, Retry, ReplyOk, ReplyUnsatisfiable, ReplyPermanent, At, Steady,
         ReplyFull, TransientError, Chunk, WriteFatal, Resume, StreamEnd, Raise, step
<1>2. Run = "on" /\ Run' = "on"
  BY <1>1, RunOn DEF Run
<1>3. Recorded' = Recorded
  BY <1>1 DEF Recorded
<1>4. good' \subseteq Bytes
  <2>1. CASE Faithful /\ Known
    BY <1>1, <2>1, StepDisk DEF Known, Measured, Bytes
  <2>2. CASE FaithfulUnsized /\ KnownUnsized
    <3>1. good' \subseteq 0 .. size' - 1 /\ size' <= Length
      BY <2>2, StepWhole DEF KnownUnsized
    <3>2. size' \in Nat /\ Length \in Nat
      BY KnownFacts, SubworkerStepWellFormed DEF WellFormed, TypeOK
    <3>3. 0 .. size' - 1 \subseteq 0 .. Length - 1
      BY <3>1, <3>2, Shorter
    <3> QED BY <3>1, <3>3 DEF Bytes
  <2> QED BY <2>1, <2>2 DEF KnownAll
<1>5. CASE good \subseteq good'
  BY <1>2, <1>3, <1>4, <1>5, StoreStep
<1>6. CASE ~ canRange /\ good' = {}
  <2>1. record = << >>
    BY <1>1, <1>6, KnownFacts DEF Claimed, ClaimsOnDisk
  <2> QED BY <1>2, <1>3, <1>6, <2>1, NoRecord, StartOverStep
<1> QED BY <1>5, <1>6, StepStores

LEMMA SuperviseMapped ==
    ASSUME Tidy, KnownAll, Supervise
    PROVE  [Download!Next]_Mapped
<1>1. /\ phase = "group" /\ UNCHANGED << good, phase, status, canRange >>
      /\ record' = IF canRange THEN subworkers ELSE record
  BY DEF Supervise
<1>2. Run = "on" /\ Run' = "on"
  BY <1>1, RunOn DEF Run
<1>3. Recorded \subseteq Recorded'
  BY KnownFacts, SuperviseCarried
<1>4. OnDisk(record', good) /\ good \subseteq Bytes
  BY <1>1, KnownFacts DEF Claimed, ClaimsOnDisk, RecordOnDisk, Bytes
<1>5. Recorded' \subseteq good \cap Bytes
  BY <1>4 DEF OnDisk, Recorded
<1> QED BY <1>1, <1>2, <1>3, <1>5, SaveStep

LEMMA StartMapped ==
    ASSUME Tidy, KnownAll,
           RunFresh \/ RunRestored \/ RestoreSplit \/ RestoreDone \/ Relaunch
    PROVE  [Download!Next]_Mapped
<1>0. KnownAll /\ good \subseteq 0 .. Length - 1
  BY KnownFacts
<1>1. CASE RunFresh
  <2>1. phase = "idle" /\ UNCHANGED status /\ phase' = "group" /\ record' = << >>
    BY <1>1, KnownFacts DEF RunFresh, DeleteRecord, OrderlyFiles, OrderlyDisk, Launch
  <2>2. Run = "off" /\ Run' = "on"
    BY <1>0, <2>1, RunOff DEF Run
  <2>3. good' \in {good, {}}
    <3>1. CASE Faithful
      <4>1. good' = (IF canRange THEN good ELSE {}) \cap (0 .. FileSize - 1)
        BY <1>1, <3>1, LengthFacts DEF RunFresh, Preallocate, Fault, Faithful
      <4> QED BY <1>0, <3>1, <4>1, LengthFacts
    <3>2. CASE FaithfulUnsized
      BY <1>1, <3>2, UnsizedFacts DEF RunFresh, Preallocate
    <3> QED BY <3>1, <3>2 DEF Tidy
  <2> QED BY <2>1, <2>2, <2>3, NoRecord, BeginStep
<1>2. CASE RunRestored
  <2>1. phase = "idle" /\ UNCHANGED << status, good, record >> /\ phase' = "restoring"
    BY <1>2 DEF RunRestored, disk
  <2>2. Run = "off" /\ Run' = "on"
    BY <1>0, <2>1, RunOff DEF Run
  <2> QED BY <2>1, <2>2, SameFiles, BeginStep
<1>3. CASE RestoreSplit \/ RestoreDone \/ Relaunch
  <2>1. /\ phase \in {"restoring", "falling_back"} /\ phase' \in {"restoring", "group"}
        /\ UNCHANGED << status, good, record >>
    BY <1>3 DEF RestoreSplit, RestoreDone, Relaunch, Launch, disk, step
  <2>2. Run' = Run
    BY <1>0, <2>1, RunOn DEF Run
  <2> QED BY <2>1, <2>2, SameFiles, StutterStep
<1> QED BY <1>1, <1>2, <1>3

LEMMA EndMapped ==
    ASSUME Tidy, KnownAll,
           \/ SuperviseFails \/ Abort \/ Cancel
           \/ GroupCompleted \/ GroupCancelled \/ GroupFailed \/ FallBack \/ Settle
           \/ Kill \/ KillOpeningRecord \/ KillInFallBack
    PROVE  [Download!Next]_Mapped
<1>0. KnownAll /\ good \subseteq 0 .. Length - 1
  BY KnownFacts
<1>1. CASE SuperviseFails
  <2>1. /\ phase = "group" /\ UNCHANGED << good, status, phase >>
        /\ UNCHANGED record \/ record' = << >>
    BY <1>1 DEF SuperviseFails, step
  <2>2. Run = "on" /\ Run' = "on"
    BY <1>0, <2>1, RunOn DEF Run
  <2>3. CASE UNCHANGED record
    BY <2>1, <2>2, <2>3, SameFiles, StutterStep
  <2>4. CASE record' = << >>
    BY <2>1, <2>2, <2>4, NoRecord, UnsaveStep
  <2> QED BY <2>1, <2>3, <2>4
<1>2. CASE Abort \/ Cancel \/ GroupCancelled \/ GroupFailed
  <2>1. /\ phase = "group" /\ phase' \in {"group", "pausing", "failing"}
        /\ UNCHANGED << good, record >> /\ status' \in {status, "PAUSED"}
    BY <1>2 DEF Abort, Cancel, GroupCancelled, GroupFailed, GroupEnded, disk, step
  <2>2. Run = "on" /\ Run' = "on"
    BY <1>0, <2>1, RunOn DEF Run
  <2> QED BY <2>1, <2>2, SameFiles, StutterStep
<1>3. CASE GroupCompleted
  <2>1. /\ phase = "group" /\ phase' = "completing" /\ status' = "COMPLETED"
        /\ UNCHANGED << good, record >>
    BY <1>3 DEF GroupCompleted, GroupEnded, disk
  <2>2. Run = "on" /\ Run' = "complete"
    BY <1>0, <2>1, RunOn DEF Run
  <2>3. good = Bytes
    BY <1>3, CompletedMeasured, CompletedStreamed DEF KnownAll, Bytes
  <2> QED BY <2>1, <2>2, <2>3, SameFiles, CompleteStep
<1>4. CASE FallBack
  <2>1. /\ phase = "group" /\ UNCHANGED status /\ phase' \in {"falling_back", "failing"}
        /\ \/ record' = << >> /\ Truncated(0)
           \/ UNCHANGED << good, record >>
    BY <1>4, KnownFacts DEF FallBack, MustFallBack, GroupEnded, DeleteRecord, OrderlyFiles,
         OrderlyDisk, disk
  <2>2. Run = "on" /\ Run' = "on"
    BY <1>0, <2>1, RunOn DEF Run
  <2>3. CASE record' = << >> /\ Truncated(0)
    <3>1. good' = {}
      BY <2>3 DEF Truncated
    <3> QED BY <2>2, <2>3, <3>1, NoRecord, StartOverStep
  <2>4. CASE UNCHANGED << good, record >>
    BY <2>2, <2>4, SameFiles, StutterStep
  <2> QED BY <2>1, <2>3, <2>4
<1>5. CASE Settle /\ phase = "completing"
  <2>1. phase' = "finished" /\ UNCHANGED << good, status >> /\ record' = << >>
    BY <1>5, KnownFacts DEF Settle, DeleteRecord, OrderlyFiles, OrderlyDisk, step
  <2>2. CASE status = "COMPLETED"
    <3>1. Run = "complete" /\ Run' = "over"
      BY <1>5, <2>1, <2>2 DEF Run
    <3> QED BY <2>1, <3>1, NoRecord, FinishStep
  <2>3. CASE status # "COMPLETED"
    <3>1. Run = "on" /\ Run' = "on"
      BY <1>5, <2>1, <2>3 DEF Run
    <3> QED BY <2>1, <3>1, NoRecord, UnsaveStep
  <2> QED BY <2>2, <2>3
<1>6. CASE Settle /\ phase # "completing"
  <2>1. /\ phase \in {"pausing", "failing"} /\ phase' = "idle"
        /\ UNCHANGED << good, record, status >>
    BY <1>6 DEF Settle, step
  <2>2. Run = "on" /\ Run' = "off"
    BY <1>0, <2>1, RunOn DEF Run
  <2> QED BY <2>1, <2>2, SameFiles, StopStep
<1>7. CASE Kill
  <2>1. /\ phase # "finished" /\ phase' = "none" /\ status' = "WAITING"
        /\ UNCHANGED << good, record >>
    BY <1>7 DEF Kill, Lose, disk
  <2>2. Run \in {"on", "off", "complete"} /\ Run' = "off"
    BY <2>1 DEF Run
  <2>3. CASE Run = "off"
    BY <2>1, <2>2, <2>3, SameFiles, StutterStep
  <2>4. CASE Run # "off"
    BY <2>1, <2>2, <2>4, SameFiles, StopStep
  <2> QED BY <2>3, <2>4
<1>8. CASE KillOpeningRecord \/ KillInFallBack
  BY <1>8, KnownFacts DEF KillOpeningRecord, KillInFallBack, Fault, Tidy, OrderlyFiles, OrderlyDisk
<1> QED BY <1>1, <1>2, <1>3, <1>4, <1>5, <1>6, <1>7, <1>8

LEMMA NextMapped ==
    ASSUME Tidy, KnownAll, [FilesNext]_vars
    PROVE  [Download!Next]_Mapped
<1>0. KnownAll
  OBVIOUS
<1>1. CASE UNCHANGED vars
  <2>1. UNCHANGED << good, record, status, phase >>
    BY <1>1 DEF vars, disk, step
  <2>2. Run' = Run
    BY <2>1 DEF Run
  <2> QED BY <2>1, <2>2, SameFiles, StutterStep
<1>2. CASE \E i \in DOMAIN task : SubworkerStep(i)
  BY <1>2, SubworkerStepMapped
<1>3. CASE Supervise
  BY <1>3, SuperviseMapped
<1>4. CASE RunFresh \/ RunRestored \/ RestoreSplit \/ RestoreDone \/ Relaunch
  BY <1>4, StartMapped
<1>5. CASE \/ SuperviseFails \/ Abort \/ Cancel
           \/ GroupCompleted \/ GroupCancelled \/ GroupFailed \/ FallBack \/ Settle
           \/ Kill \/ KillOpeningRecord \/ KillInFallBack
  BY <1>5, EndMapped
<1>6. CASE \/ \E n \in Counts, r \in Ranged : Create(n, r)
           \/ \E n \in Counts : SetOptions(n)
  <2>1. /\ UNCHANGED << good, record >> /\ phase \in {"none", "idle"} /\ phase' = "idle"
        /\ status' \in {status, "RUNNING"}
    BY <1>6 DEF Create, SetOptions, disk
  <2>2. Run = "off" /\ Run' = "off"
    BY <1>0, <2>1, RunOff DEF Run
  <2> QED BY <2>1, <2>2, SameFiles, StutterStep
<1>7. CASE Finished
  BY <1>1, <1>7 DEF Finished
<1>8. CASE DeleteFiles \/ MoveFiles \/ RemoteChanges
  <2>1. DeleteFiles /\ record' = << >>
    BY <1>8, KnownFacts DEF DeleteFiles, MoveFiles, RemoteChanges, Fault, OrderlyFiles
  <2>2. phase = "idle" /\ UNCHANGED << phase, status >> /\ good' \in {good, {}}
    BY <2>1, FilesStep
  <2>3. Run = "off" /\ Run' = "off"
    BY <1>0, <2>2, RunOff DEF Run
  <2> QED BY <2>1, <2>2, <2>3, NoRecord, DeleteStep
<1> QED BY <1>1, <1>2, <1>3, <1>4, <1>5, <1>6, <1>7, <1>8 DEF FilesNext, Next

(* HttpStep implements Transfer (HttpStep.run, _supervise, _loadRecord,    *)
(* deleteFiles): bytes that have been stored are given up only by starting *)
(* over, and then no saved progress points at them; only what is stored is *)
(* saved, and a later run takes it up; COMPLETED comes with the whole file.*)
THEOREM TransferImplemented ==
    ASSUME Tidy
    PROVE  FilesSpec => ImplementsTransfer
<1>1. Init => KnownAll /\ Download!Init
  <2>1. Init => Download!Init
    BY DEF Init, Download!Init, Bytes, Recorded, Run
  <2> QED BY <2>1, CarriedInit, KnownInit, KnownUnsizedInit DEF KnownAll, Tidy
<1>2. KnownAll /\ [FilesNext]_vars => KnownAll'
  BY KnownNext, KnownUnsizedNext, KnownFacts, CarriedNext DEF KnownAll
<1>3. KnownAll /\ [FilesNext]_vars => [Download!Next]_(Download!transfer)
  BY NextMapped DEF Mapped, Download!transfer
<1> QED BY <1>1, <1>2, <1>3, PTL
        DEF FilesSpec, ImplementsTransfer, Download!Spec
=============================================================================
