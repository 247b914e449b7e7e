------------------------- MODULE DownloadSignalsProofs -------------------------
(***************************************************************************)
(* What a client of the download node is told is true: proved for every    *)
(* file, every number of subworkers, every size of a chunk and every       *)
(* interleaving.                                                           *)
(*                                                                         *)
(* The argument.  DownloadSignals is HttpStep with a step of its own, a    *)
(* failed step is dropped, which keeps all that is known of a state        *)
(* (Base, Known).  The bytes that were reported are among those that the   *)
(* subworkers have received (Counted); these are bytes of the file         *)
(* (Inside, Apart), so they are not more than it has.                      *)
(***************************************************************************)
EXTENDS DownloadSignals, TransferProofs, FiniteSetTheorems

-----------------------------------------------------------------------------
(* The steps of DownloadSignals.                                           *)

(* run() has raised, and the step is dropped.                              *)
Drop ==
    /\ Lose
    /\ UNCHANGED << good, size >>
    /\ record' \in {record, << >>}
    /\ faults' \in {faults, faults + 1}

LEMMA SignalsStep ==
    ASSUME [SignalsNext]_allVars
    PROVE  [Next]_vars \/ Drop
<1>1. CASE UNCHANGED allVars
  BY <1>1 DEF allVars
<1>2. CASE Request
  BY <1>2 DEF Request, Next
<1>3. CASE RunOnce
  BY <1>3 DEF RunOnce, Next
<1>4. CASE \E i \in DOMAIN task : Downloading(i)
  BY <1>4 DEF Downloading, Next
<1>5. CASE Engine
  BY <1>5 DEF Engine, Next
<1>6. CASE Completed
  BY <1>6 DEF Completed
<1>7. CASE Failed \/ RunRaises
  BY <1>7 DEF Failed, RunRaises, DeleteRecord, Fault, Drop, disk
<1>8. CASE Died
  BY <1>8 DEF Died, Next
<1> QED BY <1>1, <1>2, <1>3, <1>4, <1>5, <1>6, <1>7, <1>8 DEF SignalsNext

LEMMA DropWellFormed ==
    ASSUME WellFormed, Drop
    PROVE  WellFormed'
<1>1. /\ subworkers' \in Seq(SubworkerType) /\ Sound(subworkers') /\ task' \in Seq(TaskType)
      /\ UNCHANGED << good, size >>
  BY EmptyLists DEF Drop, Lose
<1>2. record' \in Seq(EntryType) /\ Sound(record')
  <2>1. record \in Seq(EntryType) /\ Sound(record) /\ record' \in {record, << >>}
    BY DEF Drop, WellFormed, TypeOK
  <2>2. << >> \in Seq(EntryType) /\ Sound(<< >>)
    BY DEF Sound
  <2> QED BY <2>1, <2>2
<1>3. faults' \in Nat
  BY DEF Drop, WellFormed, TypeOK
<1>4. TypeOK'
  BY <1>1, <1>2, <1>3 DEF WellFormed, TypeOK, Drop, Lose, Phases, Statuses
<1> QED BY <1>1, <1>2, <1>4 DEF WellFormed, Drop, Lose

(* Dropping the step forgets all that is not on the disk.                  *)
LEMMA DropForgets ==
    ASSUME Drop
    PROVE  /\ UNCHANGED << good, size >> /\ record' \in {record, << >>}
           /\ subworkers' = << >> /\ phase' = "none" /\ status' = "WAITING" /\ ~ canRange'
  BY DEF Drop, Lose

LEMMA DropKnown ==
    ASSUME Known, Drop
    PROVE  Known'
<1>1. WellFormed' /\ Tiled'
  BY DropWellFormed, DropForgets, TiledFrame DEF Known
<1>2. Claimed'
  BY DropForgets DEF Known, Claimed, ClaimsOnDisk, RecordOnDisk, OnDisk
<1>3. Attended' /\ Measured'
  BY DropForgets, MeasuredOutside DEF Known, Attended
<1> QED BY <1>1, <1>2, <1>3 DEF Known

LEMMA DropKnownUnsized ==
    ASSUME FaithfulUnsized, KnownUnsized, Drop
    PROVE  KnownUnsized'
<1>1. WellFormed'
  BY DropWellFormed DEF KnownUnsized
<1>2. Claimed'
  BY DropForgets DEF KnownUnsized, Claimed, ClaimsOnDisk, RecordOnDisk, OnDisk
<1>3. Attended' /\ Streamed'
  BY DropForgets, StreamedOutside DEF KnownUnsized, Attended, InRun
<1> QED BY <1>1, <1>2, <1>3 DEF KnownUnsized

LEMMA SignalsKnown ==
    ASSUME Faithful, Known, [SignalsNext]_allVars
    PROVE  Known'
<1>1. CASE [Next]_vars
  BY <1>1, KnownNext DEF FilesNext
<1>2. CASE Drop
  BY <1>2, DropKnown
<1> QED BY <1>1, <1>2, SignalsStep

LEMMA SignalsKnownUnsized ==
    ASSUME FaithfulUnsized, KnownUnsized, [SignalsNext]_allVars
    PROVE  KnownUnsized'
<1>1. CASE [Next]_vars
  BY <1>1, KnownUnsizedNext DEF FilesNext
<1>2. CASE Drop
  BY <1>2, DropKnownUnsized
<1> QED BY <1>1, <1>2, SignalsStep

-----------------------------------------------------------------------------
(* The completed signal.                                                   *)

(* Where run() has come to.                                                *)
Over ==
    /\ phase \in {"completing", "finished"} => status = "COMPLETED"
    /\ signal = "completed" => phase = "finished"

LEMMA SignalsOver ==
    ASSUME Over, [SignalsNext]_allVars
    PROVE  Over'
<1>1. CASE UNCHANGED allVars
  BY <1>1 DEF allVars, vars, disk, step, signals, Over
<1>2. CASE Request
  <2>1. phase' = "idle" /\ signal' = "none"
    BY <1>2 DEF Request, Create, Started
  <2> QED BY <2>1 DEF Over
<1>3. CASE RunOnce
  <2>1. phase = "idle" /\ phase' \in {"group", "restoring"} /\ UNCHANGED signal
    BY <1>3 DEF RunOnce, RunFresh, RunRestored, Launch, signals
  <2> QED BY <2>1 DEF Over
<1>4. ASSUME NEW i \in DOMAIN task, Downloading(i) PROVE Over'
  <2>1. phase = "group" /\ UNCHANGED phase
    BY <1>4 DEF Downloading, SubworkerStep, Start, Retry, ReplyOk, ReplyUnsatisfiable,
         ReplyPermanent, At, Steady, ReplyFull, TransientError, Chunk, WriteFatal, Resume,
         StreamEnd, Raise
  <2>2. UNCHANGED signal
    BY <1>4 DEF Downloading, Report, signals
  <2> QED BY <2>1, <2>2 DEF Over
<1>5. CASE Engine /\ UNCHANGED signals
  <2>1. /\ UNCHANGED signal /\ phase \notin {"none", "idle", "finished"}
        /\ phase' \in {"completing", "finished"} =>
              status' = "COMPLETED" \/ (phase = "completing" /\ UNCHANGED status)
    BY <1>5 DEF Engine, signals, RestoreSplit, RestoreDone, Supervise, SuperviseFails, Abort,
         GroupCompleted, GroupFailed, FallBack, MustFallBack, GroupEnded, Settle, Relaunch,
         Launch, step
  <2> QED BY <2>1 DEF Over
<1>6. CASE Completed
  BY <1>6 DEF Completed, vars, disk, step, Over
<1>7. CASE Failed \/ RunRaises \/ Died
  <2>1. phase' = "none" /\ signal' \in {"failed", "lost"}
    BY <1>7 DEF Failed, RunRaises, Died, Kill, Lose
  <2> QED BY <2>1 DEF Over
<1> QED BY <1>1, <1>2, <1>3, <1>4, <1>5, <1>6, <1>7 DEF SignalsNext

(* A run that is over has left no record, as long as it can be deleted.    *)
Cleared == phase = "finished" => record = << >>

LEMMA SignalsCleared ==
    ASSUME OrderlyDisk, Cleared, [SignalsNext]_allVars
    PROVE  Cleared'
<1>1. ASSUME UNCHANGED << phase, record >> PROVE Cleared'
  BY <1>1 DEF Cleared
<1>2. CASE UNCHANGED allVars \/ Completed
  BY <1>1, <1>2 DEF allVars, Completed, vars, disk
<1>3. CASE Request \/ RunOnce \/ Failed \/ RunRaises \/ Died
  <2>1. phase' # "finished"
    BY <1>3 DEF Request, Create, RunOnce, RunFresh, RunRestored, Launch, Failed, RunRaises, Died,
         Kill, Lose
  <2> QED BY <2>1 DEF Cleared
<1>4. ASSUME NEW i \in DOMAIN task, Downloading(i) PROVE Cleared'
  <2>1. phase = "group" /\ UNCHANGED phase
    BY <1>4 DEF Downloading, SubworkerStep, Start, Retry, ReplyOk, ReplyUnsatisfiable,
         ReplyPermanent, At, Steady, ReplyFull, TransientError, Chunk, WriteFatal, Resume,
         StreamEnd, Raise
  <2> QED BY <2>1 DEF Cleared
<1>5. CASE Engine /\ UNCHANGED signals
  <2>1. phase \notin {"none", "idle", "finished"} /\ (phase' = "finished" => record' = << >>)
    BY <1>5 DEF Engine, RestoreSplit, RestoreDone, Supervise, SuperviseFails, Abort,
         GroupCompleted, GroupFailed, FallBack, MustFallBack, GroupEnded, Settle, DeleteRecord,
         OrderlyDisk, Relaunch, Launch
  <2> QED BY <2>1 DEF Cleared
<1> QED BY <1>2, <1>3, <1>4, <1>5 DEF SignalsNext

(* The completed signal (_do_download, main.py) is only sent for a         *)
(* complete file, whose length is the one in the signal, and leaves no     *)
(* record: whatever was split, restored, lost or started again, in this    *)
(* request or in the ones before it.                                       *)
THEOREM CompletedSignalIsTrue ==
    ASSUME Faithful \/ FaithfulUnsized
    PROVE  SignalsSpec => []CompletedIsTrue
<1> DEFINE Inv == /\ (Faithful /\ Known) \/ (FaithfulUnsized /\ KnownUnsized)
                  /\ Over /\ Cleared
<1>0. OrderlyDisk
  BY DEF Faithful, FaithfulUnsized, OrderlyFiles
<1>1. SignalsInit => Inv
  BY KnownInit, KnownUnsizedInit DEF SignalsInit, Init, Over, Cleared
<1>2. Inv /\ [SignalsNext]_allVars => Inv'
  BY <1>0, SignalsKnown, SignalsKnownUnsized, SignalsOver, SignalsCleared
<1>3. Inv => CompletedIsTrue
  BY DEF Known, Measured, KnownUnsized, Streamed, Over, Cleared, CompletedIsTrue
<1> HIDE DEF Inv
<1> QED BY <1>1, <1>2, <1>3, PTL DEF SignalsSpec

-----------------------------------------------------------------------------
(* The bytes of the file.                                                  *)

(* No range goes past the last byte the step was told of.                  *)
Within(subs) == \A i \in DOMAIN subs : subs[i].end < FileSize

Inside ==
    /\ FileSize > 0 /\ record # << >> => Within(record)
    /\ FileSize > 0 /\ canRange /\ subworkers # << >> => Within(subworkers)

LEMMA SplitAtWithin ==
    ASSUME NEW subs \in Seq(SubworkerType), NEW i \in DOMAIN subs,
           Remaining(subs[i]) >= 2, Within(subs)
    PROVE  Within(SplitAt(subs, i))
<1> DEFINE newEnd == Position(subs[i]) + Remaining(subs[i]) \div 2
                        + (Remaining(subs[i]) % 2) - 1
           kept   == [subs EXCEPT ![i].end = newEnd]
           newSw  == Subworker(newEnd + 1, subs[i].end)
<1>1. subs[i] \in SubworkerType /\ subs[i].end < FileSize /\ FileSize \in Nat
  BY HttpStepAssumption DEF Within
<1>2. newEnd \in Nat /\ newEnd < subs[i].end /\ subs[i].end \in Nat
  BY <1>1, SplitPoint
<1>3. SplitAt(subs, i) = Append(kept, newSw)
  BY DEF SplitAt
<1> HIDE DEF newEnd
<1>4. newSw.end < FileSize
  BY <1>1 DEF Subworker
<1>5. /\ DOMAIN kept = DOMAIN subs /\ kept[i].end = newEnd
      /\ \A j \in DOMAIN subs : j # i => kept[j] = subs[j]
  BY <1>1 DEF SubworkerType
<1>6. kept \in Seq(SubworkerType)
  <2>1. [subs[i] EXCEPT !.end = newEnd] \in SubworkerType
    BY <1>1, <1>2 DEF SubworkerType
  <2> QED BY <2>1
<1> HIDE DEF kept, newSw
<1>7. /\ DOMAIN Append(kept, newSw) = 1 .. Len(kept) + 1
      /\ Append(kept, newSw)[Len(kept) + 1] = newSw
      /\ \A j \in 1 .. Len(kept) : Append(kept, newSw)[j] = kept[j]
  BY <1>6
<1>8. \A j \in DOMAIN kept : kept[j].end < FileSize
  BY <1>1, <1>2, <1>5 DEF Within
<1>9. ASSUME NEW j \in 1 .. Len(kept) + 1 PROVE Append(kept, newSw)[j].end < FileSize
  <2>1. CASE j = Len(kept) + 1
    BY <1>4, <1>7, <2>1
  <2>2. CASE j # Len(kept) + 1
    <3>1. j \in 1 .. Len(kept) /\ j \in DOMAIN kept
      BY <1>6, <2>2
    <3> QED BY <1>7, <1>8, <3>1
  <2> QED BY <2>1, <2>2
<1> QED BY <1>3, <1>7, <1>9 DEF Within

LEMMA SplitSlowestWithin ==
    ASSUME NEW subs \in Seq(SubworkerType), NEW least \in Nat, Within(subs)
    PROVE  Within(SplitSlowest(subs, least))
  BY SplitSlowestCases, SplitAtWithin

LEMMA ReassignWithin ==
    ASSUME NEW subs \in Seq(SubworkerType), Sound(subs), Within(subs)
    PROVE  /\ Within(Reassign(subs))
           /\ Reassign(subs) \in Seq(SubworkerType) /\ Sound(Reassign(subs))
<1>1. Within(Reassign(subs))
  BY HttpStepAssumption, SplitSlowestWithin DEF Reassign, Reassigned
<1>2. Reassign(subs) \in Seq(SubworkerType) /\ Sound(Reassign(subs))
  BY ReassignedGrows DEF Reassign, Grows
<1> QED BY <1>1, <1>2

LEMMA FourWithin ==
    ASSUME NEW subs \in Seq(SubworkerType), Sound(subs), Within(subs)
    PROVE  Within(Reassign(Reassign(Reassign(Reassign(subs)))))
<1> DEFINE Good(s) == s \in Seq(SubworkerType) /\ Sound(s) /\ Within(s)
           s1 == Reassign(subs)  s2 == Reassign(s1)  s3 == Reassign(s2)
<1>1. Good(s1)
  BY ReassignWithin
<1> HIDE DEF s1
<1>2. Good(s2)
  BY <1>1, ReassignWithin
<1> HIDE DEF s2
<1>3. Good(s3)
  BY <1>2, ReassignWithin
<1> HIDE DEF s3
<1>4. Good(Reassign(s3))
  BY <1>3, ReassignWithin
<1> QED BY <1>4 DEF s1, s2, s3

LEMMA ChunksWithin ==
    ASSUME FileSize > 0, NEW count \in 1 .. FileSize
    PROVE  Within(Chunks(FileSize, count))
<1> DEFINE c == FileSize \div count
           subs == Chunks(FileSize, count)
<1>0. FileSize \in Nat \ {0} /\ count \in Nat /\ count >= 1
  BY HttpStepAssumption
<1>1. c \in Nat \ {0} /\ count * c <= FileSize
  BY <1>0, ChunkSizePositive
<1>2. subs = [i \in 1 .. count |->
                Subworker((i - 1) * c, IF i = count THEN FileSize - 1 ELSE i * c - 1)]
  BY DEF Chunks
<1> HIDE DEF c, subs
<1>3. ASSUME NEW i \in 1 .. count PROVE subs[i].end < FileSize
  <2>1. subs[i].end = IF i = count THEN FileSize - 1 ELSE i * c - 1
    BY <1>2, <1>3 DEF Subworker
  <2>2. i * c <= count * c /\ i * c \in Nat /\ count * c \in Nat
    BY <1>0, <1>1, <1>3, MulMono
  <2> QED BY <1>0, <1>1, <2>1, <2>2
<1>4. DOMAIN subs = 1 .. count
  BY <1>2
<1> QED BY <1>3, <1>4 DEF Within, subs

LEMMA InsideInit == Init => Inside
  BY DEF Init, Inside

LEMMA InsideFrame ==
    ASSUME Inside, record' \in {record, << >>},
           subworkers' = << >> \/ ~ canRange' \/ UNCHANGED << subworkers, canRange >>
    PROVE  Inside'
  BY DEF Inside

LEMMA InsideNext ==
    ASSUME WellFormed, Inside, [Next]_vars
    PROVE  Inside'
<1>0. /\ subworkers \in Seq(SubworkerType) /\ Sound(subworkers) /\ FileSize \in Nat
      /\ wanted \in Nat
  BY HttpStepAssumption DEF WellFormed, TypeOK
<1>1. CASE UNCHANGED vars
  BY <1>1 DEF vars, disk, step, Inside
<1>2. CASE \E i \in DOMAIN task : SubworkerStep(i)
  <2>1. PICK i \in DOMAIN task : SubworkerStep(i)
    BY <1>2
  <2>2. PICK r \in Nat : subworkers' \in { [subworkers EXCEPT ![i].receivedBytes = r],
                                  Reassign([subworkers EXCEPT ![i].receivedBytes = r]) }
    BY <2>1, SubworkerStepList
  <2> DEFINE subs == [subworkers EXCEPT ![i].receivedBytes = r]
  <2>3. i \in DOMAIN subworkers /\ UNCHANGED << record, canRange >>
    BY <2>1, SubworkerStepList
       DEF SubworkerStep, Start, Retry, ReplyOk, ReplyUnsatisfiable, ReplyPermanent, At, Steady,
           ReplyFull, TransientError, Chunk, WriteFatal, Resume, StreamEnd, Raise, step
  <2>4. SameRanges(subworkers, subs) /\ subworkers # << >>
    BY <1>0, <2>3, CountedRanges
  <2>5. subworkers' \in {subs, Reassign(subs)}
    BY <2>2
  <2> HIDE DEF subs
  <2>6. FileSize > 0 /\ canRange => Within(subs)
    BY <2>4 DEF Inside, Within, SameRanges
  <2>7. FileSize > 0 /\ canRange => Within(subworkers')
    BY <2>4, <2>5, <2>6, ReassignWithin DEF SameRanges
  <2> QED BY <2>3, <2>7 DEF Inside
<1>3. CASE RunFresh
  <2>1. /\ record' \in {record, << >>} /\ UNCHANGED canRange /\ wanted # 0
        /\ subworkers' = BuildSubworkers(FileSize, canRange, wanted)
    BY <1>3 DEF RunFresh, DeleteRecord, Launch, WellFormed
  <2>2. ASSUME FileSize > 0, canRange PROVE Within(subworkers')
    <3>1. MinOf(wanted, FileSize) \in 1 .. FileSize /\ FileSize # UNKNOWN
      BY <1>0, <2>1, <2>2 DEF MinOf, UNKNOWN
    <3>2. subworkers' = Chunks(FileSize, MinOf(wanted, FileSize))
      BY <2>1, <2>2, <3>1 DEF BuildSubworkers
    <3> QED BY <2>2, <3>1, <3>2, ChunksWithin
  <2> QED BY <2>1, <2>2 DEF Inside
<1>4. CASE RunRestored
  BY <1>4 DEF RunRestored, Inside, disk
<1>5. CASE RestoreSplit
  <2>1. /\ UNCHANGED << record, canRange >> /\ subworkers' = SplitSlowest(subworkers, 2)
        /\ subworkers' # subworkers
    BY <1>5 DEF RestoreSplit, TooFew, disk, step
  <2>2. subworkers # << >>
    BY <2>1 DEF SplitSlowest
  <2>3. FileSize > 0 /\ canRange => Within(subworkers')
    BY <1>0, <2>1, <2>2, SplitSlowestWithin DEF Inside
  <2> QED BY <2>1, <2>3 DEF Inside
<1>6. CASE Supervise
  <2>1. /\ UNCHANGED canRange /\ record' = IF canRange THEN subworkers ELSE record
        /\ subworkers' \in { subworkers, Reassign(subworkers),
                             Reassign(Reassign(Reassign(Reassign(subworkers)))) }
    BY <1>6 DEF Supervise
  <2>2. ASSUME subworkers # << >>, canRange, FileSize > 0
        PROVE  Within(subworkers')
    BY <1>0, <2>1, <2>2, ReassignWithin, FourWithin DEF Inside
  <2>3. ASSUME subworkers = << >> PROVE subworkers' = << >>
    BY <2>1, <2>3, EmptyKept
  <2> QED BY <2>1, <2>2, <2>3 DEF Inside
<1>7. CASE \/ RestoreDone \/ Relaunch \/ SuperviseFails \/ Abort \/ Cancel
           \/ GroupCompleted \/ GroupCancelled \/ GroupFailed \/ Settle
           \/ \E k \in Counts : SetOptions(k)
  <2>1. UNCHANGED << subworkers, canRange >> /\ record' \in {record, << >>}
    BY <1>7 DEF RestoreDone, Relaunch, Launch, SuperviseFails, Abort, Cancel,
          GroupCompleted, GroupCancelled, GroupFailed, Settle, DeleteRecord, SetOptions,
          disk, step
  <2> QED BY <2>1, InsideFrame
<1>8. CASE \/ FallBack \/ Kill \/ KillOpeningRecord \/ KillInFallBack
           \/ \E k \in Counts, r \in Ranged : Create(k, r)
  <2>1. (subworkers' = << >> \/ ~ canRange') /\ record' \in {record, << >>}
    BY <1>8 DEF FallBack, DeleteRecord, Kill, KillOpeningRecord, KillInFallBack, Lose, Create,
         WellFormed, disk
  <2> QED BY <2>1, InsideFrame
<1>9. CASE Finished
  BY <1>1, <1>9 DEF Finished
<1> QED BY <1>1, <1>2, <1>3, <1>4, <1>5, <1>6, <1>7, <1>8, <1>9 DEF Next

-----------------------------------------------------------------------------
(* All that is known of a state, whatever the environment does.            *)
Base == WellFormed /\ Tiled /\ Carried /\ Apart /\ Inside

LEMMA BaseInit == Init => Base
  BY WellFormedInit, TiledInit, CarriedInit, ApartInit, InsideInit DEF Base

LEMMA SignalsBase ==
    ASSUME Base, [SignalsNext]_allVars
    PROVE  Base'
<1>1. CASE [Next]_vars
  BY <1>1, WellFormedNext, TiledNext, CarriedNext, ApartNext, InsideNext DEF Base, FilesNext
<1>2. CASE Drop
  <2>1. WellFormed' /\ Tiled' /\ Apart' /\ Inside'
    BY <1>2, DropWellFormed, DropForgets, TiledFrame, ApartFrame, InsideFrame DEF Base
  <2>2. Carried'
    BY <1>2, DropForgets, CarriedFrame DEF Base
  <2> QED BY <2>1, <2>2 DEF Base
<1> QED BY <1>1, <1>2, SignalsStep

-----------------------------------------------------------------------------
(* The bytes that were reported.                                           *)

(* A subworker whose range has an end has received bytes of its range.     *)
LEMMA ReceivedInRange ==
    ASSUME NEW sw \in SubworkerType, Position(sw) <= sw.end + 1
    PROVE  \A b \in Received(sw) : b \in Nat /\ sw.start <= b /\ b <= sw.end
  BY DEF Received, Position, SubworkerType, NOT_SUPPORTED

LEMMA SizeFacts ==
    ASSUME FileSize > 1
    PROVE  FileSize \in Nat /\ FileSize > 0
  BY HttpStepAssumption

LEMMA AllOfThemLong ==
    ASSUME Base, canRange, FileSize > 1, Long(subworkers)
    PROVE  AllLong(subworkers)
<1>1. subworkers \in Seq(SubworkerType) /\ FileSize \in Nat
  BY HttpStepAssumption DEF Base, WellFormed, TypeOK
<1> SUFFICES ASSUME NEW j \in DOMAIN subworkers PROVE subworkers[j].end # UNKNOWN
  BY DEF AllLong
<1>2. CASE Len(subworkers) > 1
  BY <1>2 DEF Long
<1>3. CASE ~ (Len(subworkers) > 1)
  <2>1. subworkers # << >> /\ FileSize - 1 \in 0 .. FileSize - 1
    BY <1>1
  <2>2. PICK i \in DOMAIN subworkers : FileSize - 1 <= subworkers[i].end
    BY <2>1, SizeFacts DEF Base, Tiled, Tiles
  <2>3. i = j
    BY <1>1, <1>3, OneNoOverlap
  <2>4. subworkers[j] \in SubworkerType
    BY <1>1
  <2> QED BY <1>1, <2>2, <2>3, <2>4 DEF SubworkerType, UNKNOWN, NOT_SUPPORTED
<1> QED BY <1>2, <1>3

LEMMA GotInFile ==
    ASSUME Base, canRange, FileSize > 1, AllLong(subworkers)
    PROVE  /\ \A j \in DOMAIN subworkers : /\ subworkers[j] \in SubworkerType
                                           /\ Position(subworkers[j]) <= subworkers[j].end + 1
           /\ Got(subworkers) \subseteq 0 .. FileSize - 1
<1>1. /\ subworkers \in Seq(SubworkerType) /\ FileSize \in Nat /\ AllRanges(subworkers)
      /\ NotPast(subworkers)
  BY HttpStepAssumption DEF Base, WellFormed, TypeOK, Apart
<1>2. ASSUME NEW j \in DOMAIN subworkers
      PROVE  /\ subworkers[j] \in SubworkerType
             /\ Position(subworkers[j]) <= subworkers[j].end + 1
             /\ Received(subworkers[j]) \subseteq 0 .. FileSize - 1
  <2>1. subworkers[j] \in SubworkerType /\ subworkers # << >>
    BY <1>1
  <2>2. Position(subworkers[j]) <= subworkers[j].end + 1
    BY <1>1 DEF NotPast, AllLong, AllRanges
  <2>3. subworkers[j].end < FileSize /\ subworkers[j].end \in Int
    BY <2>1, SizeFacts DEF Base, Inside, Within, SubworkerType, NOT_SUPPORTED
  <2>4. \A b \in Received(subworkers[j]) : b \in Nat /\ b <= subworkers[j].end
    BY <2>1, <2>2, ReceivedInRange
  <2>5. \A b \in Received(subworkers[j]) : b \in 0 .. FileSize - 1
    BY <1>1, <2>3, <2>4
  <2> QED BY <2>1, <2>2, <2>5
<1> QED BY <1>2 DEF Got

LEMMA FileFinite ==
    ASSUME FileSize > 0, NEW S \in SUBSET (0 .. FileSize - 1)
    PROVE  IsFiniteSet(S) /\ Cardinality(S) \in Nat /\ Cardinality(S) <= FileSize
<1>1. FileSize \in Nat /\ 0 \in Int /\ FileSize - 1 \in Int
  BY HttpStepAssumption
<1>2. IsFiniteSet(0 .. FileSize - 1) /\ Cardinality(0 .. FileSize - 1) = FileSize
  BY <1>1, FS_Interval
<1>3. IsFiniteSet(S) /\ Cardinality(S) <= FileSize
  BY <1>2, FS_Subset
<1> QED BY <1>3, FS_CardinalityType

(* The bytes of a chunk had not been received, by any subworker.           *)
LEMMA ChunkCounts ==
    ASSUME Base, canRange, FileSize > 1, AllLong(subworkers),
           NEW i \in DOMAIN task, NEW n \in ChunkSizes, Chunk(i, n)
    PROVE  LET k == Accepted(i, n)
           IN  \E S : /\ S \cap Got(subworkers) = {}
                      /\ IsFiniteSet(S) /\ Cardinality(S) = k
                      /\ S \subseteq Got(subworkers')
<1> DEFINE k == Accepted(i, n)
           p == Position(subworkers[i])
           S == p .. p + k - 1
<1>1. /\ phase = "group" /\ p <= task[i].last /\ task[i].pc = "stream"
      /\ subworkers' = [subworkers EXCEPT ![i].receivedBytes = @ + k]
  BY DEF Chunk, At
<1>2. /\ i \in DOMAIN subworkers /\ subworkers \in Seq(SubworkerType)
      /\ subworkers[i] \in SubworkerType /\ task[i] \in TaskType /\ AllRanges(subworkers)
      /\ Fitted(subworkers, task) /\ Paired(subworkers, task) /\ subworkers # << >>
  BY <1>1 DEF Base, WellFormed, TypeOK, Paired, Carried
<1>3. task[i].mode = "range"
  BY <1>1, <1>2 DEF Fitted, Paired, Working, AllLong, AllRanges, TaskType, Modes
<1>4. k \in Nat /\ p + k <= subworkers[i].end + 1
  BY <1>1, <1>3, AcceptedFits DEF Base
<1>5. p \in Nat /\ p = subworkers[i].start + subworkers[i].receivedBytes
      /\ subworkers[i].start \in Nat /\ subworkers[i].receivedBytes \in Nat
      /\ subworkers[i].end \in Int
  BY <1>2 DEF Position, SubworkerType, NOT_SUPPORTED
<1> HIDE DEF k
<1>6. /\ i \in DOMAIN subworkers' /\ subworkers'[i].start = subworkers[i].start
      /\ subworkers'[i].receivedBytes = subworkers[i].receivedBytes + k
  BY <1>1, <1>2 DEF SubworkerType
<1> HIDE DEF p
<1>7. S \subseteq Received(subworkers'[i])
  BY <1>4, <1>5, <1>6 DEF Received, Position
<1>8. \A b \in S : b \in Nat /\ p <= b /\ subworkers[i].start <= b /\ b <= subworkers[i].end
  BY <1>4, <1>5
<1>9. ASSUME NEW j \in DOMAIN subworkers PROVE S \cap Received(subworkers[j]) = {}
  <2>1. /\ subworkers[j] \in SubworkerType
        /\ subworkers[j].start \in Nat /\ subworkers[j].end \in Int
        /\ \A b \in Received(subworkers[j]) :
              b \in Nat /\ subworkers[j].start <= b /\ b <= subworkers[j].end
    BY GotInFile, ReceivedInRange DEF SubworkerType, NOT_SUPPORTED
  <2>2. CASE j = i
    <3>1. \A b \in Received(subworkers[i]) : b < p
      BY <1>5 DEF Received, p
    <3> QED BY <1>5, <1>8, <2>1, <2>2, <3>1
  <2>3. CASE j # i
    <3>1. \/ subworkers[i].end < subworkers[j].start
          \/ subworkers[j].end < subworkers[i].start
      BY <1>2, <2>3, SizeFacts DEF Base, Tiled, Tiles
    <3> HIDE DEF S
    <3> QED BY <1>5, <1>8, <2>1, <3>1
  <2> QED BY <2>2, <2>3
<1>10. IsFiniteSet(S) /\ Cardinality(S) = k
  <2>1. p \in Int /\ p + k - 1 \in Int
    BY <1>4, <1>5
  <2>2. IsFiniteSet(S) /\ Cardinality(S) = IF p > p + k - 1 THEN 0 ELSE (p + k - 1) - p + 1
    BY <2>1, FS_Interval
  <2> HIDE DEF S
  <2>3. (p > p + k - 1 => k = 0) /\ (~ (p > p + k - 1) => (p + k - 1) - p + 1 = k)
    BY <1>4, <1>5
  <2> QED BY <2>2, <2>3
<1>11. S \cap Got(subworkers) = {} /\ S \subseteq Got(subworkers')
  <2> HIDE DEF S
  <2> QED BY <1>6, <1>7, <1>9 DEF Got
<1> QED BY <1>10, <1>11 DEF k

(* What was reported is not more than what was received.                   *)
Counted ==
    /\ received_total \in Nat
    /\ canRange => received_total <= Cardinality(Got(subworkers))

(* Only a chunk is reported.                                               *)
LEMMA ReportIsChunk ==
    ASSUME WellFormed, NEW i \in DOMAIN task, SubworkerStep(i),
           task[i].pc = "stream", task'[i].pc = "limit"
    PROVE  \E n \in ChunkSizes : Chunk(i, n)
<1>1. task[i] \in TaskType /\ task \in Seq(TaskType)
  BY DEF WellFormed, TypeOK
<1>2. ASSUME NEW pc, Goto(i, pc) PROVE task'[i].pc = pc
  BY <1>1, <1>2 DEF Goto, TaskType
<1>3. ~ (Start(i) \/ Retry(i) \/ ReplyOk(i) \/ ReplyUnsatisfiable(i) \/ ReplyPermanent(i)
         \/ ReplyFull(i) \/ Resume(i))
  BY DEF Start, Retry, ReplyOk, ReplyUnsatisfiable, ReplyPermanent, ReplyFull, Resume, At
<1>4. ~ (TransientError(i) \/ WriteFatal(i))
  BY <1>2 DEF TransientError, WriteFatal, Raise
<1>5. ~ StreamEnd(i)
  <2> SUFFICES ASSUME StreamEnd(i) PROVE FALSE
    OBVIOUS
  <2>0. phase = "group" /\ Paired(subworkers, task)
    BY DEF StreamEnd, At, WellFormed
  <2>1. CASE Goto(i, "done")
    BY <1>2, <2>1
  <2>2. CASE task' = [task EXCEPT ![i] = Requesting("range", subworkers[i])]
    BY <2>2 DEF Requesting
  <2>3. CASE Finish(i, subworkers)
    <3> DEFINE after == Reassign(subworkers)
               done  == [task EXCEPT ![i].pc = "done"]
    <3>1. task' = Extended(done, after, NewTask)
      BY <2>3 DEF Finish, Reassign
    <3>2. DOMAIN subworkers \subseteq DOMAIN after
      BY ReassignNarrows, NarrowsDomain DEF WellFormed, TypeOK
    <3>3. i \in DOMAIN after /\ i \in DOMAIN done /\ done[i].pc = "done"
      BY <1>1, <2>0, <3>2 DEF Paired, TaskType
    <3> HIDE DEF after, done
    <3>4. task'[i] = done[i]
      BY <3>1, <3>3 DEF Extended
    <3> QED BY <3>3, <3>4
  <2> QED BY <2>1, <2>2, <2>3 DEF StreamEnd, LoopTop
<1> QED BY <1>3, <1>4, <1>5 DEF SubworkerStep

(* What a report adds to the total.                                        *)
LEMMA ReportedBytes ==
    ASSUME Base, NEW i \in DOMAIN task, NEW n \in ChunkSizes, Chunk(i, n)
    PROVE  /\ subworkers'[i].receivedBytes - subworkers[i].receivedBytes = Accepted(i, n)
           /\ Accepted(i, n) \in Nat
<1>1. /\ i \in DOMAIN subworkers /\ subworkers[i] \in SubworkerType
      /\ phase = "group" /\ Position(subworkers[i]) <= task[i].last
      /\ subworkers' = [subworkers EXCEPT ![i].receivedBytes = @ + Accepted(i, n)]
  BY DEF Base, WellFormed, TypeOK, Paired, Chunk, At
<1>2. Accepted(i, n) \in Nat
  BY <1>1, AcceptedFits DEF Base
<1> DEFINE k == Accepted(i, n)
<1> HIDE DEF k
<1>3. subworkers'[i].receivedBytes = subworkers[i].receivedBytes + k
  BY <1>1 DEF k, SubworkerType
<1>4. k \in Nat /\ subworkers[i].receivedBytes \in Nat
  BY <1>1, <1>2 DEF k, SubworkerType
<1>5. subworkers'[i].receivedBytes - subworkers[i].receivedBytes = k
  BY <1>3, <1>4
<1> QED BY <1>2, <1>5 DEF k

LEMMA MoreCounted ==
    ASSUME FileSize > 0, NEW S \in SUBSET (0 .. FileSize - 1), NEW T \in SUBSET S
    PROVE  Cardinality(T) <= Cardinality(S)
  BY FileFinite, FS_Subset

LEMMA GotBounded ==
    ASSUME FileSize > 1, Base, Long(subworkers), canRange
    PROVE  Got(subworkers) \subseteq 0 .. FileSize - 1
  BY AllOfThemLong, GotInFile

LEMMA CountedInFile ==
    ASSUME FileSize > 1, Base, Long(subworkers), Counted
    PROVE  NoByteReportedTwice
<1> SUFFICES ASSUME canRange PROVE received_total <= FileSize
  BY DEF NoByteReportedTwice
<1>1. Cardinality(Got(subworkers)) \in Nat /\ Cardinality(Got(subworkers)) <= FileSize
  BY GotBounded, SizeFacts, FileFinite
<1> QED BY <1>1, SizeFacts DEF Counted

(* The same of the state after a step.                                     *)
LEMMA PrimedGot ==
    ASSUME FileSize > 1
    PROVE  Base' /\ Long(subworkers)' /\ canRange'
               => (Got(subworkers) \subseteq 0 .. FileSize - 1)'
<1>1. Base /\ Long(subworkers) /\ canRange => Got(subworkers) \subseteq 0 .. FileSize - 1
  BY GotBounded
<1> QED BY <1>1, PTL

(* A step of a subworker reports no more than it receives.                 *)
LEMMA DownloadingCounted ==
    ASSUME FileSize > 1, Base, Base', Long(subworkers), Long(subworkers'), Counted,
           NEW i \in DOMAIN task, Downloading(i)
    PROVE  Counted'
<1>1. SubworkerStep(i) /\ UNCHANGED canRange
  BY DEF Downloading, SubworkerStep, Start, Retry, ReplyOk, ReplyUnsatisfiable, ReplyPermanent,
         Steady, ReplyFull, TransientError, Chunk, WriteFatal, Resume, StreamEnd, Raise, step
<1>2. CASE task[i].pc = "stream" /\ task'[i].pc = "limit"
  <2>1. PICK n \in ChunkSizes : Chunk(i, n)
    BY <1>1, <1>2, ReportIsChunk DEF Base
  <2> DEFINE k == Accepted(i, n)
  <2>2. k \in Nat /\ received_total' = received_total + k
    BY <1>2, <2>1, ReportedBytes DEF Downloading, Report
  <2> HIDE DEF k
  <2>3. ASSUME canRange PROVE received_total' <= Cardinality(Got(subworkers'))
    <3>1. AllLong(subworkers)
      BY <2>3, AllOfThemLong
    <3>2. PICK S : /\ S \cap Got(subworkers) = {}
                   /\ IsFiniteSet(S) /\ Cardinality(S) = k
                   /\ S \subseteq Got(subworkers')
      BY <2>1, <2>3, <3>1, ChunkCounts DEF k
    <3>3. Got(subworkers) \subseteq Got(subworkers')
      BY <1>1, <2>3, SubworkerStepCarried DEF Base
    <3>4. Got(subworkers') \subseteq 0 .. FileSize - 1
      BY <1>1, <2>3, PrimedGot
    <3>5. /\ IsFiniteSet(Got(subworkers)) /\ Cardinality(Got(subworkers)) \in Nat
          /\ Cardinality(Got(subworkers')) \in Nat
      BY <3>3, <3>4, SizeFacts, FileFinite
    <3>6. Cardinality(S \cup Got(subworkers)) = k + Cardinality(Got(subworkers))
      <4>1. Cardinality(S \cap Got(subworkers)) = 0
        BY <3>2, FS_EmptySet
      <4>2. Cardinality(S \cup Got(subworkers)) = Cardinality(S) + Cardinality(Got(subworkers))
                                                   - Cardinality(S \cap Got(subworkers))
        BY <3>2, <3>5, FS_Union
      <4> QED BY <2>2, <3>2, <3>5, <4>1, <4>2
    <3>7. Cardinality(S \cup Got(subworkers)) <= Cardinality(Got(subworkers'))
      <4>1. S \cup Got(subworkers) \in SUBSET Got(subworkers')
        BY <3>2, <3>3
      <4> QED BY <3>4, <4>1, SizeFacts, MoreCounted
    <3>8. received_total <= Cardinality(Got(subworkers)) /\ received_total \in Nat
      BY <2>3 DEF Counted
    <3> QED BY <2>2, <3>5, <3>6, <3>7, <3>8
  <2>4. received_total' \in Nat
    BY <2>2 DEF Counted
  <2> QED BY <1>1, <2>3, <2>4 DEF Counted
<1>3. CASE ~ (task[i].pc = "stream" /\ task'[i].pc = "limit")
  <2>1. UNCHANGED received_total
    BY <1>3 DEF Downloading, signals
  <2>2. ASSUME canRange PROVE received_total <= Cardinality(Got(subworkers'))
    <3>1. Got(subworkers) \subseteq Got(subworkers')
      BY <1>1, <2>2, SubworkerStepCarried DEF Base
    <3>2. Got(subworkers') \subseteq 0 .. FileSize - 1
      BY <1>1, <2>2, PrimedGot
    <3>3. /\ Cardinality(Got(subworkers)) <= Cardinality(Got(subworkers'))
          /\ Cardinality(Got(subworkers)) \in Nat /\ Cardinality(Got(subworkers')) \in Nat
      BY <3>1, <3>2, SizeFacts, FileFinite, MoreCounted
    <3> QED BY <2>2, <3>3 DEF Counted
  <2> QED BY <1>1, <2>1, <2>2 DEF Counted
<1> QED BY <1>2, <1>3

(* The steps that report nothing forget nothing.                           *)
LEMMA QuietSteps ==
    ASSUME Base, [SignalsNext]_allVars
    PROVE  \/ received_total' = 0 /\ subworkers' = << >>
           \/ /\ UNCHANGED received_total
              /\ canRange' => canRange /\ Got(subworkers) \subseteq Got(subworkers')
           \/ \E i \in DOMAIN task : Downloading(i)
<1> DEFINE Quiet == /\ UNCHANGED received_total
                    /\ canRange' => canRange /\ Got(subworkers) \subseteq Got(subworkers')
<1>1. ASSUME UNCHANGED << received_total, subworkers, canRange >> PROVE Quiet
  BY <1>1
<1>2. CASE UNCHANGED allVars \/ Completed
  BY <1>1, <1>2 DEF allVars, Completed, vars, step, signals
<1>3. CASE Request
  BY <1>3 DEF Request, Started, Create, Base, WellFormed
<1>4. CASE RunOnce
  <2>1. subworkers = << >> /\ UNCHANGED << received_total, canRange >>
    BY <1>4 DEF RunOnce, RunFresh, RunRestored, signals, step
  <2>2. Got(subworkers) \subseteq Got(subworkers')
    BY <2>1 DEF Got
  <2> QED BY <2>1, <2>2
<1>5. CASE \E i \in DOMAIN task : Downloading(i)
  BY <1>5
<1>6. CASE RestoreSplit /\ UNCHANGED signals
  <2>1. /\ UNCHANGED << received_total, canRange >> /\ phase = "restoring"
        /\ subworkers' = SplitSlowest(subworkers, 2)
        /\ subworkers \in Seq(SubworkerType) /\ Sound(subworkers) /\ NotPast(subworkers)
    BY <1>6 DEF RestoreSplit, signals, step, Base, WellFormed, TypeOK, Apart
  <2>2. Got(subworkers) \subseteq Got(subworkers')
    BY <2>1, SplitSlowestNarrows, NarrowsKeeps
  <2> QED BY <2>1, <2>2
<1>7. CASE Supervise /\ UNCHANGED signals
  <2>1. /\ UNCHANGED << received_total, canRange >>
        /\ subworkers' \in { subworkers, Reassign(subworkers),
                             Reassign(Reassign(Reassign(Reassign(subworkers)))) }
        /\ subworkers \in Seq(SubworkerType) /\ Sound(subworkers) /\ NotPast(subworkers)
    BY <1>7 DEF Supervise, signals, step, Base, WellFormed, TypeOK, Apart
  <2>2. Got(subworkers) \subseteq Got(subworkers')
    BY <2>1, ReassignNarrows, FourNarrow, NarrowsKeeps
  <2> QED BY <2>1, <2>2
<1>8. CASE /\ UNCHANGED signals
           /\ \/ RestoreDone \/ SuperviseFails \/ Abort \/ GroupCompleted \/ GroupFailed
              \/ Settle \/ Relaunch
  <2>1. UNCHANGED << received_total, subworkers, canRange >>
    BY <1>8 DEF signals, RestoreDone, SuperviseFails, Abort, GroupCompleted, GroupFailed,
                Settle, Relaunch, Launch, step
  <2> QED BY <1>1, <2>1
<1>9. CASE (FallBack /\ UNCHANGED signals) \/ Failed \/ RunRaises \/ Died
  <2>1. ~ canRange' /\ UNCHANGED received_total
    BY <1>9 DEF FallBack, Failed, RunRaises, Died, Kill, Lose, signals
  <2> QED BY <2>1
<1> QED BY <1>2, <1>3, <1>4, <1>5, <1>6, <1>7, <1>8, <1>9 DEF SignalsNext, Engine

LEMMA CountedNext ==
    ASSUME FileSize > 1, Base, Base', Long(subworkers), Long(subworkers'), Counted,
           [SignalsNext]_allVars
    PROVE  Counted'
<1>0. received_total \in Nat
  BY DEF Counted
<1>1. ASSUME UNCHANGED received_total,
             canRange' => canRange /\ Got(subworkers) \subseteq Got(subworkers')
      PROVE  Counted'
  <2>1. ASSUME canRange' PROVE received_total <= Cardinality(Got(subworkers'))
    <3>1. canRange /\ Got(subworkers) \subseteq Got(subworkers')
      BY <1>1, <2>1
    <3>2. Got(subworkers') \subseteq 0 .. FileSize - 1
      BY <2>1, PrimedGot
    <3>3. /\ Cardinality(Got(subworkers)) <= Cardinality(Got(subworkers'))
          /\ Cardinality(Got(subworkers)) \in Nat /\ Cardinality(Got(subworkers')) \in Nat
      BY <3>1, <3>2, SizeFacts, FileFinite, MoreCounted
    <3> QED BY <3>1, <3>3 DEF Counted
  <2> QED BY <1>0, <1>1, <2>1 DEF Counted
<1>2. CASE received_total' = 0 /\ subworkers' = << >>
  <2>1. Got(subworkers') = {}
    BY <1>2 DEF Got
  <2> QED BY <1>2, <2>1, FS_EmptySet DEF Counted
<1>3. CASE \E i \in DOMAIN task : Downloading(i)
  BY <1>3, DownloadingCounted
<1> QED BY <1>1, <1>2, <1>3, QuietSteps

-----------------------------------------------------------------------------
(* A file of one byte: its only range is the first byte alone, so that the *)
(* subworker asks for all that comes, and nothing in its range stops it.   *)
(* What stops it is the end of the file, if the server told its length.    *)
OneByte == FileSize = 1 /\ Length = 1

LEMMA OnlyRange ==
    ASSUME OneByte, Base, canRange, NEW i \in DOMAIN subworkers, NEW j \in DOMAIN subworkers
    PROVE  subworkers[i].start = 0 /\ i = j
<1>1. /\ subworkers \in Seq(SubworkerType) /\ Sound(subworkers) /\ AllRanges(subworkers)
      /\ subworkers # << >> /\ FileSize > 0
  BY DEF Base, WellFormed, TypeOK, OneByte
<1>2. ASSUME NEW k \in DOMAIN subworkers PROVE subworkers[k].start = 0 /\ subworkers[k].end = 0
  <2>1. subworkers[k] \in SubworkerType /\ subworkers[k].end # NOT_SUPPORTED
    BY <1>1 DEF AllRanges
  <2>2. subworkers[k].start <= subworkers[k].end /\ subworkers[k].end < 1
    BY <1>1, <2>1 DEF Sound, Base, Inside, Within, OneByte
  <2> QED BY <2>1, <2>2 DEF SubworkerType
<1>3. CASE i # j
  <2>1. \/ subworkers[i].end < subworkers[j].start
        \/ subworkers[j].end < subworkers[i].start
    BY <1>1, <1>3 DEF Base, Tiled, Tiles
  <2> QED BY <1>2, <2>1
<1> QED BY <1>2, <1>3

(* The byte is reported once, when it is received.                         *)
CountedOnce ==
    /\ received_total \in Nat
    /\ canRange /\ received_total # 0 => received_total = 1 /\ 0 \in Got(subworkers)
    /\ phase = "group" => Lasts(task)

LEMMA OnlyChunk ==
    ASSUME OneByte, Base, CountedOnce, canRange,
           NEW i \in DOMAIN task, NEW n \in ChunkSizes, Chunk(i, n)
    PROVE  /\ received_total = 0
           /\ Accepted(i, n) \in {0, 1}
           /\ Accepted(i, n) = 1 => 0 \in Got(subworkers')
<1> DEFINE k == Accepted(i, n)
           p == Position(subworkers[i])
<1>1. /\ phase = "group" /\ p <= task[i].last
      /\ subworkers' = [subworkers EXCEPT ![i].receivedBytes = @ + k]
  BY DEF Chunk, At
<1>2. /\ i \in DOMAIN subworkers /\ subworkers \in Seq(SubworkerType)
      /\ subworkers[i] \in SubworkerType /\ task[i] \in TaskType /\ Lasts(task)
  BY <1>1 DEF Base, WellFormed, TypeOK, Paired, CountedOnce
<1>3. subworkers[i].start = 0 /\ \A j \in DOMAIN subworkers : j = i
  BY <1>2, OnlyRange
<1>4. p = subworkers[i].receivedBytes /\ p \in Nat
  BY <1>2, <1>3 DEF Position, SubworkerType
<1>5. task[i].last = 0 /\ p = 0
  BY <1>1, <1>2, <1>4 DEF Lasts, TaskType, OneByte
<1>6. received_total = 0
  <2>1. Received(subworkers[i]) = {}
    <3>1. Received(subworkers[i]) = 0 .. p - 1
      BY <1>3 DEF Received
    <3> HIDE DEF p
    <3> QED BY <1>5, <3>1
  <2>2. 0 \notin Got(subworkers)
    BY <1>3, <2>1 DEF Got
  <2> QED BY <2>2 DEF CountedOnce
<1>7. k \in Nat
  BY <1>1, AcceptedFits DEF Base
<1>8. k \in Int /\ k <= 1
  <2>1. n \in Nat /\ Remaining(subworkers[i]) \in Int
    BY <1>2, RemainingInt, HttpStepAssumption
  <2> HIDE DEF p
  <2>2. k = IF task[i].mode = "range"
            THEN MinOf(MinOf(n, 1), Remaining(subworkers[i])) ELSE MinOf(n, 1)
    <3>1. task[i].last - p + 1 = 1
      BY <1>5
    <3> QED BY <3>1 DEF Accepted, p
  <2> HIDE DEF k
  <2> QED BY <2>1, <2>2, <1>7 DEF MinOf
<1> HIDE DEF k
<1>9. k \in {0, 1}
  BY <1>7, <1>8
<1>10. ASSUME k = 1 PROVE 0 \in Got(subworkers')
  <2>1. /\ i \in DOMAIN subworkers' /\ subworkers'[i].start = 0
        /\ subworkers'[i].receivedBytes = 1
    <3> DEFINE sw == [subworkers[i] EXCEPT !.receivedBytes = @ + k]
    <3>1. sw.start = 0 /\ sw.receivedBytes = subworkers[i].receivedBytes + k
      BY <1>2, <1>3 DEF SubworkerType
    <3>2. subworkers' = [subworkers EXCEPT ![i] = sw]
      BY <1>1
    <3> HIDE DEF sw, p
    <3> QED BY <1>2, <1>4, <1>5, <1>10, <3>1, <3>2
  <2>2. 0 \in Received(subworkers'[i])
    BY <2>1 DEF Received, Position
  <2> QED BY <2>1, <2>2 DEF Got
<1> QED BY <1>6, <1>9, <1>10 DEF k

(* No step asks for a byte after the end of the file.                      *)
LEMMA LastsNext ==
    ASSUME WellFormed, WellFormed', phase = "group" => Lasts(task), [Next]_vars,
           phase' = "group"
    PROVE  Lasts(task')
<1>1. ASSUME phase = "group", UNCHANGED task PROVE Lasts(task')
  BY <1>1
<1>2. ASSUME NEW subs, Launch(subs) PROVE Lasts(task')
  BY <1>2, NewTaskLast DEF Launch, Lasts
<1>3. CASE UNCHANGED vars \/ Finished
  BY <1>1, <1>3 DEF Finished, vars
<1>4. CASE \E i \in DOMAIN task : SubworkerStep(i)
  <2>1. phase = "group"
    BY <1>4 DEF SubworkerStep, Start, Retry, ReplyOk, ReplyUnsatisfiable, ReplyPermanent, At,
           ReplyFull, TransientError, Chunk, WriteFatal, Resume, StreamEnd, Raise
  <2> QED BY <1>4, <2>1, StepLasts
<1>5. CASE RunFresh \/ RestoreDone \/ Relaunch
  BY <1>2, <1>5 DEF RunFresh, RestoreDone, Relaunch
<1>6. CASE Supervise
  <2>1. phase = "group" /\ Lasts(task)
    BY <1>6 DEF Supervise
  <2>2. \/ UNCHANGED task
        \/ \E subs : \E t \in {NewTask, Orphan} : task' = Extended(task, subs, t)
    BY <1>6 DEF Supervise
  <2> QED BY <1>1, <2>1, <2>2, ExtendedLasts
<1>7. CASE SuperviseFails
  BY <1>1, <1>7 DEF SuperviseFails
<1>8. CASE Abort \/ Cancel
  <2>1. phase = "group" /\ CancelLive
    BY <1>8 DEF Abort, Cancel
  <2>2. task \in Seq(TaskType)
    BY DEF WellFormed, TypeOK
  <2>3. ASSUME NEW i \in DOMAIN task
        PROVE  i \in DOMAIN task' => /\ task'[i].last = task[i].last
                                     /\ task'[i].mode = task[i].mode
    BY <2>1, <2>2 DEF CancelLive, TaskType
  <2>4. DOMAIN task' = DOMAIN task
    BY <2>1 DEF CancelLive
  <2> QED BY <2>1, <2>3, <2>4 DEF Lasts
<1>9. CASE \/ RunRestored \/ RestoreSplit
           \/ GroupCompleted \/ GroupCancelled \/ GroupFailed \/ FallBack \/ Settle
           \/ Kill \/ KillOpeningRecord \/ KillInFallBack
           \/ \E k \in Counts, b \in Ranged : Create(k, b)
           \/ \E k \in Counts : SetOptions(k)
  <2>1. phase' # "group"
    BY <1>9 DEF RunRestored, RestoreSplit, GroupCompleted, GroupCancelled, GroupFailed, GroupEnded,
         FallBack, Settle, Kill, KillOpeningRecord, KillInFallBack, Lose, Create, SetOptions
  <2> QED BY <2>1
<1> QED BY <1>3, <1>4, <1>5, <1>6, <1>7, <1>9, <1>8 DEF Next

LEMMA SignalsLasts ==
    ASSUME WellFormed, WellFormed', phase = "group" => Lasts(task), [SignalsNext]_allVars,
           phase' = "group"
    PROVE  Lasts(task')
<1>1. CASE [Next]_vars
  BY <1>1, LastsNext
<1>2. CASE Drop
  BY <1>2, DropForgets
<1> QED BY <1>1, <1>2, SignalsStep

LEMMA CountedOnceNext ==
    ASSUME OneByte, Base, Base', CountedOnce, [SignalsNext]_allVars
    PROVE  CountedOnce'
<1>0. received_total \in Nat /\ (phase' = "group" => Lasts(task'))
  BY SignalsLasts DEF CountedOnce, Base
<1>1. CASE received_total' = 0 /\ subworkers' = << >>
  BY <1>0, <1>1 DEF CountedOnce
<1>2. ASSUME UNCHANGED received_total,
             canRange' => canRange /\ Got(subworkers) \subseteq Got(subworkers')
      PROVE  CountedOnce'
  BY <1>0, <1>2 DEF CountedOnce
<1>3. ASSUME NEW i \in DOMAIN task, Downloading(i) PROVE CountedOnce'
  <2>1. SubworkerStep(i) /\ UNCHANGED canRange
    BY <1>3 DEF Downloading, SubworkerStep, Start, Retry, ReplyOk, ReplyUnsatisfiable,
         ReplyPermanent, Steady, ReplyFull, TransientError, Chunk, WriteFatal, Resume, StreamEnd,
         Raise, step
  <2>2. CASE task[i].pc = "stream" /\ task'[i].pc = "limit"
    <3>1. PICK n \in ChunkSizes : Chunk(i, n)
      BY <2>1, <2>2, ReportIsChunk DEF Base
    <3> DEFINE k == Accepted(i, n)
    <3>2. k \in Nat /\ received_total' = received_total + k
      BY <1>3, <2>2, <3>1, ReportedBytes DEF Downloading, Report
    <3>3. canRange => /\ received_total = 0 /\ k \in {0, 1}
                      /\ k = 1 => 0 \in Got(subworkers')
      BY <3>1, OnlyChunk
    <3> HIDE DEF k
    <3> QED BY <1>0, <2>1, <3>2, <3>3 DEF CountedOnce
  <2>3. CASE ~ (task[i].pc = "stream" /\ task'[i].pc = "limit")
    <3>1. UNCHANGED received_total
      BY <1>3, <2>3 DEF Downloading, signals
    <3>2. canRange => Got(subworkers) \subseteq Got(subworkers')
      BY <2>1, SubworkerStepCarried DEF Base
    <3> QED BY <1>2, <2>1, <3>1, <3>2
  <2> QED BY <2>2, <2>3
<1> QED BY <1>1, <1>2, <1>3, QuietSteps

LEMMA CountedOnceInit == SignalsInit => CountedOnce
  BY DEF SignalsInit, Init, CountedOnce

LEMMA OneByteCountedOnce ==
    ASSUME OneByte
    PROVE  SignalsSpec => []NoByteReportedTwice
<1>1. SignalsInit => Base /\ CountedOnce
  BY BaseInit, CountedOnceInit DEF SignalsInit
<1>2. Base /\ [SignalsNext]_allVars => Base'
  BY SignalsBase
<1>3. Base /\ Base' /\ CountedOnce /\ [SignalsNext]_allVars => CountedOnce'
  BY CountedOnceNext
<1>4. CountedOnce => NoByteReportedTwice
  BY DEF CountedOnce, NoByteReportedTwice, OneByte
<1> QED BY <1>1, <1>2, <1>3, <1>4, PTL DEF SignalsSpec

(* As long as no range of several is the first byte of the file alone      *)
(* (see NoOverlap), a client is not told of more bytes than the file has:  *)
(* no byte is reported twice (report_speed, main.py), however the ranges   *)
(* were split, retried or restored.                                        *)
THEOREM NoByteCountedTwice ==
    ASSUME FileSize > 1
    PROVE  SignalsSpec /\ []Long(subworkers) => []NoByteReportedTwice
<1>1. SignalsInit => Base /\ Counted
  BY BaseInit DEF SignalsInit, Init, Counted
<1>2. Base /\ [SignalsNext]_allVars => Base'
  BY SignalsBase
<1>3. Base /\ Base' /\ Counted /\ Long(subworkers) /\ Long(subworkers)' /\ [SignalsNext]_allVars
          => Counted'
  BY CountedNext
<1>4. Base /\ Counted /\ Long(subworkers) => NoByteReportedTwice
  BY CountedInFile
<1> QED BY <1>1, <1>2, <1>3, <1>4, PTL DEF SignalsSpec

-----------------------------------------------------------------------------
(* The percentage.                                                         *)

(* The percentage of so many bytes (report_speed).                         *)
Pct(total) == IF FileSize > 0 THEN (total * 100) \div FileSize ELSE 0

LEMMA QuotientFacts ==
    ASSUME NEW a \in Nat, NEW d \in Nat \ {0}
    PROVE  /\ a \div d \in Nat
           /\ (a \div d) * d <= a
           /\ a < (a \div d) * d + d
<1> DEFINE q == a \div d
<1>1. q \in Int /\ q * d <= a /\ a < q * d + d
  OBVIOUS
<1> HIDE DEF q
<1>2. q >= 0
  <2>1. SUFFICES ASSUME q <= -1 PROVE FALSE
    BY <1>1
  <2>2. (-1 - q) * d >= 0
    BY <1>1, <2>1
  <2>3. (-1 - q) * d = 0 - d - q * d
    BY <1>1
  <2> QED BY <1>1, <2>2, <2>3
<1> QED BY <1>1, <1>2 DEF q

LEMMA QuotientMono ==
    ASSUME NEW a \in Nat, NEW b \in Nat, NEW d \in Nat \ {0}, a <= b
    PROVE  a \div d <= b \div d
<1> DEFINE p == a \div d
           q == b \div d
<1>1. p \in Nat /\ p * d <= a /\ q \in Nat /\ b < q * d + d
  BY QuotientFacts
<1> HIDE DEF p, q
<1>2. SUFFICES ASSUME q + 1 <= p PROVE FALSE
  BY <1>1 DEF p, q
<1>3. (q + 1) * d <= p * d /\ (q + 1) * d = q * d + d
  BY <1>1, <1>2, MulMono
<1>4. p * d \in Nat /\ q * d \in Nat
  BY <1>1
<1> QED BY <1>1, <1>3, <1>4

LEMMA PctMono ==
    ASSUME NEW a \in Nat, NEW b \in Nat, a <= b
    PROVE  Pct(a) \in Nat /\ Pct(b) \in Nat /\ Pct(a) <= Pct(b)
<1>1. CASE FileSize > 0
  <2>1. FileSize \in Nat \ {0} /\ a * 100 \in Nat /\ b * 100 \in Nat /\ a * 100 <= b * 100
    BY <1>1, HttpStepAssumption
  <2> QED BY <1>1, <2>1, QuotientFacts, QuotientMono DEF Pct
<1>2. CASE ~ (FileSize > 0)
  BY <1>2 DEF Pct
<1> QED BY <1>1, <1>2

LEMMA PctWhole ==
    ASSUME NEW a \in Nat, FileSize > 0 => a <= FileSize
    PROVE  Pct(a) <= 100
<1>1. CASE FileSize > 0
  <2> DEFINE q == (a * 100) \div FileSize
  <2>1. FileSize \in Nat \ {0} /\ a <= FileSize /\ a * 100 \in Nat
    BY <1>1, HttpStepAssumption
  <2>2. q \in Nat /\ q * FileSize <= a * 100
    BY <2>1, QuotientFacts
  <2> HIDE DEF q
  <2>3. SUFFICES ASSUME 101 <= q PROVE FALSE
    BY <1>1, <2>2 DEF Pct, q
  <2>4. 101 * FileSize <= q * FileSize
    BY <2>1, <2>2, <2>3, MulMono
  <2> QED BY <2>1, <2>2, <2>4
<1>2. CASE ~ (FileSize > 0)
  BY <1>2 DEF Pct
<1> QED BY <1>1, <1>2

(* The last percentage is not more than that of the bytes reported.        *)
Told ==
    /\ percent \in Nat
    /\ canRange /\ signal # "completed" => percent <= Pct(received_total)

(* Only a report changes the percentage, until the end.                    *)
LEMMA ReportTold ==
    ASSUME Base, Over, Told, received_total \in Nat,
           NEW i \in DOMAIN task, Downloading(i)
    PROVE  Told' /\ (canRange => percent <= percent')
<1>0. SubworkerStep(i) /\ phase = "group" /\ UNCHANGED canRange
  BY DEF Downloading, SubworkerStep, Start, Retry, ReplyOk, ReplyUnsatisfiable, ReplyPermanent,
         At, Steady, ReplyFull, TransientError, Chunk, WriteFatal, Resume, StreamEnd, Raise, step
<1>1. signal # "completed" /\ percent \in Nat /\ (canRange => percent <= Pct(received_total))
  BY <1>0 DEF Over, Told
<1>2. CASE task[i].pc = "stream" /\ task'[i].pc = "limit"
  <2>1. PICK n \in ChunkSizes : Chunk(i, n)
    BY <1>0, <1>2, ReportIsChunk DEF Base
  <2> DEFINE k     == Accepted(i, n)
             total == received_total + k
  <2>2. k \in Nat /\ Report(k)
    BY <1>2, <2>1, ReportedBytes DEF Downloading
  <2> HIDE DEF k
  <2>3. /\ total \in Nat /\ received_total' = total /\ UNCHANGED signal
        /\ percent' = IF Pct(total) - percent >= 5 \/ (FileSize > 0 /\ total >= FileSize)
                      THEN Pct(total) ELSE percent
    BY <2>2 DEF Report, Pct
  <2>4. /\ Pct(received_total) \in Nat /\ Pct(total) \in Nat
        /\ Pct(received_total) <= Pct(total)
    BY <2>2, <2>3, PctMono
  <2> HIDE DEF total
  <2>5. percent' \in {percent, Pct(total)} /\ percent' \in Nat
    BY <1>1, <2>3, <2>4
  <2>6. canRange => percent <= percent' /\ percent' <= Pct(total)
    BY <1>1, <2>4, <2>5
  <2> QED BY <1>0, <2>3, <2>5, <2>6 DEF Told
<1>3. CASE ~ (task[i].pc = "stream" /\ task'[i].pc = "limit")
  <2>1. UNCHANGED signals
    BY <1>3 DEF Downloading
  <2> QED BY <1>0, <1>1, <2>1 DEF Told, signals
<1> QED BY <1>2, <1>3

LEMMA ToldNext ==
    ASSUME Base, Over, Told, received_total \in Nat, NoByteReportedTwice,
           [SignalsNext]_allVars
    PROVE  /\ Told'
           /\ \/ percent <= percent'
              \/ ~ canRange
              \/ phase = "none" /\ phase' = "idle"
<1>0. received_total \in Nat /\ percent \in Nat
  BY DEF Told
<1>1. ASSUME UNCHANGED << received_total, percent >>, canRange' => canRange,
             signal' # "completed" => ~ canRange' \/ signal # "completed"
      PROVE  Told' /\ percent <= percent'
  BY <1>0, <1>1 DEF Told
<1>2. CASE UNCHANGED allVars
  BY <1>1, <1>2 DEF allVars, vars, step, signals
<1>3. CASE Request
  <2>1. /\ phase = "none" /\ phase' = "idle" /\ received_total' = 0 /\ percent' = 0
        /\ signal' = "none"
    BY <1>3 DEF Request, Create, Started
  <2>2. Pct(0) \in Nat
    BY PctMono
  <2> QED BY <2>1, <2>2 DEF Told
<1>4. CASE \E i \in DOMAIN task : Downloading(i)
  BY <1>0, <1>4, ReportTold
<1>5. CASE RunOnce
  BY <1>1, <1>5 DEF RunOnce, RunFresh, RunRestored, signals, step
<1>6. CASE Engine /\ UNCHANGED signals
  <2>1. canRange' => canRange
    BY <1>6 DEF Engine, RestoreSplit, RestoreDone, Supervise, SuperviseFails, Abort,
         GroupCompleted, GroupFailed, FallBack, Settle, Relaunch, step
  <2> QED BY <1>1, <1>6, <2>1 DEF signals
<1>7. CASE Completed
  <2>1. signal = "none" /\ signal' = "completed" /\ percent' = 100 /\ UNCHANGED canRange
    BY <1>7 DEF Completed, vars, step
  <2>2. canRange => percent <= Pct(received_total)
    BY <2>1 DEF Told
  <2>3. canRange => Pct(received_total) <= 100
    BY <1>0, PctWhole DEF NoByteReportedTwice
  <2>4. Pct(received_total) \in Nat
    BY <1>0, PctMono
  <2> QED BY <1>0, <2>1, <2>2, <2>3, <2>4 DEF Told
<1>8. CASE Failed \/ RunRaises \/ Died
  <2>1. ~ canRange' /\ UNCHANGED << received_total, percent >>
    BY <1>8 DEF Failed, RunRaises, Died, Kill, Lose
  <2> QED BY <1>1, <2>1
<1> QED BY <1>2, <1>3, <1>4, <1>5, <1>6, <1>7, <1>8 DEF SignalsNext

LEMMA OverInit == SignalsInit => Over
  BY DEF SignalsInit, Init, Over

LEMMA ToldInit == SignalsInit => Told
<1>1. Pct(0) \in Nat
  BY PctMono
<1> QED BY <1>1 DEF SignalsInit, Told

(* What a client is told never goes back (report_speed, main.py), as long  *)
(* as no range of several is the first byte of the file alone: neither     *)
(* from one signal to the next, nor to the final 100.                      *)
THEOREM PercentOnlyRises ==
    ASSUME FileSize > 1
    PROVE  SignalsSpec /\ []Long(subworkers) => PercentNeverFalls
<1>1. SignalsInit => Base /\ Counted /\ Over /\ Told
  BY BaseInit, OverInit, ToldInit DEF SignalsInit, Init, Counted
<1>2. Base /\ [SignalsNext]_allVars => Base'
  BY SignalsBase
<1>3. Base /\ Base' /\ Counted /\ Long(subworkers) /\ Long(subworkers)' /\ [SignalsNext]_allVars
          => Counted'
  BY CountedNext
<1>4. Base /\ Counted /\ Long(subworkers) => NoByteReportedTwice
  BY CountedInFile
<1>5. Counted => received_total \in Nat
  BY DEF Counted
<1>6. Over /\ [SignalsNext]_allVars => Over'
  BY SignalsOver
<1>7. Base /\ Over /\ Told /\ received_total \in Nat /\ NoByteReportedTwice
          /\ [SignalsNext]_allVars
          => Told' /\ [ \/ percent <= percent'
                        \/ ~ canRange
                        \/ phase = "none" /\ phase' = "idle" ]_allVars
  BY ToldNext
<1> QED BY <1>1, <1>2, <1>3, <1>4, <1>6, <1>7, <1>5, PTL DEF SignalsSpec, PercentNeverFalls

LEMMA OneBytePercent ==
    ASSUME OneByte
    PROVE  SignalsSpec => PercentNeverFalls
<1>1. SignalsInit => Base /\ CountedOnce /\ Over /\ Told
  BY BaseInit, CountedOnceInit, OverInit, ToldInit DEF SignalsInit
<1>2. Base /\ [SignalsNext]_allVars => Base'
  BY SignalsBase
<1>3. Base /\ Base' /\ CountedOnce /\ [SignalsNext]_allVars => CountedOnce'
  BY CountedOnceNext
<1>4. CountedOnce => received_total \in Nat /\ NoByteReportedTwice
  BY DEF CountedOnce, NoByteReportedTwice, OneByte
<1>5. Over /\ [SignalsNext]_allVars => Over'
  BY SignalsOver
<1>6. Base /\ Over /\ Told /\ received_total \in Nat /\ NoByteReportedTwice
          /\ [SignalsNext]_allVars
          => Told' /\ [ \/ percent <= percent'
                        \/ ~ canRange
                        \/ phase = "none" /\ phase' = "idle" ]_allVars
  BY ToldNext
<1> QED BY <1>1, <1>2, <1>3, <1>4, <1>5, <1>6, PTL DEF SignalsSpec, PercentNeverFalls

-----------------------------------------------------------------------------
(* Where the file is large enough for the numbers of subworkers.           *)

LEMMA SignalsEnough ==
    ASSUME NEW room, Roomy(room), Base, Enough(room), [SignalsNext]_allVars
    PROVE  Enough(room)'
<1>1. CASE [Next]_vars
  BY <1>1, EnoughNext DEF Base, FilesNext
<1>2. CASE Drop
  BY <1>2, DropForgets, EnoughFrame
<1> QED BY <1>1, <1>2, SignalsStep

(* With more bytes than one: a run asks for a number of subworkers, and    *)
(* the file has two bytes for each.                                        *)
LEMMA RoomyIsLarge ==
    ASSUME NEW room, Roomy(room), Counts # {}
    PROVE  FileSize > 1
<1>1. PICK n \in Counts : TRUE
  OBVIOUS
<1> QED BY <1>1, RoomyFacts

LEMMA RoomyProgress ==
    ASSUME NEW room, Roomy(room), Counts # {}
    PROVE  SignalsSpec => []NoByteReportedTwice /\ PercentNeverFalls
<1>1. FileSize > 1
  BY RoomyIsLarge
<1>2. SignalsInit => Base /\ Enough(room)
  BY BaseInit, EnoughInit DEF SignalsInit
<1>3. Base /\ Enough(room) /\ [SignalsNext]_allVars => Base' /\ Enough(room)'
  BY SignalsBase, SignalsEnough
<1>4. Base /\ Enough(room) => Long(subworkers)
  BY EnoughLong DEF Base
<1>5. SignalsSpec => []Long(subworkers)
  BY <1>2, <1>3, <1>4, PTL DEF SignalsSpec
<1>6. SignalsSpec /\ []Long(subworkers) => []NoByteReportedTwice
  BY <1>1, NoByteCountedTwice
<1>7. SignalsSpec /\ []Long(subworkers) => PercentNeverFalls
  BY <1>1, PercentOnlyRises
<1> QED BY <1>5, <1>6, <1>7, PTL

(* What a client is told of the progress is true, and never goes back,     *)
(* whatever numbers of subworkers the requests ask for in turn, when the   *)
(* file is large enough for them, or is one byte whose size the server     *)
(* told rightly (_do_download and report_speed, main.py).                  *)
THEOREM ProgressIsTrue ==
    ASSUME OneByte \/ (Counts # {} /\ \E room : Roomy(room))
    PROVE  SignalsSpec => []NoByteReportedTwice /\ PercentNeverFalls
<1>1. CASE OneByte
  <2>1. SignalsSpec => []NoByteReportedTwice
    BY <1>1, OneByteCountedOnce
  <2>2. SignalsSpec => PercentNeverFalls
    BY <1>1, OneBytePercent
  <2> QED BY <2>1, <2>2, PTL
<1>2. CASE Counts # {} /\ \E room : Roomy(room)
  <2>1. PICK room : Roomy(room)
    BY <1>2
  <2> QED BY <1>2, <2>1, RoomyProgress
<1> QED BY <1>1, <1>2
=============================================================================
