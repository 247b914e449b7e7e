------------------------------- MODULE HttpStep -------------------------------
(***************************************************************************)
(* HttpStep.run (_engine.py): one download, from the creation of the step  *)
(* to the end of the run, across pauses, failures and deaths of the        *)
(* process.                                                                *)
(*                                                                         *)
(* The engine is single-threaded asyncio: an action is what one coroutine  *)
(* does between two awaits.  The coroutines are the run itself (phase),    *)
(* the supervisor, and one task per subworker (task[i]).  The server and   *)
(* the user are the environment: which of their misbehaviours a model      *)
(* allows is the constant Env, and how many of them the bound MaxFaults.   *)
(*                                                                         *)
(* Abstractions.  Of the output file only two things are kept: the set of  *)
(* offsets that hold the right byte (good) and the length (size).  Time is *)
(* gone: the supervisor may tick at any await.  Speeds are gone: whether   *)
(* the last five are stable, and whether more workers paid off, is a       *)
(* choice.  A write to .ghd is atomic (one write(2) of a few hundred       *)
(* bytes).  The remote file does not change.  What run() does before its    *)
(* first task succeeds here; a run that raises earlier is an action of     *)
(* DownloadSignals.                                                        *)
(***************************************************************************)
EXTENDS Subworkers

CONSTANTS
    Length,         \* the number of bytes the server has
    FileSize,       \* what the step was told: UNKNOWN, Length or another
    Counts,         \* the subworkerCounts a caller may ask for
    Ranged,         \* the values of canUseRangeRequests a caller may pass
    ReassignSize,   \* max_reassign_size_kb * 1024
    AutoSpeed,      \* auto_speed_up
    ChunkSizes,     \* the sizes of the pieces response.stream() yields
    OldSizes,       \* lengths of an unrelated file already at outputFile
    Env,            \* the misbehaviours of the environment, see EnvKinds
    MaxFaults       \* bound on their number

EnvKinds == {
    "error",        \* a request or a stream fails and may be tried again
    "permanent",    \* a status in PERMANENT_STATUS, or cf-mitigated
    "norange",      \* a range request is answered 200
    "disk",         \* pwrite raises an errno of FATAL_IO_ERRNO
    "ftruncate",    \* ftruncate raises in run(); in a single stream it is
                    \* an "error" or "disk" like those of its response
    "unopened",     \* the directory, the request for the URL or the opening
                    \* of the file fails, and run() raises before its first task
    "premature",    \* a body ends before its last byte, without an error
    "short",        \* pwrite writes less than it was given
    "record",       \* the supervisor fails to write the .ghd file
    "locked",       \* the .ghd file cannot be deleted: on Windows, while
                    \* it is open
    "cancel",       \* the user cancels the run (pause)
    "kill",         \* the process dies between two handlers
    "kill_opening", \* ... between truncating .ghd and writing it
    "kill_fallback",\* ... between emptying the file and deleting .ghd
    "kept",         \* deleteFiles cannot delete the output file
    "kept_record",  \* ... or the .ghd file
    "unmoved",      \* moveFiles moves the output file, and fails on .ghd
    "changed"       \* the server replaces the file
  }

ASSUME HttpStepAssumption ==
    /\ Length \in Nat \ {0}
    /\ FileSize \in Nat
    /\ Counts \subseteq Nat \ {0}
    /\ Ranged \subseteq BOOLEAN
    /\ ReassignSize \in Nat
    /\ AutoSpeed \in BOOLEAN
    /\ ChunkSizes \subseteq Nat \ {0}
    /\ OldSizes \subseteq Nat
    /\ Env \subseteq EnvKinds
    /\ MaxFaults \in Nat

VARIABLES
    \* on disk: they outlive the process
    good,           \* the offsets of outputFile that hold the right byte
    size,           \* the length of outputFile, 0 when there is none
    record,         \* what _loadRecord returns: the entries of the .ghd file,
                    \* <<>> when there is none or none that can be read
    \* the step object
    canRange,       \* canUseRangeRequests
    wanted,         \* subworkerCount
    status,         \* status, a TaskStatus
    accel,          \* _accelCheckTime = 0, # 0; or isAccelerated
    subworkers,     \* subworkers, in the order of their creation
    \* the run in progress
    phase,          \* where the coroutine run() is
    task,           \* task[i]: the task of subworkers[i]
    errors,         \* kinds of the exceptions the TaskGroup has collected,
                    \* or of the one raised while they are handled
    aborting,       \* TaskGroup._aborting
    cancelled,      \* the TaskGroup was aborted by a cancellation of run()
    supervisor,     \* the task of _supervise
    \* the environment
    faults          \* misbehaviours so far

disk == << good, size, record >>
step == << canRange, wanted, status, accel >>
group == << errors, aborting, cancelled >>
vars == << disk, step, subworkers, phase, task, group, supervisor, faults >>

Statuses == {"WAITING", "RUNNING", "PAUSED", "COMPLETED"}
Phases == {
    "none",         \* no step exists
    "idle",         \* between two runs
    "restoring",    \* splitting what _loadRecord returned
    "group",        \* waiting for the TaskGroup
    "completing", "pausing", "failing", "falling_back",
                    \* waiting for the cancelled supervisor, and what then
    "finished" }    \* run() has returned
Pcs == {
    "new",          \* created, not yet run
    "request",      \* awaiting client.get
    "stream",       \* awaiting the next chunk
    "limit",        \* awaiting waitForSpeedLimit
    "backoff",      \* sleeping 5s after an error
    "done", "failed", "cancelled",
    "orphan" }      \* a subworker whose create_task raised
Modes == {"undecided", "unknown", "single", "range"}

-----------------------------------------------------------------------------
(* Tasks.  `last` is the last byte of the current response, which ends     *)
(* where the request or the file does; the end of the subworker may move   *)
(* below it while the response is coming in.                               *)

NewTask == [pc |-> "new", mode |-> "undecided", last |-> 0]
Orphan == [NewTask EXCEPT !.pc = "orphan"]

Live == {"new", "request", "stream", "limit", "backoff"}

(* Which of the three loops of _runSubworkerWith a subworker enters.       *)
ModeOf(sw) == CASE sw.end = UNKNOWN        -> "unknown"
                [] sw.end = NOT_SUPPORTED  -> "single"
                [] OTHER                   -> "range"

Requesting(mode, sw) ==
    [pc |-> "request", mode |-> mode,
     last |-> IF mode = "range" THEN MinOf(sw.end, Length - 1) ELSE Length - 1]

(* The tasks after the list of subworkers has grown to subs.               *)
Extended(tasks, subs, t) ==
    [j \in DOMAIN subs |-> IF j \in DOMAIN tasks THEN tasks[j] ELSE t]

Goto(i, pc) == task' = [task EXCEPT ![i].pc = pc]

Fault(kind) == /\ kind \in Env
               /\ faults < MaxFaults
               /\ faults' = faults + 1

(* ftruncate(fd, n).                                                       *)
Truncated(n) == /\ size' = n
                /\ good' = good \cap (0 .. n - 1)

(* pwrite of n right bytes at offset, of which k reach the file.           *)
Written(offset, k) ==
    /\ good' = good \cup (offset .. offset + k - 1)
    /\ size' = MaxOf(size, offset + k)

-----------------------------------------------------------------------------
(* The caller creates a step and sets it RUNNING (main._do_download).      *)
Create(n, ranged) ==
    /\ phase = "none"
    /\ phase' = "idle"
    /\ canRange' = ranged
    /\ wanted' = n
    /\ status' = "RUNNING"
    /\ accel' = "idle"
    /\ UNCHANGED << disk, subworkers, task, group, supervisor, faults >>

(* setOptions between two runs of the same step.                           *)
SetOptions(n) ==
    /\ phase = "idle"
    /\ wanted' = n
    /\ UNCHANGED << disk, canRange, status, accel, subworkers, phase, task,
                    group, supervisor, faults >>

(* A supervisor and a TaskGroup with one task per subworker.               *)
Launch(subs) ==
    /\ phase' = "group"
    /\ subworkers' = subs
    /\ task' = [i \in DOMAIN subs |-> NewTask]
    /\ errors' = {}
    /\ aborting' = FALSE
    /\ cancelled' = FALSE
    /\ supervisor' = "new"

(* ftruncate to fileSize; its failure is logged and ignored.               *)
Preallocate(kept, old) ==
    \/ /\ FileSize > 0
       /\ size' = FileSize
       /\ good' = kept \cap (0 .. FileSize - 1)
       /\ UNCHANGED faults
    \/ /\ FileSize > 0
       /\ Fault("ftruncate")
       /\ size' = old
       /\ good' = kept
    \/ /\ FileSize = UNKNOWN
       /\ size' = old
       /\ good' = kept
       /\ UNCHANGED faults

(* _deleteRecord, whose failure is logged and ignored.                     *)
DeleteRecord ==
    \/ record' = << >>
    \/ "locked" \in Env /\ UNCHANGED record

ClockReset == accel' = IF accel = "measuring" THEN "idle" ELSE accel

(* run() with nothing to restore.  Without ranges the record is deleted    *)
(* and the file emptied (O_TRUNC).                                         *)
RunFresh ==
    /\ phase = "idle"
    /\ \/ canRange /\ record = << >> /\ UNCHANGED record /\ Preallocate(good, size)
       \/ ~ canRange /\ DeleteRecord /\ Preallocate({}, 0)
    /\ ClockReset
    /\ Launch(BuildSubworkers(FileSize, canRange, wanted))
    /\ UNCHANGED << canRange, wanted, status >>

(* Mutant: the positions of the record are not restored.                   *)
RunRestoredFromStart ==
    /\ phase = "idle"
    /\ canRange
    /\ record # << >>
    /\ phase' = "restoring"
    /\ subworkers' = [i \in DOMAIN record |-> Subworker(record[i].start, record[i].end)]
    /\ ClockReset
    /\ UNCHANGED << disk, canRange, wanted, status, task, group, supervisor, faults >>

(* run() with a record to restore (_loadRecord).                           *)
RunRestored ==
    /\ phase = "idle"
    /\ canRange
    /\ record # << >>
    /\ phase' = "restoring"
    /\ subworkers' = record
    /\ ClockReset
    /\ UNCHANGED << disk, canRange, wanted, status, task, group, supervisor, faults >>

TooFew == /\ FileSize > 0
          /\ Len(subworkers) < MinOf(wanted, FileSize)
          /\ SplitSlowest(subworkers, 2) # subworkers

(* One turn of the loop that splits until there are enough subworkers.     *)
RestoreSplit ==
    /\ phase = "restoring"
    /\ TooFew
    /\ subworkers' = SplitSlowest(subworkers, 2)
    /\ UNCHANGED << disk, step, phase, task, group, supervisor, faults >>

(* The restored file is opened as it is, and the download starts.          *)
RestoreDone ==
    /\ phase = "restoring"
    /\ ~ TooFew
    /\ Launch(subworkers)
    /\ UNCHANGED << disk, step, faults >>

-----------------------------------------------------------------------------
(* Subworker i.  Every step below is one of its task's, in a live group.   *)

At(i, pc) == /\ phase = "group"
             /\ i \in DOMAIN task
             /\ task[i].pc = pc

(* Mutant: the second half of the split gets no task.                      *)
FinishForgetsTask(i, subs) ==
    LET after == Reassigned(subs, FileSize, ReassignSize)
    IN  /\ subworkers' = after
        /\ task' = Extended([task EXCEPT ![i].pc = "done"], after, Orphan)

Complete(sw) == Position(sw) > sw.end

(* A subworker of mode 3 is finished: it takes over half of the slowest's  *)
(* work by creating a task for it.                                         *)
Finish(i, subs) ==
    LET after == Reassigned(subs, FileSize, ReassignSize)
    IN  /\ subworkers' = after
        /\ task' = Extended([task EXCEPT ![i].pc = "done"], after, NewTask)

(* The top of the subworker's loop: the next request, or the end of mode 3.*)
LoopTop(i, mode) ==
    \/ /\ mode = "range"
       /\ Complete(subworkers[i])
       /\ Finish(i, subworkers)
       /\ UNCHANGED << good, size >>
    \/ /\ mode = "range" => ~ Complete(subworkers[i])
       /\ task' = [task EXCEPT ![i] = Requesting(mode, subworkers[i])]
       /\ \/ /\ mode = "single"
             /\ Truncated(0)
             /\ subworkers' = [subworkers EXCEPT ![i].receivedBytes = 0]
          \/ /\ mode # "single"
             /\ UNCHANGED << good, size, subworkers >>

(* What a subworker's step leaves alone.                                   *)
Steady == UNCHANGED << record, step, phase, aborting, cancelled, supervisor >>

Start(i) ==
    /\ At(i, "new")
    /\ LoopTop(i, ModeOf(subworkers[i]))
    /\ UNCHANGED << errors, faults >>
    /\ Steady

(* 5s after an error.                                                      *)
Retry(i) ==
    /\ At(i, "backoff")
    /\ LoopTop(i, task[i].mode)
    /\ UNCHANGED << errors, faults >>
    /\ Steady

(* The response has the wanted status: 206, or 200 for a single stream.    *)
ReplyOk(i) ==
    /\ At(i, "request")
    /\ Position(subworkers[i]) < Length
    /\ Goto(i, "stream")
    /\ UNCHANGED << good, size, subworkers, errors, faults >>
    /\ Steady

(* A range that starts past the last byte cannot be satisfied: status 416, *)
(* which is not in PERMANENT_STATUS.                                       *)
ReplyUnsatisfiable(i) ==
    /\ At(i, "request")
    /\ Position(subworkers[i]) >= Length
    /\ Goto(i, "backoff")
    /\ UNCHANGED << good, size, subworkers, errors, faults >>
    /\ Steady

(* Mutant: an error in the stream is taken for the end of the body.        *)
TransientErrorEndsBody(i) ==
    /\ At(i, "request") \/ At(i, "stream")
    /\ Fault("error")
    /\ Goto(i, IF task[i].pc = "stream" THEN "done" ELSE "backoff")
    /\ UNCHANGED << good, size, subworkers, errors >>
    /\ Steady

(* The request or the stream fails in a way that is tried again: another   *)
(* status, a connection error, the 30s read timeout.                       *)
TransientError(i) ==
    /\ At(i, "request") \/ At(i, "stream")
    /\ Fault("error")
    /\ Goto(i, "backoff")
    /\ UNCHANGED << good, size, subworkers, errors >>
    /\ Steady

(* An exception the subworker does not catch ends its task.                *)
Raise(i, kind) ==
    /\ Fault(kind)
    /\ errors' = errors \cup {kind}
    /\ Goto(i, "failed")
    /\ UNCHANGED << good, size, subworkers >>
    /\ Steady

ReplyPermanent(i) == At(i, "request") /\ Raise(i, "permanent")

ReplyFull(i) == /\ At(i, "request")
                /\ task[i].mode # "single"
                /\ Raise(i, "norange")

WriteFatal(i) == At(i, "stream") /\ Raise(i, "disk")

(* How much of a chunk of n bytes mode 3 uses: its range may have become   *)
(* shorter than what the request asked for.                                *)
Accepted(i, n) ==
    LET chunk == MinOf(n, task[i].last - Position(subworkers[i]) + 1)
    IN  IF task[i].mode = "range"
        THEN MinOf(chunk, Remaining(subworkers[i]))
        ELSE chunk

(* A chunk arrives, is written, and counts as received whatever pwrite     *)
(* returned; then the task awaits waitForSpeedLimit.                       *)
Chunk(i, n) ==
    /\ At(i, "stream")
    /\ Position(subworkers[i]) <= task[i].last
    /\ LET k      == Accepted(i, n)
           offset == Position(subworkers[i])
       IN  /\ \/ Written(offset, k) /\ UNCHANGED faults
              \/ Fault("short") /\ \E j \in 1 .. k - 1 : Written(offset, j)
           /\ subworkers' = [subworkers EXCEPT ![i].receivedBytes = @ + k]
    /\ Goto(i, "limit")
    /\ UNCHANGED errors
    /\ Steady

(* waitForSpeedLimit returns.  Mode 3 leaves the stream when its range is  *)
(* complete, as it is now.                                                 *)
Resume(i) ==
    /\ At(i, "limit")
    /\ \/ /\ task[i].mode = "range"
          /\ Complete(subworkers[i])
          /\ LET whole == subworkers[i].end - subworkers[i].start + 1
             IN  Finish(i, [subworkers EXCEPT ![i].receivedBytes = whole])
       \/ /\ ~ (task[i].mode = "range" /\ Complete(subworkers[i]))
          /\ Goto(i, "stream")
          /\ UNCHANGED subworkers
    /\ UNCHANGED << good, size, errors, faults >>
    /\ Steady

(* The body ends, at its last byte or before it: mode 3 asks for the rest, *)
(* the other two take it for the end of the file.                          *)
StreamEnd(i) ==
    /\ At(i, "stream")
    /\ \/ Position(subworkers[i]) > task[i].last /\ UNCHANGED faults
       \/ Position(subworkers[i]) <= task[i].last /\ Fault("premature")
    /\ \/ /\ task[i].mode = "range"
          /\ LoopTop(i, "range")
       \/ /\ task[i].mode = "unknown"
          /\ Goto(i, "done")
          /\ UNCHANGED << good, size, subworkers >>
       \/ /\ task[i].mode = "single"
          /\ Truncated(subworkers[i].receivedBytes)
          /\ Goto(i, "done")
          /\ UNCHANGED subworkers
    /\ UNCHANGED errors
    /\ Steady

SubworkerStep(i) ==
    \/ Start(i)
    \/ Retry(i)
    \/ ReplyOk(i)
    \/ ReplyUnsatisfiable(i)
    \/ ReplyPermanent(i)
    \/ ReplyFull(i)
    \/ TransientError(i)
    \/ \E n \in ChunkSizes : Chunk(i, n)
    \/ WriteFatal(i)
    \/ Resume(i)
    \/ StreamEnd(i)

-----------------------------------------------------------------------------
(* The supervisor.                                                         *)

Reassign(subs) == Reassigned(subs, FileSize, ReassignSize)

(* One turn of its loop: the record is written, then auto-acceleration may *)
(* split up to four ranges.  If the TaskGroup is shutting down, the first  *)
(* create_task raises and ends the supervisor.                             *)
Supervise ==
    /\ phase = "group"
    /\ supervisor \in {"new", "running"}
    /\ record' = IF canRange THEN subworkers ELSE record
    /\ \/ /\ UNCHANGED << accel, subworkers, task >>
          /\ supervisor' = "running"
       \/ /\ AutoSpeed
          /\ accel = "idle"
          /\ accel' = "measuring"
          /\ \/ /\ ~ aborting
                /\ subworkers' = Reassign(Reassign(Reassign(Reassign(subworkers))))
                /\ task' = Extended(task, subworkers', NewTask)
                /\ supervisor' = "running"
             \/ /\ aborting
                /\ subworkers' = Reassign(subworkers)
                /\ task' = Extended(task, subworkers', Orphan)
                /\ supervisor' = IF subworkers' = subworkers THEN "running" ELSE "dead"
       \/ /\ AutoSpeed
          /\ accel = "measuring"
          /\ accel' \in {"idle", "stopped"}
          /\ UNCHANGED << subworkers, task >>
          /\ supervisor' = "running"
    /\ UNCHANGED << good, size, canRange, wanted, status, phase, group, faults >>

(* Opening or writing the record raises; opening has already emptied it.   *)
SuperviseFails ==
    /\ phase = "group"
    /\ supervisor \in {"new", "running"}
    /\ canRange
    /\ Fault("record")
    /\ \/ UNCHANGED record
       \/ supervisor = "new" /\ record' = << >>
    /\ supervisor' = "dead"
    /\ UNCHANGED << good, size, step, subworkers, phase, task, group >>

-----------------------------------------------------------------------------
(* The TaskGroup and the end of the run.                                   *)

CancelLive ==
    task' = [i \in DOMAIN task |->
                IF task[i].pc \in Live THEN [task[i] EXCEPT !.pc = "cancelled"] ELSE task[i]]

(* TaskGroup._on_task_done of the first task that raised.                  *)
Abort ==
    /\ phase = "group"
    /\ errors # {}
    /\ ~ aborting
    /\ aborting' = TRUE
    /\ CancelLive
    /\ UNCHANGED << disk, step, subworkers, phase, errors, cancelled, supervisor, faults >>

(* The user cancels the task of run().  In a group that is already         *)
(* aborting the cancellation is lost, and nothing changes.                 *)
Cancel ==
    /\ phase = "group"
    /\ ~ aborting
    /\ Fault("cancel")
    /\ aborting' = TRUE
    /\ cancelled' = TRUE
    /\ CancelLive
    /\ UNCHANGED << disk, step, subworkers, phase, errors, supervisor >>

GroupEnded ==
    /\ phase = "group"
    /\ \A i \in DOMAIN task : task[i].pc \notin Live
    /\ errors # {} => aborting

(* `async with self._taskGroup` is left normally.                          *)
GroupCompleted ==
    /\ GroupEnded
    /\ errors = {}
    /\ ~ cancelled
    /\ phase' = "completing"
    /\ status' = "COMPLETED"
    /\ UNCHANGED << disk, canRange, wanted, accel, subworkers, task, group, supervisor, faults >>

(* It raises CancelledError: errors have priority.                         *)
GroupCancelled ==
    /\ GroupEnded
    /\ errors = {}
    /\ cancelled
    /\ phase' = "pausing"
    /\ status' = "PAUSED"
    /\ UNCHANGED << disk, canRange, wanted, accel, subworkers, task, group, supervisor, faults >>

MustFallBack == GroupEnded /\ canRange /\ "norange" \in errors

(* It raises an ExceptionGroup that run() reports to its caller.           *)
GroupFailed ==
    /\ GroupEnded
    /\ errors # {}
    /\ ~ MustFallBack
    /\ phase' = "failing"
    /\ UNCHANGED << disk, step, subworkers, task, group, supervisor, faults >>

(* Mutant: the progress record survives.                                   *)
FallBackKeepsRecord ==
    /\ MustFallBack
    /\ phase' = "falling_back"
    /\ canRange' = FALSE
    /\ subworkers' = BuildSubworkers(FileSize, FALSE, wanted)
    /\ task' = << >>
    /\ Truncated(0)
    /\ ClockReset
    /\ UNCHANGED << record, wanted, status, group, supervisor, faults >>

(* Mutant: canUseRangeRequests stays set.                                  *)
FallBackStaysRanged ==
    /\ MustFallBack
    /\ phase' = "falling_back"
    /\ subworkers' = BuildSubworkers(FileSize, FALSE, wanted)
    /\ task' = << >>
    /\ Truncated(0)
    /\ record' = << >>
    /\ ClockReset
    /\ UNCHANGED << canRange, wanted, status, group, supervisor, faults >>

(* A server without ranges: start again as a single stream, or, when the   *)
(* file cannot be emptied, raise.  The supervisor still has the record     *)
(* open while it is deleted.                                               *)
FallBack ==
    /\ MustFallBack
    /\ canRange' = FALSE
    /\ subworkers' = BuildSubworkers(FileSize, FALSE, wanted)
    /\ task' = << >>
    /\ \/ /\ phase' = "falling_back"
          /\ Truncated(0)
          /\ DeleteRecord
          /\ ClockReset
          /\ UNCHANGED << errors, faults >>
       \/ /\ phase' = "failing"
          /\ Fault("ftruncate")
          /\ errors' = {"ftruncate"}
          /\ UNCHANGED << disk, accel >>
    /\ UNCHANGED << wanted, status, aborting, cancelled, supervisor >>

(* The supervisor, cancelled on the way out, has ended.                    *)
Settle ==
    /\ \/ /\ phase = "completing"
          /\ phase' = "finished"
          /\ DeleteRecord
       \/ /\ phase \in {"pausing", "failing"}
          /\ phase' = "idle"
          /\ UNCHANGED record
    /\ supervisor' = "off"
    /\ task' = << >>
    /\ errors' = {}
    /\ aborting' = FALSE
    /\ cancelled' = FALSE
    /\ UNCHANGED << good, size, step, subworkers, faults >>

Relaunch ==
    /\ phase = "falling_back"
    /\ Launch(subworkers)
    /\ UNCHANGED << disk, step, faults >>

-----------------------------------------------------------------------------
(* The death of the process: only the disk remains.                        *)

Lose ==
    /\ phase' = "none"
    /\ canRange' = FALSE
    /\ wanted' = 0
    /\ status' = "WAITING"
    /\ accel' = "idle"
    /\ subworkers' = << >>
    /\ task' = << >>
    /\ errors' = {}
    /\ aborting' = FALSE
    /\ cancelled' = FALSE
    /\ supervisor' = "off"

Kill ==
    /\ phase \notin {"none", "finished"}
    /\ Fault("kill")
    /\ Lose
    /\ UNCHANGED disk

(* Between open(".ghd", "wb") and the first flush.                         *)
KillOpeningRecord ==
    /\ phase = "group"
    /\ supervisor = "new"
    /\ canRange
    /\ Fault("kill_opening")
    /\ Lose
    /\ record' = << >>
    /\ UNCHANGED << good, size >>

(* Between ftruncate(fd, 0) and _deleteRecord().                           *)
KillInFallBack ==
    /\ MustFallBack
    /\ Fault("kill_fallback")
    /\ Lose
    /\ Truncated(0)
    /\ UNCHANGED record

-----------------------------------------------------------------------------
Init ==
    /\ good = {}
    /\ size \in OldSizes
    /\ record = << >>
    /\ canRange = FALSE
    /\ wanted = 0
    /\ status = "WAITING"
    /\ accel = "idle"
    /\ subworkers = << >>
    /\ phase = "none"
    /\ task = << >>
    /\ errors = {}
    /\ aborting = FALSE
    /\ cancelled = FALSE
    /\ supervisor = "off"
    /\ faults = 0

(* run() has returned; nothing is left to do.                              *)
Finished == phase = "finished" /\ UNCHANGED vars

Next ==
    \/ \E n \in Counts, r \in Ranged : Create(n, r)
    \/ \E n \in Counts : SetOptions(n)
    \/ RunFresh
    \/ RunRestored
    \/ RestoreSplit
    \/ RestoreDone
    \/ \E i \in DOMAIN task : SubworkerStep(i)
    \/ Supervise
    \/ SuperviseFails
    \/ Abort
    \/ Cancel
    \/ GroupCompleted
    \/ GroupCancelled
    \/ GroupFailed
    \/ FallBack
    \/ Settle
    \/ Relaunch
    \/ Kill
    \/ KillOpeningRecord
    \/ KillInFallBack
    \/ Finished

Spec == Init /\ [][Next]_vars

(* asyncio runs every task that is ready; a server that keeps silent is    *)
(* cut off by the read timeout, which is an error and counted in MaxFaults.*)
(* Nothing is assumed of the user: a run need not be started or resumed.   *)
Fairness ==
    /\ \A i \in 1 .. Length : WF_vars(i \in DOMAIN task /\ SubworkerStep(i))
    /\ WF_vars(Abort)
    /\ WF_vars(GroupCompleted \/ GroupCancelled \/ GroupFailed \/ FallBack)
    /\ WF_vars(Settle \/ Relaunch)

FairSpec == Spec /\ Fairness

-----------------------------------------------------------------------------
(* Type invariant.  The entries of a record are packed as unsigned         *)
(* integers: a subworker whose end is NOT_SUPPORTED must never reach it.   *)
SubworkerType == [start : Nat, end : Nat \cup {NOT_SUPPORTED}, receivedBytes : Nat]
EntryType == [start : Nat, end : Nat, receivedBytes : Nat]
TaskType == [pc : Pcs, mode : Modes, last : Nat]

TypeOK ==
    /\ good \in SUBSET Nat
    /\ size \in Nat
    /\ record \in Seq(EntryType)
    /\ canRange \in BOOLEAN
    /\ wanted \in Nat
    /\ status \in Statuses
    /\ accel \in {"idle", "measuring", "stopped"}
    /\ subworkers \in Seq(SubworkerType)
    /\ phase \in Phases
    /\ task \in Seq(TaskType)
    /\ errors \in SUBSET EnvKinds
    /\ aborting \in BOOLEAN
    /\ cancelled \in BOOLEAN
    /\ supervisor \in {"off", "new", "running", "dead"}
    /\ faults \in Nat

(* Every range but the open-ended single stream has at least one byte.     *)
Sound(subs) ==
    \A i \in DOMAIN subs :
        subs[i].end # NOT_SUPPORTED => subs[i].start <= subs[i].end

AllRanges(subs) == \A i \in DOMAIN subs : subs[i].end # NOT_SUPPORTED

(* One task for each subworker, in a loop that fits it.                    *)
Paired(subs, tasks) ==
    /\ tasks \in Seq(TaskType)
    /\ DOMAIN tasks = DOMAIN subs
    /\ \A i \in DOMAIN subs :
          /\ tasks[i].mode = "range" => subs[i].end # NOT_SUPPORTED
          /\ tasks[i].mode = "single" => subs[i].end = NOT_SUPPORTED

(* TypeOK, strengthened until every step preserves it.                     *)
WellFormed ==
    /\ TypeOK
    /\ Sound(subworkers)
    /\ Sound(record)
    /\ canRange => AllRanges(subworkers)
    /\ phase = "none" => subworkers = << >>
    /\ phase # "none" => wanted # 0
    /\ phase = "restoring" => canRange
    /\ phase = "group" => Paired(subworkers, task)

(* Every byte the subworkers of subs count as received is among bytes.     *)
OnDisk(subs, bytes) == \A i \in DOMAIN subs : Received(subs[i]) \subseteq bytes

(* The ranges of subs are disjoint and together are the whole file.        *)
Tiles(subs) ==
    /\ \A b \in 0 .. FileSize - 1 :
          \E i \in DOMAIN subs : subs[i].start <= b /\ b <= subs[i].end
    /\ \A i, j \in DOMAIN subs :
          i # j => subs[i].end < subs[j].start \/ subs[j].end < subs[i].start

(* Resuming from the .ghd file never skips a byte that is not in the       *)
(* output file: whatever was interrupted, and wherever, the record does    *)
(* not run ahead of the data.                                              *)
RecordOnDisk == OnDisk(record, good)

(* The one subworker of a download without ranges.                         *)
SingleStream(subs) ==
    /\ Len(subs) = 1
    /\ subs[1].start = 0
    /\ subs[1].end = NOT_SUPPORTED

(* RecordOnDisk, strengthened: what the subworkers claim is on the disk    *)
(* too, and where the file may be emptied there is no record.              *)
ClaimsOnDisk ==
    /\ RecordOnDisk
    /\ OnDisk(subworkers, good)
    /\ phase \in {"group", "falling_back"} /\ ~ canRange =>
          record = << >> /\ SingleStream(subworkers)

(* What a record leaves to be downloaded is exactly what is missing: its   *)
(* ranges tile the file, however often they were split, saved, restored    *)
(* and split again.                                                        *)
RecordTilesFile == FileSize > 0 /\ record # << >> => Tiles(record)

(* A download that reports COMPLETED has written every byte of the file,   *)
(* and the file has no other.                                              *)
CompletedFileCorrect ==
    status = "COMPLETED" => (good = 0 .. Length - 1 /\ size = Length)

(* No two subworkers fetch the same byte.                                  *)
NoOverlap ==
    \A i, j \in DOMAIN subworkers :
        i # j => Received(subworkers[i]) \cap Received(subworkers[j]) = {}

(* As long as nothing has failed, every range that is not complete has a   *)
(* task that will go on with it: a split never loses its second half.      *)
NoOrphanedRange ==
    phase = "group" /\ ~ aborting /\ errors = {} =>
        \A i \in DOMAIN subworkers :
            \/ task[i].pc \in Live
            \/ task[i].pc = "done" /\ Complete(subworkers[i])

(* A byte the record had marked as received stays marked, across splits,   *)
(* failures, pauses and restarts, until the download completes or turns    *)
(* to a single stream: resuming loses no recorded progress.                *)
Recorded == UNION {Received(record[i]) : i \in DOMAIN record}

RecordedProgressKept ==
    [][ \/ Recorded \subseteq Recorded'
        \/ phase' \in {"finished", "falling_back"}
        \/ phase' = "group" /\ ~ canRange' ]_vars

(* What may keep a run from completing: the user, an error that is not     *)
(* tried again, the death of the process.                                  *)
Interrupted ==
    cancelled \/ errors \ {"norange"} # {} \/ phase = "none"

(* Nothing else does.  Errors that may be tried again, a server without    *)
(* ranges, a failed preallocation, a lost supervisor, a body cut short:    *)
(* the download still completes.                                           *)
DownloadCompletes ==
    (phase = "group") ~> (status = "COMPLETED" \/ Interrupted)

(* A run that has started ends: completed, paused, failed or killed.       *)
RunEnds == (phase = "group") ~> (phase \in {"idle", "finished", "none"})
=============================================================================
