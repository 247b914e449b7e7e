---------------------------- MODULE DownloadSignals ----------------------------
(***************************************************************************)
(* One destination of the download node: each _do_download (main.py) is    *)
(* one HttpStep that is run once, and tells its client by signals how far  *)
(* it is (report_speed) and how it ended.  A later request for the same    *)
(* destination finds what the one before left on the disk.                 *)
(***************************************************************************)
EXTENDS HttpStep

VARIABLES
    received_total,     \* received_total of report_speed
    percent,            \* the percentage of the last progress signal; it is
                        \* last_pct until the run returns
    signal              \* the final signal: "none", "completed", "failed",
                        \* or "lost" when the process died before it

signals == << received_total, percent, signal >>
allVars == << vars, signals >>

-----------------------------------------------------------------------------
(* A new request: the start signal.                                        *)
Started ==
    /\ received_total' = 0
    /\ percent' = 0
    /\ signal' = "none"

Request == \E n \in Counts, r \in Ranged : Create(n, r) /\ Started

(* step.run is called once for each step.                                  *)
RunOnce ==
    /\ subworkers = << >>
    /\ RunFresh \/ RunRestored
    /\ UNCHANGED signals

-----------------------------------------------------------------------------
(* Mutant: the percentage is that of the chunk.                            *)
ReportChunk(byteCount) ==
    LET total == received_total + byteCount
        pct == IF FileSize > 0 THEN (byteCount * 100) \div FileSize ELSE 0
    IN  /\ received_total' = total
        /\ percent' = IF pct - percent >= 5 \/ (FileSize > 0 /\ total >= FileSize)
                      THEN pct ELSE percent
        /\ UNCHANGED signal

(* report_speed: a signal when five percent have come, and at every chunk  *)
(* from the last on.                                                       *)
Report(byteCount) ==
    LET total == received_total + byteCount
        pct == IF FileSize > 0 THEN (total * 100) \div FileSize ELSE 0
    IN  /\ received_total' = total
        /\ percent' = IF pct - percent >= 5 \/ (FileSize > 0 /\ total >= FileSize)
                      THEN pct ELSE percent
        /\ UNCHANGED signal

(* A subworker reports the chunk it has written.                           *)
Downloading(i) ==
    /\ SubworkerStep(i)
    /\ IF task[i].pc = "stream" /\ task'[i].pc = "limit"
       THEN Report(subworkers'[i].receivedBytes - subworkers[i].receivedBytes)
       ELSE UNCHANGED signals

-----------------------------------------------------------------------------
(* run() has returned.                                                     *)
Completed ==
    /\ phase = "finished"
    /\ signal = "none"
    /\ signal' = "completed"
    /\ percent' = 100
    /\ UNCHANGED << vars, received_total >>

(* Mutant: only the cause is logged.                                       *)
FailedSilently ==
    /\ phase = "idle"
    /\ subworkers # << >>
    /\ Lose
    /\ UNCHANGED << disk, faults, signals >>

(* run() has raised; the step is dropped.                                  *)
Failed ==
    /\ phase = "idle"
    /\ subworkers # << >>
    /\ Lose
    /\ signal' = "failed"
    /\ UNCHANGED << disk, faults, received_total, percent >>

(* run() has raised before its first task, and after the deletion of the   *)
(* record of a step without ranges or before it; the step is dropped.      *)
RunRaises ==
    /\ (phase = "idle" /\ subworkers = << >>) \/ phase = "restoring"
    /\ Fault("unopened")
    /\ Lose
    /\ UNCHANGED record \/ (~ canRange /\ DeleteRecord)
    /\ signal' = "failed"
    /\ UNCHANGED << good, size, received_total, percent >>

(* The exit of the node.                                                   *)
Died ==
    /\ Kill
    /\ signal' = "lost"
    /\ UNCHANGED << received_total, percent >>

-----------------------------------------------------------------------------
SignalsInit == Init /\ received_total = 0 /\ percent = 0 /\ signal = "none"

Engine ==
    \/ RestoreSplit \/ RestoreDone
    \/ Supervise \/ SuperviseFails
    \/ Abort \/ GroupCompleted \/ GroupFailed \/ FallBack \/ Settle \/ Relaunch

SignalsNext ==
    \/ Request
    \/ RunOnce
    \/ \E i \in DOMAIN task : Downloading(i)
    \/ Engine /\ UNCHANGED signals
    \/ Completed
    \/ Failed
    \/ RunRaises
    \/ Died
    \/ phase = "finished" /\ signal # "none" /\ UNCHANGED allVars

(* The two threads of the node go on; run() is called by the same          *)
(* coroutine that created the step.                                        *)
SignalsFairness ==
    /\ Fairness
    /\ WF_allVars(RunOnce)
    /\ WF_allVars(RestoreSplit /\ UNCHANGED signals)
    /\ WF_allVars(RestoreDone /\ UNCHANGED signals)
    /\ WF_allVars(Completed)
    /\ WF_allVars(Failed)

SignalsSpec == SignalsInit /\ [][SignalsNext]_allVars /\ SignalsFairness

-----------------------------------------------------------------------------
(* While a step downloads ranges, no byte is reported twice, however the   *)
(* ranges were split, retried or restored ...                              *)
NoByteReportedTwice == canRange => received_total <= FileSize

(* ... and what a client is told never goes back: the final 100 is not     *)
(* less than the signal before, nor is any other.                          *)
PercentNeverFalls ==
    [][ \/ percent <= percent'
        \/ ~ canRange
        \/ phase = "none" /\ phase' = "idle" ]_allVars

(* The completed signal is only sent for a complete file, whose length is  *)
(* the one in the signal.                                                  *)
CompletedIsTrue ==
    signal = "completed" => good = 0 .. Length - 1 /\ size = Length /\ record = << >>

(* Each request that got as far as to have a step ends with a signal,      *)
(* unless the process dies first.                                          *)
EndIsSignalled == (phase = "idle" /\ signal = "none") ~> (signal # "none")
=============================================================================
