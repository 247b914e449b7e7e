----------------------------- MODULE HttpStepFiles -----------------------------
(***************************************************************************)
(* HttpStep, and what happens to its two files between two runs: they are  *)
(* deleted (deleteFiles) or moved to another folder (moveFiles), and the   *)
(* server may replace the file that is downloaded.                         *)
(***************************************************************************)
EXTENDS HttpStep

Bytes == 0 .. Length - 1

FilesOnly == UNCHANGED << step, subworkers, phase, task, group, supervisor >>

Gone == good' = {} /\ size' = 0

(* Mutant: the record is left for the next download to find.               *)
DeleteDataOnly ==
    /\ phase = "idle"
    /\ Gone
    /\ UNCHANGED << record, faults >>
    /\ FilesOnly

(* deleteFiles tries both files, and tells nobody when it fails on either. *)
DeleteFiles ==
    /\ phase = "idle"
    /\ \/ Gone /\ record' = << >> /\ UNCHANGED faults
       \/ Fault("kept") /\ record' = << >> /\ UNCHANGED << good, size >>
       \/ Fault("kept_record") /\ Gone /\ UNCHANGED record
    /\ FilesOnly

(* moveFiles moves the output file, then the record, and only then tells   *)
(* the step where they are: as long as neither fails, nothing that is      *)
(* modelled here changes.                                                  *)
MoveFiles ==
    /\ phase = "idle"
    /\ record # << >>
    /\ Fault("unmoved")
    /\ Gone
    /\ UNCHANGED record
    /\ FilesOnly

(* Not a byte of the new file has to be that of the old.                   *)
RemoteChanges ==
    /\ phase = "idle"
    /\ Fault("changed")
    /\ good' = {}
    /\ UNCHANGED << size, record >>
    /\ FilesOnly

FilesNext == Next \/ DeleteFiles \/ MoveFiles \/ RemoteChanges

FilesSpec == Init /\ [][FilesNext]_vars

FairFilesSpec == FilesSpec /\ Fairness

-----------------------------------------------------------------------------
(* How far the download is, as its user sees it.                           *)
Run ==
    IF status = "COMPLETED"
    THEN IF phase = "finished" THEN "over" ELSE "complete"
    ELSE IF phase \in {"none", "idle"} THEN "off" ELSE "on"

Download == INSTANCE Transfer WITH
    stored <- good \cap Bytes, saved <- Recorded, run <- Run

(* HttpStep implements Transfer: bytes that have been stored are given up  *)
(* only by starting over, and then no saved progress points at them; only  *)
(* what is stored is saved, and a later run takes it up; COMPLETED comes   *)
(* with the whole file.                                                    *)
ImplementsTransfer == Download!Spec
=============================================================================
