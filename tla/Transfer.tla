------------------------------- MODULE Transfer -------------------------------
(***************************************************************************)
(* What a download promises to the one who runs it, pauses it and comes    *)
(* back to it: bytes are stored, progress is saved, and at the end the     *)
(* whole file is there.  How the bytes are fetched, by how many tasks, in  *)
(* which ranges and with which failures, is left to HttpStep.              *)
(***************************************************************************)
CONSTANT Bytes          \* the bytes of the file

VARIABLES
    stored,     \* the bytes that are in the output file
    saved,      \* the bytes that a later run will not ask for again
    run         \* "off", "on", "complete" or "over"

transfer == << stored, saved, run >>

Init == stored = {} /\ saved = {} /\ run = "off"

(* A run goes on from what is saved ...                                    *)
Resume ==
    /\ run = "off"
    /\ run' = "on"
    /\ UNCHANGED << stored, saved >>

(* ... or from nothing; it may find bytes of an earlier run in the file.   *)
StartAfresh ==
    /\ run = "off"
    /\ run' = "on"
    /\ saved' = {}
    /\ stored' \in {{}, stored}

Store ==
    /\ run = "on"
    /\ stored \subseteq stored'
    /\ stored' \subseteq Bytes
    /\ UNCHANGED << saved, run >>

(* Only what is stored is saved, and what was saved stays saved.           *)
Save ==
    /\ run = "on"
    /\ saved \subseteq saved'
    /\ saved' \subseteq stored
    /\ UNCHANGED << stored, run >>

(* Saved progress may be lost, the bytes are not.                          *)
Unsave ==
    /\ run = "on"
    /\ saved' = {}
    /\ UNCHANGED << stored, run >>

(* Bytes are given up only all at once, and with all saved progress.       *)
StartOver ==
    /\ run = "on"
    /\ stored' = {}
    /\ saved' = {}
    /\ UNCHANGED run

Stop ==
    /\ run \in {"on", "complete"}
    /\ run' = "off"
    /\ UNCHANGED << stored, saved >>

(* A download that is complete has stored every byte, ...                  *)
Complete ==
    /\ run = "on"
    /\ stored = Bytes
    /\ run' = "complete"
    /\ UNCHANGED << stored, saved >>

(* ... and needs its record no more.                                       *)
Finish ==
    /\ run = "complete"
    /\ run' = "over"
    /\ saved' = {}
    /\ UNCHANGED stored

(* Between two runs the user deletes the files: if one cannot be deleted   *)
(* it is the output file.                                                  *)
Delete ==
    /\ run = "off"
    /\ saved' = {}
    /\ stored' \in {{}, stored}
    /\ UNCHANGED run

Next ==
    \/ Resume \/ StartAfresh
    \/ Store \/ Save \/ Unsave \/ StartOver
    \/ Stop \/ Complete \/ Finish
    \/ Delete

Spec == Init /\ [][Next]_transfer
=============================================================================
