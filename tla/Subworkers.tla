------------------------------ MODULE Subworkers ------------------------------
(***************************************************************************)
(* The pure part of the download engine (_engine.py): the byte ranges a    *)
(* file is cut into, and how an unfinished range is split.                 *)
(*                                                                         *)
(* The code keeps a list sorted by start, and inserts a new subworker      *)
(* right after the one it splits.  Here the new one is appended, so that a *)
(* subworker keeps its place for life; the list order is recovered from    *)
(* `start`, which is all that Slowest needs of it.                         *)
(***************************************************************************)
EXTENDS Integers, Sequences

(* The two values of FileSize that stand for something else than a size.   *)
UNKNOWN == 0
NOT_SUPPORTED == -1

MinOf(a, b) == IF a <= b THEN a ELSE b
MaxOf(a, b) == IF a <= b THEN b ELSE a

(* A fresh Subworker for the bytes first..last.                            *)
Subworker(first, last) == [start |-> first, end |-> last, receivedBytes |-> 0]

Position(sw) == sw.start + sw.receivedBytes

Remaining(sw) == sw.end - Position(sw) + 1

(* The bytes a subworker claims to have received.                          *)
Received(sw) == sw.start .. Position(sw) - 1

-----------------------------------------------------------------------------
(* Mutant: the last chunk ends one byte past the end of the file.          *)
ChunksPastEnd(fileSize, count) ==
    LET chunkSize == fileSize \div count
    IN  [i \in 1 .. count |->
            Subworker((i - 1) * chunkSize,
                      IF i = count THEN fileSize ELSE i * chunkSize - 1)]

(* `count` chunks of equal size, the last one also taking the rest.        *)
Chunks(fileSize, count) ==
    LET chunkSize == fileSize \div count
    IN  [i \in 1 .. count |->
            Subworker((i - 1) * chunkSize,
                      IF i = count THEN fileSize - 1 ELSE i * chunkSize - 1)]

BuildSubworkers(fileSize, ranged, subworkerCount) ==
    CASE ~ranged                       -> << Subworker(0, NOT_SUPPORTED) >>
      [] ranged /\ fileSize = UNKNOWN  -> << Subworker(0, UNKNOWN) >>
      [] OTHER -> Chunks(fileSize, MinOf(subworkerCount, fileSize))

(* Python's max(key=...): the first in list order of those with the most   *)
(* bytes still to come.                                                    *)
IsSlowest(subs, i) ==
    \A j \in DOMAIN subs :
        \/ Remaining(subs[j]) < Remaining(subs[i])
        \/ /\ Remaining(subs[j]) = Remaining(subs[i])
           /\ subs[i].start <= subs[j].start

(* Mutant: the odd byte of the remainder is left out of the first half.    *)
SplitAtLosesRemainder(subs, i) ==
    LET newEnd == Position(subs[i]) + Remaining(subs[i]) \div 2 - 1
    IN  Append([subs EXCEPT ![i].end = newEnd],
               Subworker(newEnd + 1 + (Remaining(subs[i]) % 2), subs[i].end))

(* Mutant: the slowest keeps its old end, so both halves fetch the second. *)
SplitAtKeepsEnd(subs, i) ==
    LET newEnd == Position(subs[i]) + Remaining(subs[i]) \div 2
                    + (Remaining(subs[i]) % 2) - 1
    IN  Append(subs, Subworker(newEnd + 1, subs[i].end))

(* _splitSlowest's second half: subworker i keeps the first half of what   *)
(* it has left, rounded up, and a new one takes the second.                *)
SplitAt(subs, i) ==
    LET newEnd == Position(subs[i]) + Remaining(subs[i]) \div 2
                    + (Remaining(subs[i]) % 2) - 1
    IN  Append([subs EXCEPT ![i].end = newEnd],
               Subworker(newEnd + 1, subs[i].end))

(* Split the slowest subworker if it has at least `least` bytes left.      *)
SplitSlowest(subs, least) ==
    LET Splittable(i) == IsSlowest(subs, i) /\ Remaining(subs[i]) >= MaxOf(2, least)
    IN  IF \E i \in DOMAIN subs : Splittable(i)
        THEN SplitAt(subs, CHOOSE i \in DOMAIN subs : Splittable(i))
        ELSE subs

(* What _reassignSubworker does to the list of subworkers.                 *)
Reassigned(subs, fileSize, maxReassignSize) ==
    IF fileSize > 0 THEN SplitSlowest(subs, maxReassignSize) ELSE subs
=============================================================================
