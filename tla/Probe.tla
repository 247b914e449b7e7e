-------------------------------- MODULE Probe --------------------------------
(***************************************************************************)
(* What main.py and __main__.py find out about a file before they download *)
(* it (_probe), from the answer to a request for its first byte.           *)
(*                                                                         *)
(* An answer is its status, the total of its content-range and its         *)
(* content-length; Absent stands for a header that is not there, and       *)
(* Unstated for the total "*" of a server that does not know it.           *)
(***************************************************************************)
EXTENDS Subworkers

Absent == -1
Unstated == -2

ProbedSize(answer) ==
    IF answer.total \notin {Absent, Unstated, 0} THEN answer.total
    ELSE IF answer.length # Absent THEN answer.length
    ELSE UNKNOWN

ProbedRange(answer) == answer.status = 206 /\ answer.total # Absent

(* The command line does not ask for ranges of a file of unknown size.     *)
RangeOfCommandLine(answer) == ProbedRange(answer) /\ ProbedSize(answer) # UNKNOWN

(* What a server may answer for a file of n bytes: with or without ranges, *)
(* and with or without knowing its length; or with an error page.          *)
AnswersFor(n) ==
    [status : {206}, total : {n, Unstated}, length : {1, Absent}]
        \cup [status : {206}, total : {Absent}, length : {1, n, Absent}]
        \cup [status : {200}, total : {Absent}, length : {n, Absent}]
        \cup [status : {403, 404, 416, 503}, total : {Absent, n}, length : {0, 1, n + 1, Absent}]

-----------------------------------------------------------------------------
(* The file offset of a write on Windows (pwrite of _io.py): the two       *)
(* halves of an OVERLAPPED, each a DWORD, and the offset the system makes  *)
(* of them.  A DWORD holds the numbers below `dwords`, which are 2^32.     *)
Dword(dwords, n) == n % dwords

(* Mutant: the upper half is left at zero.                                 *)
OffsetHighZero(dwords, offset) == 0

OffsetHigh(dwords, offset) == Dword(dwords, offset \div dwords)

OffsetLow(dwords, offset) == Dword(dwords, offset)

FileOffset(dwords, offset) == OffsetHigh(dwords, offset) * dwords + OffsetLow(dwords, offset)
=============================================================================
