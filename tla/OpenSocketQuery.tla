--------------------------- MODULE OpenSocketQuery ---------------------------
(***************************************************************************)
(* The query side of KnotLink (OpenSocketQuerier.py): one thread calls     *)
(* query and query_async, the receiving thread of the connection hands     *)
(* over the answers, and a third thread may call disconnect.               *)
(*                                                                         *)
(* A step is what one thread does between two accesses to what they share; *)
(* a section under _state_lock is one step.  A query and its answer are    *)
(* the number of the query: the code sees only a text, and never which     *)
(* query it answers.  Texts, their encoding and the name of the service    *)
(* are left out.                                                           *)
(***************************************************************************)
EXTENDS Naturals, Sequences

CONSTANTS
    MaxQueries,     \* bound on the number of queries
    Env             \* what may happen besides, see EnvKinds

EnvKinds == {
    "timeout",      \* a caller gives a timeout, which may expire
    "async",        \* a caller uses query_async
    "close",        \* a thread calls disconnect
    "lost",         \* the Core closes the connection
    "unserved"      \* the service drops queries, or goes away with them
  }

ASSUME OpenSocketQueryAssumption ==
    /\ MaxQueries \in Nat
    /\ Env \subseteq EnvKinds

VARIABLES
    caller,             \* where the calling thread is in query
    asked,              \* how many queries it has made
    timed,              \* whether the current one has a timeout
    query_result,       \* the answer stored for it, or None
    query_event,        \* query_event.is_set()
    is_querying,
    timeout_occurred,   \* _timeout_occurred
    connected,          \* KLquerier.connected
    closing,            \* how far disconnect is
    outcome,            \* outcome[n]: how query n ended
    answer,             \* answer[n]: what it returned, if it returned an answer
    given,              \* the answers passed to the callback
    toCore,             \* queries sent and not yet answered, in order
    fromCore            \* answers on their way to the receiving thread

calling == << caller, asked, timed, outcome, answer >>
shared == << query_result, query_event, is_querying, timeout_occurred >>
wire == << toCore, fromCore >>
vars == << calling, shared, connected, closing, given, wire >>

None == 0
Queries == 1 .. MaxQueries

-----------------------------------------------------------------------------
(* The calling thread.                                                     *)

CallerGoto(from, to) == caller = from /\ caller' = to

Sent(n) == toCore' = IF connected THEN Append(toCore, n) ELSE toCore

(* Mutant: the event of the query before stays set.                        *)
BeginWithEvent ==
    /\ CallerGoto("idle", "sending")
    /\ asked < MaxQueries
    /\ asked' = asked + 1
    /\ timed' \in IF "timeout" \in Env THEN BOOLEAN ELSE {FALSE}
    /\ is_querying' = TRUE
    /\ timeout_occurred' = FALSE
    /\ UNCHANGED << query_result, query_event, connected, closing, outcome, answer, given, wire >>

(* Mutant: only the answer of the query before is reset.                   *)
BeginWithResult ==
    /\ CallerGoto("idle", "sending")
    /\ asked < MaxQueries
    /\ asked' = asked + 1
    /\ timed' \in IF "timeout" \in Env THEN BOOLEAN ELSE {FALSE}
    /\ query_result' = None
    /\ is_querying' = TRUE
    /\ timeout_occurred' = FALSE
    /\ UNCHANGED << query_event, connected, closing, outcome, answer, given, wire >>

(* query, up to the end of its first locked section.                       *)
Begin ==
    /\ CallerGoto("idle", "sending")
    /\ asked < MaxQueries
    /\ asked' = asked + 1
    /\ timed' \in IF "timeout" \in Env THEN BOOLEAN ELSE {FALSE}
    /\ query_result' = None
    /\ query_event' = FALSE
    /\ is_querying' = TRUE
    /\ timeout_occurred' = FALSE
    /\ UNCHANGED << connected, closing, outcome, answer, given, wire >>

(* Without a connection nothing is sent, and the caller is not told.       *)
Send ==
    /\ CallerGoto("sending", "waiting")
    /\ Sent(asked)
    /\ UNCHANGED << asked, timed, outcome, answer, shared, connected, closing, given, fromCore >>

(* query_event.wait() returns True.                                        *)
Wake ==
    /\ CallerGoto("waiting", "woken")
    /\ query_event
    /\ UNCHANGED << asked, timed, outcome, answer, shared, connected, closing, given, wire >>

(* Mutant: without a connection the query is sent again.                   *)
TimeOutRetries ==
    /\ CallerGoto("waiting", IF connected THEN "late" ELSE "sending")
    /\ timed
    /\ ~ query_event
    /\ UNCHANGED << asked, timed, outcome, answer, shared, connected, closing, given, wire >>

(* query_event.wait(timeout) returns False: an answer that arrives before  *)
(* the caller has the lock comes too late.                                 *)
TimeOut ==
    /\ CallerGoto("waiting", "late")
    /\ timed
    /\ ~ query_event
    /\ UNCHANGED << asked, timed, outcome, answer, shared, connected, closing, given, wire >>

Return ==
    /\ CallerGoto("woken", "idle")
    /\ is_querying' = FALSE
    /\ answer' = [answer EXCEPT ![asked] = query_result]
    /\ outcome' = [outcome EXCEPT ![asked] =
                      IF query_result = None THEN "no_answer" ELSE "answer"]
    /\ UNCHANGED << asked, timed, query_result, query_event, timeout_occurred >>
    /\ UNCHANGED << connected, closing, given, wire >>

(* Mutant: query ends by its timeout and leaves is_querying set, and no    *)
(* mark of the timeout.                                                    *)
RaiseUnmarked ==
    /\ CallerGoto("late", "idle")
    /\ outcome' = [outcome EXCEPT ![asked] = "timeout"]
    /\ UNCHANGED << asked, timed, answer, shared, connected, closing, given, wire >>

(* raise TimeoutError                                                      *)
Raise ==
    /\ CallerGoto("late", "idle")
    /\ is_querying' = FALSE
    /\ timeout_occurred' = TRUE
    /\ outcome' = [outcome EXCEPT ![asked] = "timeout"]
    /\ UNCHANGED << asked, timed, answer, query_result, query_event >>
    /\ UNCHANGED << connected, closing, given, wire >>

QueryAsync ==
    /\ "async" \in Env
    /\ caller = "idle"
    /\ asked < MaxQueries
    /\ asked' = asked + 1
    /\ Sent(asked')
    /\ outcome' = [outcome EXCEPT ![asked'] = "async"]
    /\ UNCHANGED << caller, timed, answer, shared, connected, closing, given, fromCore >>

CallerStep == Send \/ Wake \/ TimeOut \/ Return \/ Raise

-----------------------------------------------------------------------------
(* The receiving thread, and the connection.                               *)

(* _internal_data_recv: the next answer is for the query in progress, if   *)
(* there is one, and for the callback otherwise.                           *)
Receive ==
    /\ fromCore # << >>
    /\ fromCore' = Tail(fromCore)
    /\ IF is_querying /\ ~ timeout_occurred
       THEN /\ query_result' = Head(fromCore)
            /\ query_event' = TRUE
            /\ UNCHANGED given
       ELSE /\ given' = given \cup {Head(fromCore)}
            /\ UNCHANGED << query_result, query_event >>
    /\ UNCHANGED << calling, is_querying, timeout_occurred, connected, closing, toCore >>

(* What has been read before the connection ends is still handed over.     *)
Hangup ==
    /\ connected' = FALSE
    /\ \E read \in 0 .. Len(fromCore) : fromCore' = SubSeq(fromCore, 1, read)

Lost ==
    /\ "lost" \in Env
    /\ connected
    /\ Hangup
    /\ UNCHANGED << calling, shared, closing, given, toCore >>

(* disconnect: first the connection ends ...                               *)
Close ==
    /\ "close" \in Env
    /\ closing = "open"
    /\ closing' = "closing"
    /\ Hangup
    /\ UNCHANGED << calling, shared, given, toCore >>

(* Mutant: ... and a thread that waits is not woken.                       *)
CloseOnly ==
    /\ closing = "closing"
    /\ closing' = "closed"
    /\ timeout_occurred' = TRUE
    /\ UNCHANGED << calling, query_result, query_event, is_querying, connected, given, wire >>

(* ... then a thread that waits for an answer is woken.                    *)
Closed ==
    /\ closing = "closing"
    /\ closing' = "closed"
    /\ timeout_occurred' = TRUE
    /\ query_event' = TRUE
    /\ UNCHANGED << calling, query_result, is_querying, connected, given, wire >>

-----------------------------------------------------------------------------
(* The Core takes the first query, and later passes its answer on; without *)
(* a connection the answer goes nowhere.                                   *)
Delivered(n) == fromCore' = IF connected THEN Append(fromCore, n) ELSE fromCore

CoreAnswers ==
    /\ toCore # << >>
    /\ toCore' = Tail(toCore)
    /\ Delivered(Head(toCore))
    /\ UNCHANGED << calling, shared, connected, closing, given >>

(* Nobody answers the first queries; see KnotLinkSystem for when.          *)
Unserved ==
    /\ "unserved" \in Env
    /\ \E n \in 1 .. Len(toCore) : toCore' = SubSeq(toCore, n + 1, Len(toCore))
    /\ UNCHANGED << calling, shared, connected, closing, given, fromCore >>

ClientInit ==
    /\ caller = "idle" /\ asked = 0 /\ timed = FALSE
    /\ query_result = None /\ query_event = FALSE
    /\ is_querying = FALSE /\ timeout_occurred = FALSE
    /\ connected \in BOOLEAN /\ closing = "open"
    /\ outcome = [n \in Queries |-> "none"]
    /\ answer = [n \in Queries |-> None]
    /\ given = {}
    /\ toCore = << >> /\ fromCore = << >>

ClientNext ==
    \/ Begin \/ CallerStep \/ QueryAsync
    \/ Receive \/ Lost \/ Close \/ Closed

(* A query without a timeout may wait for ever, and so may the caller.     *)
Idle ==
    /\ asked = MaxQueries \/ caller = "waiting"
    /\ caller \in {"idle", "waiting"}
    /\ caller = "waiting" => ~ timed /\ ~ query_event
    /\ toCore = << >> /\ fromCore = << >>
    /\ UNCHANGED vars

Next == ClientNext \/ CoreAnswers \/ Unserved \/ Idle

Spec == ClientInit /\ [][Next]_vars

(* The threads are scheduled, and a wait with a timeout does end; whether  *)
(* the caller asks again, or anyone disconnects, is its own affair.        *)
ClientFairness ==
    /\ WF_vars(CallerStep)
    /\ WF_vars(Receive)
    /\ WF_vars(Closed)

FairSpec == Spec /\ ClientFairness /\ WF_vars(CoreAnswers)

-----------------------------------------------------------------------------
(* Each variable has its type, and is_querying is set exactly while the    *)
(* calling thread is in query.                                             *)
TypeOK ==
    /\ caller \in {"idle", "sending", "waiting", "woken", "late"}
    /\ asked \in 0 .. MaxQueries
    /\ timed \in BOOLEAN /\ query_event \in BOOLEAN /\ is_querying \in BOOLEAN
    /\ timeout_occurred \in BOOLEAN /\ connected \in BOOLEAN
    /\ is_querying <=> caller # "idle"
    /\ query_result \in 0 .. asked
    /\ closing \in {"open", "closing", "closed"}
    /\ outcome \in [Queries -> {"none", "answer", "async", "timeout", "no_answer"}]
    /\ answer \in [Queries -> 0 .. asked]
    /\ given \subseteq 1 .. asked
    /\ toCore \in Seq(1 .. asked)
    /\ fromCore \in Seq(1 .. asked)

(* "_timeout_occurred: prevents an expired result from overwriting": what  *)
(* a query returns is the answer to that query.                            *)
AnswersAreOwn == \A n \in Queries : answer[n] \in {None, n}

(* A query is given the answer to another only after one before it ended   *)
(* without an answer, by a timeout, by disconnect or because it did not    *)
(* wait: then one answer is one too many.                                  *)
AnswersAreOwnOrLate ==
    \A n \in Queries :
        answer[n] \notin {None, n} =>
            /\ answer[n] < n
            /\ \E k \in 1 .. n - 1 : outcome[k] # "answer"

(* No answer is used twice: neither by two queries, nor by a query that    *)
(* returned and by the callback.                                           *)
AnswersAreUsedOnce ==
    \A n \in Queries : answer[n] # None =>
        /\ answer[n] \notin given
        /\ \A k \in Queries \ {n} : answer[k] # answer[n]

(* query returns None, which is no answer, only after disconnect.          *)
NoAnswerOnlyAfterClose ==
    \A n \in Queries : outcome[n] = "no_answer" => closing # "open"

(* A query with a timeout ends, whatever becomes of the connection.        *)
TimedQueryEnds ==
    \A n \in Queries :
        (asked = n /\ timed /\ caller # "idle") ~> (outcome[n] # "none")

(* disconnect releases the thread that waits for an answer: every query    *)
(* that began before its second half ends.                                 *)
DisconnectWakes ==
    \A n \in Queries :
        (asked = n /\ caller # "idle" /\ closing = "closing") ~> (outcome[n] # "none")

-----------------------------------------------------------------------------
(* What makes these properties hold in every step.                         *)

Ordered(s) == \A i, j \in DOMAIN s : i < j => s[i] < s[j]

(* An answer that is still on its way is later than all that arrived.      *)
Later(m) ==
    /\ query_result < m
    /\ \A a \in given : a < m
    /\ \A n \in Queries : answer[n] < m

InOrder ==
    /\ Ordered(toCore) /\ Ordered(fromCore)
    /\ \A i \in DOMAIN fromCore, j \in DOMAIN toCore : fromCore[i] < toCore[j]
    /\ \A i \in DOMAIN fromCore : Later(fromCore[i])
    /\ \A j \in DOMAIN toCore : Later(toCore[j])
    /\ caller = "sending" =>
          /\ \A i \in DOMAIN fromCore : fromCore[i] < asked
          /\ \A j \in DOMAIN toCore : toCore[j] < asked
          /\ Later(asked)

(* The answer that is kept for the query in progress is nobody else's.     *)
Kept ==
    caller # "idle" =>
        /\ asked \in Queries
        /\ outcome[asked] = "none"
        /\ query_result # None =>
              query_result \notin given /\ \A n \in Queries : answer[n] # query_result

Answered ==
    \A n \in Queries :
        /\ outcome[n] = "answer" <=> answer[n] # None
        /\ answer[n] <= n
        /\ n > asked => outcome[n] = "none"
        /\ (\A k \in 1 .. n - 1 : outcome[k] = "answer") => answer[n] \in {None, n}

Woken ==
    /\ caller = "woken" => query_event
    /\ caller # "idle" /\ query_event /\ query_result = None => closing = "closed"

(* TypeOK and the safety properties, strengthened until every step         *)
(* preserves them.                                                         *)
Accounted ==
    /\ TypeOK
    /\ InOrder
    /\ Kept
    /\ Answered
    /\ Woken
    /\ AnswersAreUsedOnce
    /\ NoAnswerOnlyAfterClose
=============================================================================
