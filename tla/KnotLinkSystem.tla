---------------------------- MODULE KnotLinkSystem ----------------------------
(***************************************************************************)
(* A client and the download node, joined by the KnotLink Core: a query of *)
(* OpenSocketQuery becomes a request of DownloadNode, and what the node    *)
(* sends back under the key of that request becomes the answer.            *)
(*                                                                         *)
(* The Core is not part of the repository.  As the two sides use it, it    *)
(* passes queries and answers on in their order, remembers by the key      *)
(* which query a request came from, and has nowhere to pass them when the  *)
(* side they are for is not connected.                                     *)
(***************************************************************************)
EXTENDS DownloadNode

CONSTANT ClientEnv      \* Env of the client

VARIABLES
    caller, asked, timed, ended, answer,                            \* its calls
    query_result, query_event, is_querying, timeout_occurred,
    clientConnected, closing, given, toCore, fromCore,
    key             \* key[n]: the query that request n came from

Client == INSTANCE OpenSocketQuery WITH
    MaxQueries <- MaxRequests, Env <- ClientEnv,
    connected <- clientConnected, outcome <- ended

ASSUME KnotLinkSystemAssumption == ClientEnv \subseteq Client!EnvKinds

clientCalls == << caller, asked, timed, ended, answer >>
clientShared == << query_result, query_event, is_querying, timeout_occurred >>
clientState == << clientCalls, clientShared, clientConnected, closing, given >>
clientVars == << clientState, toCore, fromCore >>
systemVars == << vars, clientVars, key >>

NodeIsUp == connected /\ main # "exited"

(* The client goes on by itself, and so do the threads of the node ...     *)
Alone(A) == A /\ UNCHANGED << clientVars, key >>
ClientAlone(A) == A /\ UNCHANGED << vars, key >>

(* ... a query is passed on; one for a node that has gone is lost.         *)
Forward(kind, id) ==
    /\ toCore # << >>
    /\ kind # "unreadable"
    /\ Receive(kind, id)
    /\ key' = Append(key, Head(toCore))
    /\ toCore' = Tail(toCore)
    /\ UNCHANGED << clientState, fromCore >>

Discard ==
    /\ toCore # << >>
    /\ ~ NodeIsUp
    /\ toCore' = Tail(toCore)
    /\ UNCHANGED << vars, clientState, fromCore, key >>

(* Mutant: every answer goes back under the key of the first request.      *)
AnswerFirst ==
    /\ Answer
    /\ IF connected THEN Client!Delivered(key[1]) ELSE UNCHANGED fromCore
    /\ UNCHANGED << clientState, toCore, key >>

(* ... and an answer is passed back under its key.                         *)
AnswerBack ==
    /\ Answer
    /\ IF connected THEN Client!Delivered(key[current]) ELSE UNCHANGED fromCore
    /\ UNCHANGED << clientState, toCore, key >>

SystemInit == Init /\ Client!ClientInit /\ key = << >>

(* The client has asked what it may ask, or waits for ever, and nothing is *)
(* under way at the node.                                                  *)
Quiet ==
    /\ \/ main = "exited"
       \/ /\ handler = "wait" => queue = << >>
          /\ handler \in {"wait", "stopped", "dead"}
          /\ \A n \in Numbers : job[n] \in {"none", "done"}
    /\ ClientAlone(Client!Idle)

HandlerThread == Alone(Take \/ Stop \/ Check \/ Look \/ Submit \/ Register) \/ AnswerBack
JobThread(n) == Alone(JobStep(n))
MainThread == Alone(SetRecvFunc \/ StartLoop \/ (~ connected /\ Exit))
Core == Discard \/ \E kind \in Kinds, id \in ReqIDs : Forward(kind, id)

ClientThreads == ClientAlone(Client!CallerStep \/ Client!Receive \/ Client!Closed)

(* What the threads on both sides and the Core do by themselves.           *)
Running ==
    \/ HandlerThread
    \/ \E n \in Numbers : JobThread(n)
    \/ MainThread
    \/ ClientThreads
    \/ Core

SystemNext ==
    \/ Running
    \/ ClientAlone(Client!Begin \/ Client!QueryAsync \/ Client!Lost \/ Client!Close)
    \/ Alone(Disconnect \/ Exit)
    \/ Quiet

(* The threads are scheduled.  No step can be repeated without end, for    *)
(* each consumes a request, a message or a place in the code: so one WF    *)
(* for all of them leaves none behind.                                     *)
SystemFairness == WF_systemVars(Running)

SystemSpec == SystemInit /\ [][SystemNext]_systemVars /\ SystemFairness

-----------------------------------------------------------------------------
(* Nothing on the way of a query, from the queue of the node to the event  *)
(* of the client, loses it: every call of query() ends, be it by a timeout,*)
(* if it was given one, or by an answer, as long as neither side loses its *)
(* connection and the node runs.  It is about clients that use no reqID    *)
(* again, give a number as `threads` and wait until the script has begun   *)
(* (no reuse, bad_threads and early in Env).  Others may end the handling  *)
(* thread, and are then never answered: RequestAnswered shows it of the    *)
(* node alone, and DeathHasCause that nothing else ends the thread.        *)
QueryIsAnswered ==
    \A n \in Numbers :
        (asked = n /\ caller # "idle")
            ~> (ended[n] # "none" \/ ~ NodeIsUp \/ ~ clientConnected)

(* A client that never gave up and did not disconnect has each of its      *)
(* answers from the request it made.                                       *)
OwnAnswers ==
    (\A n \in Numbers : ended[n] \in {"none", "answer"}) => Client!AnswersAreOwn

-----------------------------------------------------------------------------
(* What a client sees of the Core and the node together.                   *)

(* The queries the node has taken in and can still answer: the one its     *)
(* handler is at, and those in its queue.                                  *)
Held == [i \in DOMAIN queue |-> key[queue[i]]]
AtNode ==
    IF ~ NodeIsUp THEN << >>
    ELSE IF handler \in {"check", "look", "submit", "register", "answer"}
         THEN << key[current] >> \o Held
         ELSE Held

(* To the client they are queries on their way, of which the first are     *)
(* answered or lost.                                                       *)
Served == INSTANCE OpenSocketQuery WITH
    MaxQueries <- MaxRequests, Env <- ClientEnv \cup {"unserved"},
    connected <- clientConnected, outcome <- ended, toCore <- AtNode \o toCore

ImplementsQuery == Served!Spec
=============================================================================
