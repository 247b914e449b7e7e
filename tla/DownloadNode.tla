------------------------------ MODULE DownloadNode ------------------------------
(***************************************************************************)
(* The KnotLink node (main.py) and the response side it is built on        *)
(* (OpenSocketResponser.py): requests come in, are answered, and start     *)
(* downloads that report their end by a signal.                            *)
(*                                                                         *)
(* Four threads share the registry _tasks, the queue and the connection:   *)
(*   receive   TcpClient.receive_data, which fills data_queue;             *)
(*   handler   OpenSocketResponser._process_queue, which runs              *)
(*             handle_download;                                            *)
(*   loop      the asyncio loop, which runs one _do_download per request;  *)
(*   main      the script itself, which ends the process.                  *)
(* A step is what one thread does between two accesses to shared state.    *)
(*                                                                         *)
(* Abstractions.  A request is its kind and its reqID.  What happens       *)
(* inside step.run is module HttpStep: here it ends, well or badly.        *)
(* Progress signals carry nothing the properties need and are left out.    *)
(* The connections of the three signal senders are assumed to be up.       *)
(***************************************************************************)
EXTENDS Naturals, Sequences

CONSTANTS
    ReqIDs,         \* the identifiers clients use
    MaxRequests,    \* bound on the number of requests
    Env             \* what clients and network may do, see EnvKinds

EnvKinds == {
    "early",        \* a request arrives before the script has started
    "reuse",        \* a client uses a reqID again
    "bad_threads",  \* `threads` is not a number
    "unprepared",   \* the directory cannot be created, or the probe fails
    "disconnect",   \* the connection to the Core is lost
    "interrupt"     \* the user stops the script
  }

ASSUME DownloadNodeAssumption ==
    /\ MaxRequests \in Nat
    /\ Env \subseteq EnvKinds

VARIABLES
    main,           \* where the script is
    connected,      \* responser.KLresponser.connected
    requests,       \* the requests received so far, in their order
    queue,          \* data_queue, holding indices of requests
    handler,        \* where the handling thread is
    current,        \* the request it handles
    response,       \* what handle_download returned
    registry,       \* _tasks: for a reqID the request it came with, or Absent
    job,            \* job[n]: where _do_download of request n is
    outcome,        \* outcome[n]: the final signal of that download
    reply           \* reply[n]: what was sent back

inbox == << requests, queue >>
handling == << handler, current, response >>
downloads == << registry, job, outcome >>
vars == << main, connected, inbox, handling, downloads, reply >>

Numbers == 1 .. MaxRequests
Absent == 0

Kinds == {"start", "ping", "incomplete", "bad_threads", "unreadable"}
Responses == {"OK", "pong", "error"}
MainPcs == {
    "loading",      \* responser exists, set_RecvFunc not called yet
    "starting",     \* _loop is still None
    "running",      \* watching the connection
    "exited" }      \* the process has ended, and every thread with it
HandlerPcs == {
    "wait",         \* data_queue.get
    "check",        \* req_id in _tasks
    "look",         \* _tasks[req_id].done()
    "submit",       \* run_coroutine_threadsafe
    "register",     \* _tasks[req_id] = task
    "answer",       \* sendBack
    "stopped",      \* the loop has ended: not connected
    "dead" }        \* an exception has ended the thread
JobPcs == {
    "none",
    "scheduled",    \* handed to the loop
    "probing",      \* awaiting _probe
    "running",      \* awaiting step.run
    "closing",      \* has emitted its final signal, not yet popped
    "ended",        \* the coroutine has ended, its Future does not know yet
    "raised",       \* ... and it has ended by an exception from before its try
    "done" }        \* task.done()

Active == {"scheduled", "probing", "running", "closing"}

reqID(n) == requests[n].reqID

-----------------------------------------------------------------------------
(* The clients, as the receiving thread sees them.                         *)

(* _internal_data_recv: a message without a key, or without a payload, is  *)
(* dropped; any other is queued for the handler.                           *)
Receive(kind, id) ==
    /\ main # "exited"
    /\ connected
    /\ Len(requests) < MaxRequests
    /\ main # "running" => "early" \in Env
    /\ kind = "bad_threads" => "bad_threads" \in Env
    /\ "reuse" \in Env \/ \A n \in DOMAIN requests : reqID(n) # id
    /\ requests' = Append(requests, [kind |-> kind, reqID |-> id])
    /\ queue' = IF kind = "unreadable" THEN queue ELSE Append(queue, Len(requests) + 1)
    /\ UNCHANGED << main, connected, handling, downloads, reply >>

(* receive_data: the Core has closed the connection.                       *)
Disconnect ==
    /\ main # "exited"
    /\ "disconnect" \in Env
    /\ connected
    /\ connected' = FALSE
    /\ UNCHANGED << main, inbox, handling, downloads, reply >>

-----------------------------------------------------------------------------
(* The handling thread.                                                    *)

HandlerAt(pc) == main # "exited" /\ handler = pc

(* `while connected` of _process_queue.                                    *)
NextTurn == handler' = IF connected THEN "wait" ELSE "stopped"

Return(r) == handler' = "answer" /\ response' = r
Raise == handler' = "dead" /\ UNCHANGED response

(* get() returns a request, and handle_download runs up to its first look  *)
(* at _tasks.  Before set_RecvFunc a request is dropped.                   *)
Take ==
    /\ HandlerAt("wait")
    /\ queue # << >>
    /\ current' = Head(queue)
    /\ queue' = Tail(queue)
    /\ LET kind == requests[Head(queue)].kind
       IN  \/ main = "loading" /\ NextTurn /\ UNCHANGED response
           \/ /\ main # "loading"
              /\ \/ kind = "ping" /\ Return("pong")
                 \/ kind = "bad_threads" /\ Raise
                 \/ kind = "incomplete" /\ Return("error")
                 \/ kind = "start" /\ handler' = "check" /\ UNCHANGED response
    /\ UNCHANGED << main, connected, requests, downloads, reply >>

(* get() times out; a turn that only waits again changes nothing.          *)
Stop ==
    /\ HandlerAt("wait")
    /\ queue = << >>
    /\ ~ connected
    /\ handler' = "stopped"
    /\ UNCHANGED << main, connected, inbox, current, response, downloads, reply >>

(* Mutant: the registry is read without asking whether the key is there.   *)
CheckNothing ==
    /\ HandlerAt("check")
    /\ handler' = "look"
    /\ UNCHANGED << main, connected, inbox, current, response, downloads, reply >>

(* `req_id in _tasks`.                                                     *)
Check ==
    /\ HandlerAt("check")
    /\ handler' = IF registry[reqID(current)] = Absent THEN "submit" ELSE "look"
    /\ UNCHANGED << main, connected, inbox, current, response, downloads, reply >>

(* Mutant: an entry is no reason to refuse.                                *)
LookAway ==
    /\ HandlerAt("look")
    /\ handler' = "submit"
    /\ UNCHANGED << main, connected, inbox, current, response, downloads, reply >>

(* `_tasks[req_id].done()`: a second look at the registry, which raises    *)
(* KeyError if the loop has popped the entry since the first.              *)
Look ==
    /\ HandlerAt("look")
    /\ LET entry == registry[reqID(current)]
       IN  \/ entry = Absent /\ Raise
           \/ /\ entry # Absent
              /\ \/ job[entry] = "done" /\ handler' = "submit" /\ UNCHANGED response
                 \/ job[entry] # "done" /\ Return("error")
    /\ UNCHANGED << main, connected, inbox, current, downloads, reply >>

(* run_coroutine_threadsafe, which raises as long as _loop is None.        *)
Submit ==
    /\ HandlerAt("submit")
    /\ \/ /\ main = "running"
          /\ job' = [job EXCEPT ![current] = "scheduled"]
          /\ handler' = "register"
          /\ UNCHANGED response
       \/ /\ main # "running"
          /\ Raise
          /\ UNCHANGED job
    /\ UNCHANGED << main, connected, inbox, current, registry, outcome, reply >>

(* The download may be at any point by now, its end included.              *)
Register ==
    /\ HandlerAt("register")
    /\ registry' = [registry EXCEPT ![reqID(current)] = current]
    /\ Return("OK")
    /\ UNCHANGED << main, connected, inbox, current, job, outcome, reply >>

(* sendBack; without a connection nothing is sent.                         *)
Answer ==
    /\ HandlerAt("answer")
    /\ reply' = IF connected THEN [reply EXCEPT ![current] = response] ELSE reply
    /\ NextTurn
    /\ UNCHANGED << main, connected, inbox, current, response, downloads >>

HandlerStep == Take \/ Stop \/ Check \/ Look \/ Submit \/ Register \/ Answer

-----------------------------------------------------------------------------
(* The download of request n, on the loop.                                 *)

JobGoto(n, from, to) ==
    /\ main = "running"
    /\ job[n] = from
    /\ job' = [job EXCEPT ![n] = to]

UnchangedByJobs == UNCHANGED << main, connected, inbox, handling, reply >>

Begin(n) ==
    /\ JobGoto(n, "scheduled", "probing")
    /\ UNCHANGED << registry, outcome >>
    /\ UnchangedByJobs

(* mkdir or _probe raises, outside the try: no signal, no pop.             *)
Unprepared(n) ==
    /\ "unprepared" \in Env
    /\ JobGoto(n, "scheduled", "raised") \/ JobGoto(n, "probing", "raised")
    /\ UNCHANGED << registry, outcome >>
    /\ UnchangedByJobs

Probed(n) ==
    /\ JobGoto(n, "probing", "running")
    /\ UNCHANGED << registry, outcome >>
    /\ UnchangedByJobs

(* step.run returns, or raises.                                            *)
Completed(n) ==
    /\ JobGoto(n, "running", "closing")
    /\ outcome' = [outcome EXCEPT ![n] = "completed"]
    /\ UNCHANGED registry
    /\ UnchangedByJobs

(* Mutant: an exception that is not expected skips the failed signal.      *)
FailedSilently(n) ==
    /\ JobGoto(n, "running", "closing")
    /\ UNCHANGED << registry, outcome >>
    /\ UnchangedByJobs

Failed(n) ==
    /\ JobGoto(n, "running", "closing")
    /\ outcome' = [outcome EXCEPT ![n] = "failed"]
    /\ UNCHANGED registry
    /\ UnchangedByJobs

(* Mutant: the registry is cleared.                                        *)
PopAll(n) ==
    /\ JobGoto(n, "closing", "ended")
    /\ registry' = [id \in ReqIDs |-> Absent]
    /\ UNCHANGED outcome
    /\ UnchangedByJobs

(* The finally clause removes whatever the reqID stands for.               *)
Pop(n) ==
    /\ JobGoto(n, "closing", "ended")
    /\ registry' = [registry EXCEPT ![reqID(n)] = Absent]
    /\ UNCHANGED outcome
    /\ UnchangedByJobs

(* The loop passes the end of its task on to the Future in _tasks.         *)
Resolve(n) ==
    /\ JobGoto(n, "ended", "done") \/ JobGoto(n, "raised", "done")
    /\ UNCHANGED << registry, outcome >>
    /\ UnchangedByJobs

JobStep(n) ==
    \/ Begin(n)
    \/ Unprepared(n)
    \/ Probed(n)
    \/ Completed(n)
    \/ Failed(n)
    \/ Pop(n)
    \/ Resolve(n)

-----------------------------------------------------------------------------
(* The main thread.                                                        *)

MainGoto(from, to) ==
    /\ main = from
    /\ main' = to
    /\ UNCHANGED << connected, inbox, handling, downloads, reply >>

SetRecvFunc == MainGoto("loading", "starting")
StartLoop == MainGoto("starting", "running")

(* The script ends, and takes the daemon threads with it.                  *)
Exit == (~ connected \/ "interrupt" \in Env) /\ MainGoto("running", "exited")

-----------------------------------------------------------------------------
Init ==
    /\ main = "loading"
    /\ connected \in BOOLEAN
    /\ requests = << >>
    /\ queue = << >>
    /\ handler = "wait"
    /\ current = 0
    /\ response = "OK"
    /\ registry = [id \in ReqIDs |-> Absent]
    /\ job = [n \in Numbers |-> "none"]
    /\ outcome = [n \in Numbers |-> "none"]
    /\ reply = [n \in Numbers |-> "none"]

(* Nothing is left to do but to wait for requests beyond the bound.        *)
Finished ==
    /\ \/ main = "exited"
       \/ /\ Len(requests) = MaxRequests
          /\ handler = "wait" => queue = << >>
          /\ handler \in {"wait", "stopped", "dead"}
          /\ \A n \in Numbers : job[n] \in {"none", "done"}
    /\ UNCHANGED vars

Next ==
    \/ \E kind \in Kinds, id \in ReqIDs : Receive(kind, id)
    \/ Disconnect
    \/ HandlerStep
    \/ \E n \in Numbers : JobStep(n)
    \/ SetRecvFunc
    \/ StartLoop
    \/ Exit
    \/ Finished

Spec == Init /\ [][Next]_vars

(* The threads are scheduled, and step.run ends (HttpStep!RunEnds).        *)
Fairness ==
    /\ WF_vars(HandlerStep)
    /\ \A n \in Numbers : WF_vars(JobStep(n))
    /\ WF_vars(SetRecvFunc \/ StartLoop)
    /\ WF_vars(~ connected /\ Exit)

FairSpec == Spec /\ Fairness

-----------------------------------------------------------------------------
(* Type invariant: every number names a request that has been received.    *)
TypeOK ==
    /\ main \in MainPcs
    /\ connected \in BOOLEAN
    /\ requests \in Seq([kind : Kinds, reqID : ReqIDs])
    /\ Len(requests) <= MaxRequests
    /\ queue \in Seq(1 .. Len(requests))
    /\ handler \in HandlerPcs
    /\ current \in 0 .. Len(requests)
    /\ handler \in {"check", "look", "submit", "register", "answer"} => current # 0
    /\ response \in Responses
    /\ registry \in [ReqIDs -> 0 .. Len(requests)]
    /\ job \in [Numbers -> JobPcs]
    /\ outcome \in [Numbers -> {"none", "completed", "failed"}]
    /\ reply \in [Numbers -> Responses \cup {"none"}]
    /\ \A n \in Numbers : job[n] # "none" => n \in DOMAIN requests

(* However a download and the request that repeats its reqID interleave,   *)
(* no two downloads of one reqID are ever active together.                 *)
OneDownloadPerReqID ==
    \A n, m \in Numbers :
        n # m /\ job[n] \in Active /\ job[m] \in Active => reqID(n) # reqID(m)

(* A request the node has taken in is answered, unless the connection or   *)
(* the process ends first.                                                 *)
RequestAnswered ==
    \A n \in Numbers :
        (n \in {queue[i] : i \in DOMAIN queue})
            ~> (reply[n] # "none" \/ ~ connected \/ main = "exited")

(* OK is a promise: a download that was handed to the loop, which is what  *)
(* makes the answer OK, ends with a signal (main.py:3) ...  The code keeps *)
(* it with two exceptions: the process ends first, or the directory or the *)
(* probe raises before the try (main.py:74-77), and no signal is sent.     *)
AcceptedIsReported ==
    \A n \in Numbers :
        (job[n] = "scheduled")
            ~> (outcome[n] # "none" \/ main = "exited" \/ job[n] = "raised")

(* What may end the thread that answers requests, and nothing else: its    *)
(* request has a bad `threads` or came before there was a loop, or repeats *)
(* the reqID of a download that ends just then (main.py:198).  If no       *)
(* client sends such a request the thread goes on, whatever happens to     *)
(* the downloads and in whatever order.                                    *)
DeathHasCause ==
    [][ handler # "dead" /\ handler' = "dead" =>
            \/ requests[current'].kind = "bad_threads"
            \/ main # "running"
            \/ \E m \in Numbers :
                  reqID(m) = reqID(current) /\ job[m] \in {"ended", "done"} ]_vars

(* While a download is active its reqID stands for it, or is about to:     *)
(* what keeps a second one away.                                           *)
RegisteredWhileActive ==
    \A n \in Numbers :
        job[n] \in Active =>
            \/ registry[reqID(n)] = n
            \/ handler = "register" /\ current = n
=============================================================================
