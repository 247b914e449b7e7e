------------------------- MODULE KnotLinkSystemProofs -------------------------
(***************************************************************************)
(* What TLAPS proves about DownloadNode and KnotLinkSystem, for every      *)
(* number of requests, every set of reqIDs and every environment of both   *)
(* sides: no two downloads of one reqID are active together; the node      *)
(* keeps this when a client drives it; the Core and the node together are  *)
(* to the client what OpenSocketQuery takes the Core for; and so a client  *)
(* gets its own answers.                                                   *)
(***************************************************************************)
EXTENDS KnotLinkSystem, SequenceTheorems, TLAPS

-----------------------------------------------------------------------------
(* The node.                                                               *)

(* From its look at the registry to its entry there, the handler knows     *)
(* that no other download of the reqID is active.                          *)
NoRival ==
    handler \in {"submit", "register"} =>
        \A n \in Numbers : n # current /\ job[n] \in Active => reqID(n) # reqID(current)

Registered == TypeOK /\ RegisteredWhileActive /\ OneDownloadPerReqID /\ NoRival

-----------------------------------------------------------------------------
(* Receiving a request leaves the identifiers of the others alone.         *)
LEMMA AppendKeeps ==
    ASSUME NEW S, NEW s \in Seq(S), NEW e \in S
    PROVE  /\ Append(s, e) \in Seq(S)
           /\ Len(Append(s, e)) = Len(s) + 1
           /\ DOMAIN s = 1 .. Len(s)
           /\ DOMAIN Append(s, e) = 1 .. Len(s) + 1
           /\ \A i \in 1 .. Len(s) : Append(s, e)[i] = s[i]
           /\ Append(s, e)[Len(s) + 1] = e
  OBVIOUS

LEMMA Element ==
    ASSUME NEW S, NEW s \in Seq(S), NEW i \in DOMAIN s
    PROVE  s[i] \in S
  OBVIOUS

LEMMA WiderSeq ==
    ASSUME NEW m \in Nat, NEW s \in Seq(1 .. m)
    PROVE  s \in Seq(1 .. m + 1)
<1>1. /\ Len(s) \in Nat
      /\ DOMAIN s = 1 .. Len(s)
      /\ \A i \in 1 .. Len(s) : s[i] \in 1 .. m
      /\ s = [i \in 1 .. Len(s) |-> s[i]]
  OBVIOUS
<1>2. \A i \in 1 .. Len(s) : s[i] \in 1 .. m + 1
  BY <1>1
<1> QED
  BY <1>1, <1>2

LEMMA InitTyped == Init => TypeOK
<1> SUFFICES ASSUME Init PROVE TypeOK
  OBVIOUS
<1>1. requests \in Seq([kind : Kinds, reqID : ReqIDs]) /\ Len(requests) = 0
  BY DEF Init
<1>2. queue \in Seq(1 .. Len(requests))
  BY DEF Init
<1> QED
  BY <1>1, <1>2, DownloadNodeAssumption
  DEF Init, TypeOK, MainPcs, HandlerPcs, JobPcs, Responses, Absent, Numbers

(* The requests received so far are numbered from 1.                       *)
LEMMA Numbering ==
    ASSUME TypeOK
    PROVE  /\ DOMAIN requests = 1 .. Len(requests)
           /\ Len(requests) \in Nat
           /\ \A n \in DOMAIN requests : n \in Numbers /\ reqID(n) \in ReqIDs
<1>1. requests \in Seq([kind : Kinds, reqID : ReqIDs]) /\ Len(requests) <= MaxRequests
  BY DEF TypeOK
<1>2. DOMAIN requests = 1 .. Len(requests) /\ Len(requests) \in Nat
  BY <1>1
<1>3. ASSUME NEW n \in DOMAIN requests
      PROVE  n \in Numbers /\ reqID(n) \in ReqIDs
  <2>1. requests[n] \in [kind : Kinds, reqID : ReqIDs]
    BY <1>1, Element
  <2>2. n \in Numbers
    BY <1>1, <1>2, DownloadNodeAssumption DEF Numbers
  <2> QED
    BY <2>1, <2>2 DEF reqID
<1> QED
  BY <1>2, <1>3

(* A request that comes in leaves the types and the other requests alone.  *)
LEMMA ReceiveTyped ==
    ASSUME TypeOK, NEW kind \in Kinds, NEW id \in ReqIDs, Receive(kind, id)
    PROVE  /\ TypeOK'
           /\ \A n \in DOMAIN requests : n \in DOMAIN requests' /\ reqID(n)' = reqID(n)
<1> DEFINE e == [kind |-> kind, reqID |-> id]
<1>1. /\ requests \in Seq([kind : Kinds, reqID : ReqIDs])
      /\ Len(requests) \in Nat
      /\ e \in [kind : Kinds, reqID : ReqIDs]
      /\ requests' = Append(requests, e)
      /\ Len(requests) < MaxRequests
  BY DEF TypeOK, Receive
<1>2. /\ requests' \in Seq([kind : Kinds, reqID : ReqIDs])
      /\ Len(requests') = Len(requests) + 1
      /\ DOMAIN requests = 1 .. Len(requests)
      /\ DOMAIN requests' = 1 .. Len(requests) + 1
      /\ \A i \in 1 .. Len(requests) : requests'[i] = requests[i]
  BY <1>1, AppendKeeps
<1>3. queue' \in Seq(1 .. Len(requests'))
  <2>1. queue \in Seq(1 .. Len(requests) + 1)
    BY <1>1, WiderSeq DEF TypeOK
  <2>2. Append(queue, Len(requests) + 1) \in Seq(1 .. Len(requests) + 1)
    BY <1>1, <2>1
  <2> QED
    BY <1>2, <2>1, <2>2 DEF Receive
<1>4. /\ UNCHANGED << main, connected, handler, current, response, registry, job, outcome, reply >>
  BY DEF Receive, handling, downloads
<1>5. registry' \in [ReqIDs -> 0 .. Len(requests')]
  BY <1>1, <1>2, <1>4 DEF TypeOK
<1>6. Len(requests') <= MaxRequests /\ current' \in 0 .. Len(requests')
  BY <1>1, <1>2, <1>4, DownloadNodeAssumption DEF TypeOK
<1>7. \A n \in Numbers : job'[n] # "none" => n \in DOMAIN requests'
  BY <1>1, <1>2, <1>4 DEF TypeOK
<1>8. TypeOK'
  BY <1>2, <1>3, <1>4, <1>5, <1>6, <1>7 DEF TypeOK
<1> QED
  BY <1>1, <1>2, <1>8 DEF reqID

(* Every step of the handler keeps the types.                              *)
LEMMA HandlerTyped == TypeOK /\ HandlerStep => TypeOK'
<1> SUFFICES ASSUME TypeOK, HandlerStep PROVE TypeOK'
  OBVIOUS
<1> USE DEF HandlerAt, inbox, handling, downloads, Return, Raise, NextTurn, Responses, HandlerPcs
<1>1. /\ DOMAIN requests = 1 .. Len(requests)
      /\ Len(requests) \in Nat
      /\ current \in DOMAIN requests <=> current # 0
      /\ \A n \in DOMAIN requests : n \in Numbers /\ reqID(n) \in ReqIDs
  BY Numbering DEF TypeOK
<1>2. CASE Take
  <2>1. /\ Head(queue) \in 1 .. Len(requests)
        /\ Tail(queue) \in Seq(1 .. Len(requests))
    BY <1>2 DEF Take, TypeOK
  <2>2. /\ current' \in 1 .. Len(requests) /\ queue' \in Seq(1 .. Len(requests))
        /\ UNCHANGED << main, connected, requests, registry, job, outcome, reply >>
    BY <1>2, <2>1 DEF Take
  <2>3. handler' \in HandlerPcs /\ response' \in Responses
    BY <1>2 DEF Take, TypeOK
  <2> QED
    BY <1>1, <2>2, <2>3 DEF TypeOK
<1>3. CASE Stop
  BY <1>3 DEF Stop, TypeOK
<1>4. CASE Check
  BY <1>4 DEF Check, TypeOK
<1>5. CASE Look
  BY <1>5 DEF Look, TypeOK
<1>6. CASE Submit
  <2>1. job' \in [Numbers -> JobPcs]
    BY <1>6 DEF Submit, TypeOK, JobPcs
  <2>2. current # 0
    BY <1>6 DEF Submit, TypeOK
  <2>3. \A n \in Numbers : job'[n] # "none" => n \in DOMAIN requests
    BY <1>1, <1>6, <2>2 DEF Submit, TypeOK
  <2> QED
    BY <1>6, <2>1, <2>2, <2>3 DEF Submit, TypeOK
<1>7. CASE Register
  <2>1. /\ registry \in [ReqIDs -> 0 .. Len(requests)] /\ current \in 0 .. Len(requests)
        /\ registry' = [registry EXCEPT ![reqID(current)] = current]
    BY <1>7 DEF Register, TypeOK
  <2>2. registry' \in [ReqIDs -> 0 .. Len(requests)]
    BY <2>1
  <2> QED
    BY <1>7, <2>2 DEF Register, TypeOK
<1>8. CASE Answer
  <2>1. reply' \in [Numbers -> Responses \cup {"none"}]
    BY <1>8 DEF Answer, TypeOK
  <2> QED
    BY <1>8, <2>1 DEF Answer, TypeOK
<1> QED
  BY <1>2, <1>3, <1>4, <1>5, <1>6, <1>7, <1>8 DEF HandlerStep

(* What a download may do to the state.                                    *)
LEMMA JobTyped ==
    ASSUME TypeOK, NEW n \in Numbers, JobStep(n)
    PROVE  /\ TypeOK'
           /\ UNCHANGED << requests, handler, current >>
           /\ job[n] # "none"
           /\ \A m \in Numbers : m # n => job'[m] = job[m]
           /\ job'[n] \in Active => job[n] \in Active
           /\ \/ UNCHANGED registry
              \/ /\ registry' = [registry EXCEPT ![reqID(n)] = Absent]
                 /\ job[n] = "closing"
                 /\ job'[n] = "ended"
<1> USE DEF JobGoto, UnchangedByJobs, inbox, handling
<1>1. /\ UNCHANGED << main, connected, requests, queue, handler, current, response, reply >>
      /\ \E from \in JobPcs, to \in JobPcs \ {"none", "scheduled"} :
            /\ from # "none"
            /\ job[n] = from
            /\ job' = [job EXCEPT ![n] = to]
            /\ to \in Active => from \in Active
  BY DEF JobStep, Begin, Unprepared, Probed, Completed, Failed, Pop, Resolve, JobPcs, Active
<1>2. job' \in [Numbers -> JobPcs]
  BY <1>1 DEF TypeOK
<1>3. /\ job[n] # "none"
      /\ \A m \in Numbers : m # n => job'[m] = job[m]
      /\ job'[n] \in Active => job[n] \in Active
  BY <1>1 DEF TypeOK
<1>4. \A m \in Numbers : job'[m] # "none" => m \in DOMAIN requests
  BY <1>3 DEF TypeOK
<1>5. n \in DOMAIN requests /\ reqID(n) \in ReqIDs
  BY <1>3, Numbering DEF TypeOK
<1>6. \/ UNCHANGED registry
      \/ /\ registry' = [registry EXCEPT ![reqID(n)] = Absent]
         /\ job[n] = "closing"
         /\ job'[n] = "ended"
  BY DEF JobStep, Begin, Unprepared, Probed, Completed, Failed, Pop, Resolve, TypeOK
<1>7. registry' \in [ReqIDs -> 0 .. Len(requests)]
  <2>1. registry \in [ReqIDs -> 0 .. Len(requests)] /\ Absent \in 0 .. Len(requests)
    BY Numbering DEF TypeOK, Absent
  <2> DEFINE popped == [registry EXCEPT ![reqID(n)] = Absent]
  <2>2. popped \in [ReqIDs -> 0 .. Len(requests)]
    BY <2>1
  <2> QED
    BY <1>6, <2>1, <2>2
<1>8. outcome' \in [Numbers -> {"none", "completed", "failed"}]
  BY DEF JobStep, Begin, Unprepared, Probed, Completed, Failed, Pop, Resolve, TypeOK
<1>9. TypeOK'
  BY <1>1, <1>2, <1>4, <1>7, <1>8 DEF TypeOK
<1> QED
  BY <1>1, <1>3, <1>6, <1>9

-----------------------------------------------------------------------------
(* The invariant, step by step.                                            *)
LEMMA InitRegistered == Init => Registered
  BY InitTyped
  DEF Init, Registered, RegisteredWhileActive, OneDownloadPerReqID, NoRival, Active

LEMMA ReceiveRegistered ==
    ASSUME Registered, NEW kind \in Kinds, NEW id \in ReqIDs, Receive(kind, id)
    PROVE  Registered'
<1>1. /\ TypeOK /\ TypeOK'
      /\ \A n \in DOMAIN requests : reqID(n)' = reqID(n)
      /\ UNCHANGED << handler, current, registry, job >>
  BY ReceiveTyped DEF Registered, Receive, handling, downloads
<1>2. \A n \in Numbers : job[n] \in Active => n \in DOMAIN requests
  BY <1>1 DEF TypeOK, Active
<1>3. handler \in {"submit", "register"} => current \in DOMAIN requests
  BY <1>1, Numbering DEF TypeOK
<1> QED
  BY <1>1, <1>2, <1>3 DEF Registered, RegisteredWhileActive, OneDownloadPerReqID, NoRival

LEMMA JobRegistered ==
    ASSUME Registered, NEW n \in Numbers, JobStep(n)
    PROVE  Registered'
<1>1. /\ TypeOK /\ TypeOK'
      /\ UNCHANGED << requests, handler, current >>
      /\ \A m \in Numbers : m # n => job'[m] = job[m]
      /\ job'[n] \in Active => job[n] \in Active
  BY JobTyped DEF Registered
<1>2. \A m \in Numbers : job'[m] \in Active => job[m] \in Active
  BY <1>1
<1>3. OneDownloadPerReqID' /\ NoRival'
  BY <1>1, <1>2 DEF Registered, OneDownloadPerReqID, NoRival, reqID
<1>4. RegisteredWhileActive'
  <2>1. CASE UNCHANGED registry
    BY <1>1, <1>2, <2>1 DEF Registered, RegisteredWhileActive, reqID
  <2>2. CASE /\ registry' = [registry EXCEPT ![reqID(n)] = Absent]
             /\ job[n] = "closing"
             /\ job'[n] = "ended"
    <3>1. ASSUME NEW m \in Numbers, job'[m] \in Active
          PROVE  registry'[reqID(m)] = registry[reqID(m)]
      <4>1. m # n /\ job[m] \in Active /\ job[n] \in Active
        BY <1>2, <2>2, <3>1 DEF Active
      <4>2. reqID(m) # reqID(n)
        BY <4>1 DEF Registered, OneDownloadPerReqID
      <4>3. m \in DOMAIN requests
        BY <1>1, <4>1 DEF TypeOK, Active
      <4>4. reqID(m) \in ReqIDs
        BY <1>1, <4>3, Numbering
      <4> QED
        BY <1>1, <2>2, <4>2, <4>4 DEF TypeOK
    <3> QED
      BY <1>1, <1>2, <3>1 DEF Registered, RegisteredWhileActive, reqID
  <2> QED
    BY <2>1, <2>2, JobTyped DEF Registered
<1> QED
  BY <1>1, <1>3, <1>4 DEF Registered

LEMMA HandlerRegistered == Registered /\ HandlerStep => Registered'
<1> SUFFICES ASSUME Registered, HandlerStep PROVE Registered'
  OBVIOUS
<1> USE DEF HandlerAt, inbox, handling, downloads, Return, Raise, NextTurn
<1>1. TypeOK /\ TypeOK' /\ requests' = requests
  BY HandlerTyped
  DEF Registered, HandlerStep, Take, Stop, Check, Look, Submit, Register, Answer
<1>2. /\ \A n \in Numbers : job[n] \in Active => n \in DOMAIN requests
      /\ \A n \in DOMAIN requests : n \in Numbers /\ reqID(n) \in ReqIDs
  BY <1>1, Numbering DEF TypeOK, Active
<1>3. current # 0 => current \in DOMAIN requests
  BY <1>1, Numbering DEF TypeOK
<1>4. CASE Take \/ Stop \/ Answer
  <2>1. /\ handler \notin {"register", "submit"} /\ handler' \notin {"register", "submit"}
        /\ UNCHANGED << registry, job >>
    BY <1>4 DEF Take, Stop, Answer
  <2> QED
    BY <1>1, <2>1
    DEF Registered, RegisteredWhileActive, OneDownloadPerReqID, NoRival, reqID
<1>5. CASE Check
  <2>1. UNCHANGED << registry, job, current >> /\ handler = "check" /\ handler' # "register"
    BY <1>5 DEF Check
  <2>2. NoRival'
    <3>1. ASSUME handler' = "submit", NEW n \in Numbers, job[n] \in Active
          PROVE  reqID(n) # reqID(current)
      <4>1. registry[reqID(n)] = n
        BY <2>1, <3>1 DEF Registered, RegisteredWhileActive
      <4>2. registry[reqID(current)] = Absent
        BY <1>5, <3>1 DEF Check
      <4> QED
        BY <4>1, <4>2 DEF Absent, Numbers
    <3> QED
      BY <1>1, <2>1, <3>1 DEF NoRival, reqID
  <2> QED
    BY <1>1, <2>1, <2>2
    DEF Registered, RegisteredWhileActive, OneDownloadPerReqID, reqID
<1>6. CASE Look
  <2>1. UNCHANGED << registry, job, current >> /\ handler = "look" /\ handler' # "register"
    BY <1>6 DEF Look
  <2>2. NoRival'
    <3>1. ASSUME handler' = "submit", NEW n \in Numbers, job[n] \in Active
          PROVE  reqID(n) # reqID(current)
      <4>1. registry[reqID(n)] = n
        BY <2>1, <3>1 DEF Registered, RegisteredWhileActive
      <4>2. job[registry[reqID(current)]] = "done"
        BY <1>6, <3>1 DEF Look
      <4> QED
        BY <3>1, <4>1, <4>2 DEF Active
    <3> QED
      BY <1>1, <2>1, <3>1 DEF NoRival, reqID
  <2> QED
    BY <1>1, <2>1, <2>2
    DEF Registered, RegisteredWhileActive, OneDownloadPerReqID, reqID
<1>7. CASE Submit
  <2>1. /\ UNCHANGED << registry, current >> /\ handler = "submit"
        /\ handler' # "submit"
        /\ \/ UNCHANGED job /\ handler' # "register"
           \/ /\ job' = [job EXCEPT ![current] = "scheduled"]
              /\ handler' = "register"
    BY <1>7 DEF Submit
  <2>2. \A n \in Numbers : n # current => job'[n] = job[n]
    BY <1>1, <2>1 DEF TypeOK
  <2>3. NoRival'
    BY <1>1, <2>1, <2>2 DEF Registered, NoRival, reqID
  <2>4. OneDownloadPerReqID'
    BY <1>1, <2>1, <2>2 DEF Registered, NoRival, OneDownloadPerReqID, reqID
  <2>5. RegisteredWhileActive'
    BY <1>1, <2>1, <2>2 DEF Registered, RegisteredWhileActive, reqID
  <2> QED
    BY <1>1, <2>3, <2>4, <2>5 DEF Registered
<1>8. CASE Register
  <2>1. /\ UNCHANGED << job, current >> /\ handler = "register" /\ handler' = "answer"
        /\ registry' = [registry EXCEPT ![reqID(current)] = current]
    BY <1>8 DEF Register
  <2>2. current \in DOMAIN requests
    BY <1>1, <1>3, <2>1 DEF TypeOK
  <2>3. ASSUME NEW n \in Numbers, job[n] \in Active
        PROVE  registry'[reqID(n)] = n
    <3>1. CASE n = current
      BY <1>1, <1>2, <2>1, <2>2, <3>1 DEF TypeOK
    <3>2. CASE n # current
      <4>1. reqID(n) # reqID(current)
        BY <2>1, <2>3, <3>2 DEF Registered, NoRival
      <4>2. registry[reqID(n)] = n
        BY <2>3, <3>2 DEF Registered, RegisteredWhileActive
      <4> QED
        BY <1>1, <1>2, <2>1, <2>3, <4>1, <4>2 DEF TypeOK
    <3> QED
      BY <3>1, <3>2
  <2>4. RegisteredWhileActive'
    BY <1>1, <2>1, <2>3 DEF RegisteredWhileActive, reqID
  <2> QED
    BY <1>1, <2>1, <2>4 DEF Registered, OneDownloadPerReqID, NoRival, reqID
<1> QED
  BY <1>4, <1>5, <1>6, <1>7, <1>8 DEF HandlerStep

(* The strengthened invariant holds in every reachable state.              *)
THEOREM RegisteredAlways == Spec => []Registered
<1>1. Registered /\ [Next]_vars => Registered'
  <2> SUFFICES ASSUME Registered, [Next]_vars PROVE Registered'
    OBVIOUS
  <2>1. CASE \E kind \in Kinds, id \in ReqIDs : Receive(kind, id)
    BY <2>1, ReceiveRegistered
  <2>2. CASE HandlerStep
    BY <2>2, HandlerRegistered
  <2>3. CASE \E n \in Numbers : JobStep(n)
    BY <2>3, JobRegistered
  <2>4. CASE Disconnect \/ SetRecvFunc \/ StartLoop \/ Exit
    <3>1. /\ UNCHANGED << inbox, handling, downloads, reply >>
          /\ main' \in MainPcs
          /\ connected' \in BOOLEAN
      BY <2>4 DEF Disconnect, SetRecvFunc, StartLoop, Exit, MainGoto, MainPcs, Registered, TypeOK
    <3> QED
      BY <3>1 DEF inbox, handling, downloads, Registered, TypeOK, RegisteredWhileActive,
                  OneDownloadPerReqID, NoRival, reqID
  <2>5. CASE UNCHANGED vars
    BY <2>5 DEF vars, inbox, handling, downloads, Registered, TypeOK, RegisteredWhileActive,
                OneDownloadPerReqID, NoRival, reqID
  <2> QED
    BY <2>1, <2>2, <2>3, <2>4, <2>5 DEF Next, Finished
<1> QED
  BY <1>1, InitRegistered, PTL DEF Spec

(* The state always has its type.                                          *)
THEOREM TypeCorrect == Spec => []TypeOK
<1>1. Registered => TypeOK
  BY DEF Registered
<1> QED
  BY <1>1, RegisteredAlways, PTL

(* No two downloads of one reqID are ever active together, whatever the    *)
(* threads and the clients do.                                             *)
THEOREM OneDownloadAlways == Spec => []OneDownloadPerReqID
<1>1. Registered => OneDownloadPerReqID
  BY DEF Registered
<1> QED
  BY <1>1, RegisteredAlways, PTL

(* A download that is active stands in the registry under its reqID, or    *)
(* the handler is about to enter it (handle_download, main.py:193): a      *)
(* second request with that reqID finds it.                                *)
THEOREM ActiveIsRegistered == Spec => []RegisteredWhileActive
<1>1. Registered => RegisteredWhileActive
  BY DEF Registered
<1> QED
  BY <1>1, RegisteredAlways, PTL

-----------------------------------------------------------------------------
(* The end of the handling thread has one of three causes.                 *)

(* An entry of the registry is a download that was made for its reqID ...  *)
Entries ==
    /\ \A id \in ReqIDs :
          registry[id] # Absent => job[registry[id]] # "none" /\ reqID(registry[id]) = id
    /\ handler = "register" => job[current] # "none"

(* ... and when the handler looks at one for the second time it is still   *)
(* there, or the download it belonged to has ended in between.             *)
Seen ==
    handler = "look" =>
        \E m \in Numbers :
            /\ reqID(m) = reqID(current)
            /\ registry[reqID(current)] = m \/ job[m] \in {"ended", "done"}

Witnessed == Entries /\ Seen

(* What the registry and the variables of the handler name are requests.   *)
LEMMA Named ==
    ASSUME TypeOK
    PROVE  /\ \A id \in ReqIDs :
                registry[id] # Absent => registry[id] \in DOMAIN requests /\ registry[id] \in Numbers
           /\ handler \in {"check", "look", "submit", "register"} =>
                 /\ current \in DOMAIN requests /\ current \in Numbers
                 /\ reqID(current) \in ReqIDs
           /\ \A n \in Numbers : job[n] # "none" => n \in DOMAIN requests /\ reqID(n) \in ReqIDs
  BY Numbering DEF TypeOK, Absent

LEMMA ReceiveWitnessed ==
    ASSUME TypeOK, Witnessed, NEW kind \in Kinds, NEW id \in ReqIDs, Receive(kind, id)
    PROVE  Witnessed'
<1>1. /\ \A n \in DOMAIN requests : reqID(n)' = reqID(n)
      /\ UNCHANGED << handler, current, registry, job >>
  BY ReceiveTyped DEF Receive, handling, downloads
<1>2. Entries'
  BY <1>1, Named DEF Witnessed, Entries
<1>3. ASSUME handler = "look" PROVE Seen'
  <2>1. PICK m \in Numbers :
            /\ reqID(m) = reqID(current)
            /\ registry[reqID(current)] = m \/ job[m] \in {"ended", "done"}
    BY <1>3 DEF Witnessed, Seen
  <2>2. current \in DOMAIN requests /\ reqID(current) \in ReqIDs
    BY <1>3, Named
  <2>3. m \in DOMAIN requests
    <3>1. Absent \notin Numbers
      BY DEF Absent, Numbers
    <3> QED BY <2>1, <2>2, <3>1, Named
  <2> QED BY <1>1, <2>1, <2>2, <2>3 DEF Seen
<1> QED BY <1>1, <1>2, <1>3 DEF Witnessed, Seen

LEMMA HandlerWitnessed == TypeOK /\ Witnessed /\ HandlerStep => Witnessed'
<1> SUFFICES ASSUME TypeOK, Witnessed, HandlerStep PROVE Witnessed'
  OBVIOUS
<1> USE DEF HandlerAt, inbox, handling, downloads, Return, Raise, NextTurn
<1>1. CASE Take \/ Stop \/ Answer
  <2>1. /\ handler' \notin {"register", "look"}
        /\ UNCHANGED << requests, registry, job >>
    BY <1>1 DEF Take, Stop, Answer
  <2> QED BY <2>1 DEF Witnessed, Entries, Seen, reqID
<1>2. CASE Check
  <2>1. /\ UNCHANGED << requests, registry, job, current >> /\ handler = "check"
        /\ handler' # "register"
    BY <1>2 DEF Check
  <2>2. ASSUME handler' = "look" PROVE Seen'
    <3>1. registry[reqID(current)] # Absent /\ reqID(current) \in ReqIDs
      BY <1>2, <2>1, <2>2, Named DEF Check
    <3>2. registry[reqID(current)] \in Numbers /\ reqID(registry[reqID(current)]) = reqID(current)
      BY <3>1, Named DEF Witnessed, Entries
    <3> QED BY <2>1, <3>2 DEF Seen, reqID
  <2> QED BY <2>1, <2>2 DEF Witnessed, Entries, Seen, reqID
<1>3. CASE Look
  <2>1. /\ UNCHANGED << requests, registry, job, current >>
        /\ handler' \notin {"register", "look"}
    BY <1>3 DEF Look
  <2> QED BY <2>1 DEF Witnessed, Entries, Seen, reqID
<1>4. CASE Submit
  <2>1. /\ UNCHANGED << requests, registry, current >> /\ handler = "submit" /\ handler' # "look"
        /\ \/ UNCHANGED job /\ handler' # "register"
           \/ job' = [job EXCEPT ![current] = "scheduled"]
    BY <1>4 DEF Submit
  <2>2. current \in Numbers
    BY <2>1, Named
  <2>3. /\ \A n \in Numbers : job[n] # "none" => job'[n] # "none"
        /\ handler' = "register" => job'[current] # "none"
    BY <2>1, <2>2 DEF TypeOK
  <2> QED BY <2>1, <2>3, Named DEF Witnessed, Entries, Seen, reqID
<1>5. CASE Register
  <2>1. /\ UNCHANGED << requests, job, current >> /\ handler = "register" /\ handler' = "answer"
        /\ registry' = [registry EXCEPT ![reqID(current)] = current]
    BY <1>5 DEF Register
  <2>2. /\ \A id \in ReqIDs \ {reqID(current)} : registry'[id] = registry[id]
        /\ registry'[reqID(current)] = current
    BY <2>1, Named DEF TypeOK
  <2>3. job[current] # "none"
    BY <2>1 DEF Witnessed, Entries
  <2>4. ASSUME NEW id \in ReqIDs, registry'[id] # Absent
        PROVE  job[registry'[id]] # "none" /\ reqID(registry'[id]) = id
    <3>1. CASE id = reqID(current)
      BY <2>2, <2>3, <3>1
    <3>2. CASE id # reqID(current)
      BY <2>2, <2>4, <3>2 DEF Witnessed, Entries
    <3> QED BY <3>1, <3>2
  <2> QED BY <2>1, <2>4 DEF Witnessed, Entries, Seen, reqID
<1> QED BY <1>1, <1>2, <1>3, <1>4, <1>5 DEF HandlerStep

LEMMA JobWitnessed ==
    ASSUME TypeOK, Witnessed, NEW n \in Numbers, JobStep(n)
    PROVE  Witnessed'
<1>1. /\ UNCHANGED << requests, handler, current >>
      /\ job[n] # "none"
      /\ \A m \in Numbers : m # n => job'[m] = job[m]
      /\ \/ UNCHANGED registry
         \/ /\ registry' = [registry EXCEPT ![reqID(n)] = Absent]
            /\ job'[n] = "ended"
  BY JobTyped
<1>2. /\ job'[n] # "none"
      /\ job[n] \in {"ended", "done"} => job'[n] \in {"ended", "done"}
  BY DEF JobStep, Begin, Unprepared, Probed, Completed, Failed, Pop, Resolve, JobGoto, TypeOK
<1>3. \A m \in Numbers : /\ job[m] # "none" => job'[m] # "none"
                         /\ job[m] \in {"ended", "done"} => job'[m] \in {"ended", "done"}
  BY <1>1, <1>2
<1>4. n \in DOMAIN requests /\ reqID(n) \in ReqIDs
  BY <1>1, Named
<1>5. \A id \in ReqIDs :
          \/ registry'[id] = registry[id]
          \/ registry'[id] = Absent /\ id = reqID(n) /\ job'[n] = "ended"
  BY <1>1, <1>4 DEF TypeOK
<1>6. Entries'
  BY <1>1, <1>3, <1>5, Named DEF Witnessed, Entries, reqID
<1>7. ASSUME handler = "look" PROVE Seen'
  <2>1. PICK m \in Numbers :
            /\ reqID(m) = reqID(current)
            /\ registry[reqID(current)] = m \/ job[m] \in {"ended", "done"}
    BY <1>7 DEF Witnessed, Seen
  <2>2. reqID(current) \in ReqIDs
    BY <1>7, Named
  <2>3. CASE registry'[reqID(current)] = registry[reqID(current)]
    BY <1>1, <1>3, <2>1, <2>3 DEF Seen, reqID
  <2>4. CASE reqID(current) = reqID(n) /\ job'[n] = "ended"
    BY <1>1, <2>4 DEF Seen, reqID
  <2> QED BY <1>5, <2>2, <2>3, <2>4
<1> QED BY <1>1, <1>6, <1>7 DEF Witnessed, Seen

(* The handling thread only ends by a bad `threads`, by a request that     *)
(* came before there was a loop, or by one that repeats the reqID of a     *)
(* download that ends between the two looks of handle_download             *)
(* (main.py:198): for every number of requests and downloads.              *)
THEOREM DeathAlwaysHasCause == Spec => DeathHasCause
<1>1. Init => Witnessed
  BY DEF Init, Witnessed, Entries, Seen
<1>2. TypeOK /\ Witnessed /\ [Next]_vars => Witnessed'
  <2> SUFFICES ASSUME TypeOK, Witnessed, [Next]_vars PROVE Witnessed'
    OBVIOUS
  <2>1. CASE \E kind \in Kinds, id \in ReqIDs : Receive(kind, id)
    BY <2>1, ReceiveWitnessed
  <2>2. CASE HandlerStep
    BY <2>2, HandlerWitnessed
  <2>3. CASE \E n \in Numbers : JobStep(n)
    BY <2>3, JobWitnessed
  <2>4. CASE Disconnect \/ SetRecvFunc \/ StartLoop \/ Exit \/ UNCHANGED vars
    <3>1. UNCHANGED << requests, handler, current, registry, job >>
      BY <2>4 DEF Disconnect, SetRecvFunc, StartLoop, Exit, MainGoto, vars, inbox, handling, downloads
    <3> QED BY <3>1 DEF Witnessed, Entries, Seen, reqID
  <2> QED BY <2>1, <2>2, <2>3, <2>4 DEF Next, Finished
<1> DEFINE Cause == \/ requests[current'].kind = "bad_threads"
                    \/ main # "running"
                    \/ \E m \in Numbers :
                          reqID(m) = reqID(current) /\ job[m] \in {"ended", "done"}
           Death == handler # "dead" /\ handler' = "dead"
<1>3. TypeOK /\ Witnessed /\ [Next]_vars => [Death => Cause]_vars
  <2> SUFFICES ASSUME TypeOK, Witnessed, Next, handler # "dead", handler' = "dead"
               PROVE  Cause
    OBVIOUS
  <2>1. HandlerStep
    <3>1. ASSUME NEW n \in Numbers, JobStep(n) PROVE UNCHANGED handler
      BY <3>1, JobTyped
    <3>2. ASSUME NEW kind \in Kinds, NEW id \in ReqIDs, Receive(kind, id) PROVE UNCHANGED handler
      BY <3>2 DEF Receive, handling
    <3>3. Disconnect \/ SetRecvFunc \/ StartLoop \/ Exit \/ Finished => UNCHANGED handler
      BY DEF Disconnect, SetRecvFunc, StartLoop, Exit, MainGoto, Finished, vars, handling
    <3> QED BY <3>1, <3>2, <3>3 DEF Next
  <2> USE DEF HandlerAt, inbox, handling, downloads, Return, Raise, NextTurn
  <2>2. CASE Take
    <3>1. current' = Head(queue) /\ requests[Head(queue)].kind = "bad_threads"
      BY <2>2 DEF Take
    <3> QED BY <3>1
  <2>3. CASE Look
    <3>1. handler = "look" /\ registry[reqID(current)] = Absent
      BY <2>3 DEF Look
    <3>2. PICK m \in Numbers :
              /\ reqID(m) = reqID(current)
              /\ registry[reqID(current)] = m \/ job[m] \in {"ended", "done"}
      BY <3>1 DEF Witnessed, Seen
    <3>3. m # Absent
      BY DEF Absent, Numbers
    <3> QED BY <3>1, <3>2, <3>3
  <2>4. CASE Submit
    BY <2>4 DEF Submit
  <2>5. CASE Stop \/ Check \/ Register \/ Answer
    BY <2>5 DEF Stop, Check, Register, Answer
  <2> QED BY <2>1, <2>2, <2>3, <2>4, <2>5 DEF HandlerStep
<1> QED BY <1>1, <1>2, <1>3, TypeCorrect, PTL DEF Spec, DeathHasCause

-----------------------------------------------------------------------------
(* The node and its client.                                                *)

(* What is proved about OpenSocketQuery, under the mapping of Served.      *)
Proved == INSTANCE OpenSocketQueryProofs WITH
    MaxQueries <- MaxRequests, Env <- ClientEnv \cup {"unserved"},
    connected <- clientConnected, outcome <- ended, toCore <- AtNode \o toCore

Waiting == AtNode \o toCore

-----------------------------------------------------------------------------
(* The node in the system is a DownloadNode.                               *)

(* What the client and the Core do leaves the node alone, or hands it a    *)
(* request.                                                                *)
LEMMA NodeStep == [SystemNext]_systemVars => [Next]_vars
<1> SUFFICES ASSUME [SystemNext]_systemVars PROVE [Next]_vars
  OBVIOUS
<1>1. CASE HandlerThread
  BY <1>1 DEF HandlerThread, Alone, AnswerBack, Next, HandlerStep
<1>2. CASE \E n \in Numbers : JobThread(n)
  BY <1>2 DEF JobThread, Alone, Next
<1>3. CASE MainThread
  BY <1>3 DEF MainThread, Alone, Next
<1>4. CASE ClientThreads
  BY <1>4 DEF ClientThreads, ClientAlone
<1>5. CASE Core
  BY <1>5 DEF Core, Discard, Forward, Next
<1>6. CASE ClientAlone(Client!Begin \/ Client!QueryAsync \/ Client!Lost \/ Client!Close)
  BY <1>6 DEF ClientAlone
<1>7. CASE Alone(Disconnect \/ Exit)
  BY <1>7 DEF Alone, Next
<1>8. CASE Quiet
  BY <1>8 DEF Quiet, ClientAlone
<1>9. CASE UNCHANGED systemVars
  BY <1>9 DEF systemVars
<1> QED BY <1>1, <1>2, <1>3, <1>4, <1>5, <1>6, <1>7, <1>8, <1>9 DEF SystemNext, Running

(* Every theorem about the node holds of the node in the system too:       *)
(* whatever the client asks (main.py:176), what happens to the node is a   *)
(* behaviour of DownloadNode.                                              *)
THEOREM NodeInSystem == SystemSpec => Spec
<1>1. SystemInit => Init
  BY DEF SystemInit
<1> QED BY <1>1, NodeStep, PTL DEF SystemSpec, Spec

(* However the downloads a client asks for interleave (handle_download,    *)
(* main.py:193), no two of one reqID are active together.                  *)
THEOREM OneDownloadInSystem == SystemSpec => []OneDownloadPerReqID
  BY NodeInSystem, OneDownloadAlways

-----------------------------------------------------------------------------
(* Queries and the requests they become.                                   *)

(* Each request has the key of the query it came from.                     *)
Joined ==
    /\ asked \in Nat
    /\ toCore \in Seq(Nat)
    /\ key \in Seq(Nat)
    /\ Len(key) = Len(requests)

LEMMA SeqFacts ==
    ASSUME NEW S, NEW s \in Seq(S)
    PROVE  /\ Len(s) \in Nat /\ DOMAIN s = 1 .. Len(s)
           /\ \A i \in DOMAIN s : s[i] \in S
           /\ \A x \in S : Append(s, x) \in Seq(S) /\ Len(Append(s, x)) = Len(s) + 1
           /\ s # << >> => Tail(s) \in Seq(S) /\ Head(s) \in S /\ Len(s) > 0 /\ Head(s) = s[1]
  OBVIOUS

LEMMA JoinedInit == SystemInit => Joined
<1> SUFFICES ASSUME SystemInit PROVE Joined
  OBVIOUS
<1>1. asked = 0 /\ toCore = << >> /\ key = << >> /\ requests = << >>
  BY DEF SystemInit, Client!ClientInit, Init
<1> QED BY <1>1 DEF Joined

(* The client only adds its own number to the queries.                     *)
LEMMA ClientJoined ==
    ASSUME Joined, UNCHANGED << vars, key >>,
           Client!ClientNext \/ Client!Idle
    PROVE  Joined'
<1>1. key' = key /\ requests' = requests
  BY DEF vars, inbox
<1>0. asked' = asked \/ asked' = asked + 1
  BY DEF Client!ClientNext, Client!CallerStep, Client!Begin, Client!Send, Client!Wake,
         Client!TimeOut, Client!Return, Client!Raise, Client!QueryAsync, Client!Receive,
         Client!Lost, Client!Close, Client!Closed, Client!Idle, Client!vars, Client!calling
<1>2. asked' \in Nat
  BY <1>0 DEF Joined
<1>3. toCore' = toCore \/ toCore' = Append(toCore, asked) \/ toCore' = Append(toCore, asked')
  BY DEF Client!ClientNext, Client!CallerStep, Client!Begin, Client!Send, Client!Wake, Client!Sent,
         Client!TimeOut, Client!Return, Client!Raise, Client!QueryAsync, Client!Receive,
         Client!Lost, Client!Close, Client!Closed, Client!Idle, Client!vars, Client!wire
<1>4. toCore' \in Seq(Nat)
  <2>1. /\ toCore \in Seq(Nat) /\ asked \in Nat
        /\ \A x \in Nat : Append(toCore, x) \in Seq(Nat)
    BY SeqFacts DEF Joined
  <2> QED BY <1>2, <1>3, <2>1
<1> QED BY <1>1, <1>2, <1>4 DEF Joined

(* The Core gives the request the key of the query.                        *)
LEMMA ForwardJoined ==
    ASSUME Joined, TypeOK, NEW kind \in Kinds, NEW id \in ReqIDs, Forward(kind, id)
    PROVE  Joined'
<1>1. /\ toCore # << >> /\ toCore' = Tail(toCore) /\ key' = Append(key, Head(toCore))
      /\ asked' = asked
      /\ requests' = Append(requests, [kind |-> kind, reqID |-> id])
  BY DEF Forward, Receive, clientState, clientCalls
<1>2. toCore' \in Seq(Nat) /\ key' \in Seq(Nat) /\ Len(key') = Len(key) + 1
  BY <1>1, SeqFacts DEF Joined
<1>3. Len(requests') = Len(requests) + 1
  <2>1. requests \in Seq([kind : Kinds, reqID : ReqIDs])
    BY DEF TypeOK
  <2> QED BY <1>1, <2>1, AppendKeeps
<1> QED BY <1>1, <1>2, <1>3 DEF Joined

(* The node leaves the requests and their keys as they are.                *)
LEMMA NodeKeepsInbox ==
    ASSUME \/ HandlerStep \/ \E n \in Numbers : JobStep(n)
           \/ SetRecvFunc \/ StartLoop \/ Exit \/ Disconnect
    PROVE  requests' = requests
<1>1. CASE HandlerStep
  BY <1>1 DEF HandlerStep, Take, Stop, Check, Look, Submit, Register, Answer, inbox
<1>2. CASE \E n \in Numbers : JobStep(n)
  BY <1>2 DEF JobStep, Begin, Unprepared, Probed, Completed, Failed, Pop, Resolve, UnchangedByJobs, inbox
<1>3. CASE SetRecvFunc \/ StartLoop \/ Exit \/ Disconnect
  BY <1>3 DEF SetRecvFunc, StartLoop, Exit, MainGoto, Disconnect, inbox
<1> QED BY <1>1, <1>2, <1>3

LEMMA JoinedNext == Joined /\ TypeOK /\ [SystemNext]_systemVars => Joined'
<1> SUFFICES ASSUME Joined, TypeOK, [SystemNext]_systemVars PROVE Joined'
  OBVIOUS
<1> USE DEF clientVars, clientState, clientCalls
<1>1. CASE HandlerThread
  <2>1. HandlerStep /\ UNCHANGED << asked, toCore, key >>
    BY <1>1 DEF HandlerThread, Alone, AnswerBack, HandlerStep
  <2> QED BY <2>1, NodeKeepsInbox DEF Joined
<1>2. CASE \/ \E n \in Numbers : JobThread(n)
           \/ MainThread \/ Alone(Disconnect \/ Exit)
  <2>1. /\ UNCHANGED << asked, toCore, key >>
        /\ \/ \E n \in Numbers : JobStep(n)
           \/ SetRecvFunc \/ StartLoop \/ Exit \/ Disconnect
    BY <1>2 DEF JobThread, MainThread, Alone
  <2> QED BY <2>1, NodeKeepsInbox DEF Joined
<1>3. CASE \/ ClientThreads
           \/ ClientAlone(Client!Begin \/ Client!QueryAsync \/ Client!Lost \/ Client!Close)
           \/ Quiet
  <2>1. UNCHANGED << vars, key >> /\ (Client!ClientNext \/ Client!Idle)
    BY <1>3 DEF ClientThreads, ClientAlone, Quiet, Client!ClientNext
  <2> QED BY <2>1, ClientJoined
<1>4. CASE \E kind \in Kinds, id \in ReqIDs : Forward(kind, id)
  BY <1>4, ForwardJoined
<1>5. CASE Discard
  <2>1. /\ toCore # << >> /\ toCore' = Tail(toCore)
        /\ UNCHANGED << asked, key, requests >>
    BY <1>5 DEF Discard, vars, inbox
  <2> QED BY <2>1, SeqFacts DEF Joined
<1>6. CASE UNCHANGED systemVars
  <2>1. UNCHANGED << asked, toCore, key, requests >>
    BY <1>6 DEF systemVars, vars, inbox
  <2> QED BY <2>1 DEF Joined
<1> QED BY <1>1, <1>2, <1>3, <1>4, <1>5, <1>6 DEF SystemNext, Running, Core

LEMMA JoinedAlways == SystemSpec => [](Joined /\ TypeOK)
<1>1. SystemSpec => []TypeOK
  BY NodeInSystem, TypeCorrect
<1> QED BY <1>1, JoinedInit, JoinedNext, PTL DEF SystemSpec

-----------------------------------------------------------------------------
(* What is at the node.                                                    *)

(* Queues side by side.                                                    *)
LEMMA BesideOne ==
    ASSUME NEW x \in Nat, NEW t \in Seq(Nat)
    PROVE  /\ << x >> \o t \in Seq(Nat) /\ << x >> \o t # << >>
           /\ Head(<< x >> \o t) = x /\ Tail(<< x >> \o t) = t
           /\ t # << >> => << Head(t) >> \o Tail(t) = t
  OBVIOUS

LEMMA Beside ==
    ASSUME NEW s \in Seq(Nat), NEW t \in Seq(Nat)
    PROVE  /\ s \o t \in Seq(Nat)
           /\ \A x \in Nat : s \o Append(t, x) = Append(s \o t, x)
           /\ s # << >> => /\ s \o t # << >>
                           /\ Tail(s \o t) = Tail(s) \o t
                           /\ Head(s \o t) = Head(s)
           /\ t # << >> => Append(s, Head(t)) \o Tail(t) = s \o t
<1>1. s \o t \in Seq(Nat)
  BY ConcatProperties
<1>2. ASSUME NEW x \in Nat
      PROVE  s \o Append(t, x) = Append(s \o t, x)
  <2>1. << x >> \in Seq(Nat)
    OBVIOUS
  <2>2. Append(t, x) = t \o << x >> /\ Append(s \o t, x) = (s \o t) \o << x >>
    BY <1>1, AppendIsConcat
  <2>3. (s \o t) \o << x >> = s \o (t \o << x >>)
    BY <2>1, ConcatAssociative
  <2> QED BY <2>2, <2>3
<1>3. ASSUME s # << >>
      PROVE  s \o t # << >> /\ Tail(s \o t) = Tail(s) \o t /\ Head(s \o t) = Head(s)
  <2>1. Head(s) \in Nat /\ Tail(s) \in Seq(Nat) /\ << Head(s) >> \in Seq(Nat)
    BY <1>3, HeadTailProperties
  <2>2. s = << Head(s) >> \o Tail(s)
    BY <1>3, <2>1, BesideOne
  <2>3. (<< Head(s) >> \o Tail(s)) \o t = << Head(s) >> \o (Tail(s) \o t)
    BY <2>1, ConcatAssociative
  <2>4. Tail(s) \o t \in Seq(Nat)
    BY <2>1, ConcatProperties
  <2>5. s \o t = << Head(s) >> \o (Tail(s) \o t)
    BY <2>2, <2>3
  <2> QED BY <2>1, <2>4, <2>5, BesideOne
<1>4. ASSUME t # << >>
      PROVE  Append(s, Head(t)) \o Tail(t) = s \o t
  <2>1. Head(t) \in Nat /\ Tail(t) \in Seq(Nat) /\ << Head(t) >> \in Seq(Nat)
    BY <1>4, HeadTailProperties
  <2>2. t = << Head(t) >> \o Tail(t)
    BY <1>4, <2>1, BesideOne
  <2>3. (s \o << Head(t) >>) \o Tail(t) = s \o (<< Head(t) >> \o Tail(t))
    BY <2>1, ConcatAssociative
  <2>4. Append(s, Head(t)) = s \o << Head(t) >>
    BY <2>1, AppendIsConcat
  <2> QED BY <2>2, <2>3, <2>4
<1> QED BY <1>1, <1>2, <1>3, <1>4

LEMMA TailIsSuffix ==
    ASSUME NEW s \in Seq(Nat), s # << >>
    PROVE  1 \in 1 .. Len(s) /\ SubSeq(s, 1 + 1, Len(s)) = Tail(s)
  OBVIOUS

LEMMA PartAfter ==
    ASSUME NEW s \in Seq(Nat), NEW t \in Seq(Nat), s # << >>
    PROVE  /\ Len(s) \in 1 .. Len(s \o t)
           /\ SubSeq(s \o t, Len(s) + 1, Len(s \o t)) = t
  OBVIOUS

(* Each request in the queue has a key, and so has the current one.        *)
LEMMA HeldFacts ==
    ASSUME Joined, TypeOK
    PROVE  /\ Held \in Seq(Nat) /\ Len(Held) = Len(queue)
           /\ queue = << >> <=> Held = << >>
           /\ queue # << >> => Head(Held) = key[Head(queue)] /\ Head(queue) \in 1 .. Len(requests)
           /\ \A n \in 1 .. Len(requests) : key[n] \in Nat
<1>1. /\ Len(requests) \in Nat /\ queue \in Seq(1 .. Len(requests))
      /\ \A n \in 1 .. Len(requests) : key[n] \in Nat
  BY Numbering, SeqFacts DEF Joined, TypeOK
<1>2. /\ DOMAIN queue = 1 .. Len(queue) /\ Len(queue) \in Nat
      /\ \A i \in DOMAIN queue : queue[i] \in 1 .. Len(requests)
      /\ queue # << >> => Head(queue) = queue[1] /\ Len(queue) > 0
  BY <1>1, SeqFacts
<1>3. Held \in [1 .. Len(queue) -> Nat]
  BY <1>1, <1>2 DEF Held
<1>4. Held \in Seq(Nat) /\ Len(Held) = Len(queue)
  BY <1>2, <1>3
<1>5. queue = << >> <=> Held = << >>
  BY <1>1, <1>4
<1>6. queue # << >> => Head(Held) = Held[1] /\ 1 \in DOMAIN queue
  BY <1>2, <1>4, <1>5, SeqFacts
<1> QED BY <1>1, <1>2, <1>4, <1>5, <1>6 DEF Held

LEMMA AtNodeTyped == Joined /\ TypeOK => AtNode \in Seq(Nat)
<1> SUFFICES ASSUME Joined, TypeOK PROVE AtNode \in Seq(Nat)
  OBVIOUS
<1>1. Held \in Seq(Nat) /\ \A n \in 1 .. Len(requests) : key[n] \in Nat
  BY HeldFacts
<1>2. Len(requests) \in Nat
  BY Numbering
<1>3. ASSUME handler \in {"check", "look", "submit", "register", "answer"}
      PROVE  << key[current] >> \o Held \in Seq(Nat)
  <2>1. key[current] \in Nat
    BY <1>1, <1>2, <1>3 DEF TypeOK
  <2> QED BY <1>1, <2>1, BesideOne
<1> QED BY <1>1, <1>3 DEF AtNode

LEMMA SequenceTail ==
    ASSUME NEW s \in Seq(Nat), s # << >>
    PROVE  Tail(s) = [i \in 1 .. Len(s) - 1 |-> s[i + 1]]
<1>1. /\ Tail(s) \in Seq(Nat) /\ Len(Tail(s)) = Len(s) - 1
      /\ \A i \in 1 .. Len(Tail(s)) : Tail(s)[i] = s[i + 1]
  BY HeadTailProperties
<1>2. Tail(s) \in [1 .. Len(Tail(s)) -> Nat]
  BY <1>1, LenProperties
<1> QED BY <1>1, <1>2

(* Taking the first of a queue takes its key.                              *)
LEMMA HeldTail ==
    ASSUME Joined, TypeOK, queue # << >>, queue' = Tail(queue), key' = key
    PROVE  Held' = Tail(Held)
<1>1. queue \in Seq(1 .. Len(requests))
  BY DEF TypeOK
<1>2. /\ DOMAIN Tail(queue) = 1 .. Len(queue) - 1 /\ Len(queue) \in Nat
      /\ \A i \in DOMAIN Tail(queue) : Tail(queue)[i] = queue[i + 1] /\ i + 1 \in DOMAIN queue
  BY <1>1
<1>3. Held \in Seq(Nat) /\ Held # << >> /\ Len(Held) = Len(queue)
  BY HeldFacts
<1>4. Tail(Held) = [i \in 1 .. Len(queue) - 1 |-> Held[i + 1]]
  <2>1. Tail(Held) = [i \in 1 .. Len(Held) - 1 |-> Held[i + 1]]
    BY <1>3, SequenceTail
  <2> QED BY <1>3, <2>1
<1>5. \A i \in 1 .. Len(queue) - 1 : Held[i + 1] = key[Tail(queue)[i]]
  BY <1>2 DEF Held
<1> QED BY <1>2, <1>4, <1>5 DEF Held

(* What a step of the node does to them: they stay, the first is dropped   *)
(* with the request, or all are, with the connection or the process.       *)
Drops ==
    \/ AtNode' = AtNode
    \/ AtNode # << >> /\ AtNode' = Tail(AtNode)
    \/ AtNode' = << >>

LEMMA TakeDrops ==
    ASSUME Joined, TypeOK, Take, key' = key PROVE Drops
<1>1. /\ main # "exited" /\ handler = "wait" /\ queue # << >>
      /\ current' = Head(queue) /\ queue' = Tail(queue)
      /\ main' = main /\ connected' = connected
      /\ connected => handler' \in {"wait", "check", "answer", "dead"}
  BY DEF Take, HandlerAt, NextTurn, Return, Raise
<1>2. /\ Held \in Seq(Nat) /\ Held # << >> /\ Held' = Tail(Held)
      /\ Head(Held) = key[Head(queue)]
  BY <1>1, HeldFacts, HeldTail
<1>3. CASE ~ NodeIsUp
  BY <1>1, <1>3 DEF AtNode, NodeIsUp, Drops
<1>4. CASE NodeIsUp
  <2>1. AtNode = Held /\ NodeIsUp'
    BY <1>1, <1>4 DEF AtNode, NodeIsUp
  <2>2. CASE handler' \in {"wait", "dead"}
    BY <1>2, <2>1, <2>2 DEF AtNode, Drops
  <2>3. CASE handler' \in {"check", "answer"}
    <3>1. AtNode' = << key[Head(queue)] >> \o Tail(Held)
      BY <1>1, <1>2, <2>1, <2>3 DEF AtNode
    <3>2. << Head(Held) >> \o Tail(Held) = Held
      BY <1>2, BesideOne, HeadTailProperties
    <3> QED BY <1>2, <2>1, <3>1, <3>2 DEF Drops
  <2> QED BY <1>1, <1>4, <2>2, <2>3 DEF NodeIsUp
<1> QED BY <1>3, <1>4

(* A handler that goes on keeps its request, and one that dies drops it.   *)
LEMMA GoOnDrops ==
    ASSUME Joined, TypeOK, Check \/ Look \/ Submit \/ Register, key' = key PROVE Drops
<1>1. /\ handler \in {"check", "look", "submit", "register"}
      /\ handler' \in {"look", "submit", "register", "answer", "dead"}
      /\ UNCHANGED << main, connected, queue, current >>
  BY DEF Check, Look, Submit, Register, HandlerAt, Return, Raise, inbox
<1>2. Held' = Held /\ NodeIsUp' = NodeIsUp
  BY <1>1 DEF Held, NodeIsUp
<1>3. CASE ~ NodeIsUp
  BY <1>2, <1>3 DEF AtNode, Drops
<1>4. CASE NodeIsUp
  <2>1. AtNode = << key[current] >> \o Held
    BY <1>1, <1>4 DEF AtNode
  <2>2. CASE handler' = "dead"
    <3>1. AtNode' = Held
      BY <1>2, <1>4, <2>2 DEF AtNode
    <3>2. key[current] \in Nat /\ Held \in Seq(Nat)
      BY <1>1, HeldFacts, Numbering DEF TypeOK
    <3> QED BY <2>1, <3>1, <3>2, BesideOne DEF Drops
  <2>3. CASE handler' # "dead"
    BY <1>1, <1>2, <1>4, <2>1, <2>3 DEF AtNode, Drops
  <2> QED BY <2>2, <2>3
<1> QED BY <1>3, <1>4

(* The other steps of the node: requests stay until all of them go.        *)
LEMMA OtherDrops ==
    ASSUME \/ Stop \/ \E n \in Numbers : JobStep(n)
           \/ SetRecvFunc \/ StartLoop \/ Exit \/ Disconnect,
           key' = key
    PROVE  Drops
<1>1. CASE Stop
  BY <1>1 DEF Stop, AtNode, NodeIsUp, Drops
<1>2. CASE \E n \in Numbers : JobStep(n)
  <2>1. UNCHANGED << main, connected, queue, handler, current >>
    BY <1>2 DEF JobStep, Begin, Unprepared, Probed, Completed, Failed, Pop, Resolve,
                UnchangedByJobs, inbox, handling
  <2> QED BY <2>1 DEF AtNode, Held, NodeIsUp, Drops
<1>3. CASE SetRecvFunc \/ StartLoop
  <2>1. /\ UNCHANGED << connected, queue, handler, current >>
        /\ main # "exited" /\ main' # "exited"
    BY <1>3 DEF SetRecvFunc, StartLoop, MainGoto, inbox, handling
  <2> QED BY <2>1 DEF AtNode, Held, NodeIsUp, Drops
<1>4. CASE Exit
  BY <1>4 DEF Exit, MainGoto, AtNode, NodeIsUp, Drops
<1>5. CASE Disconnect
  BY <1>5 DEF Disconnect, AtNode, NodeIsUp, Drops
<1> QED BY <1>1, <1>2, <1>3, <1>4, <1>5

-----------------------------------------------------------------------------
(* Every step of the system is a step of Served, or none.                  *)

ServedStep == [Served!Next]_(Served!vars)

LEMMA WaitingTyped == Joined /\ TypeOK => Waiting \in Seq(Nat)
  BY AtNodeTyped, ConcatProperties DEF Waiting, Joined

(* Everything but the queries on their way stays.                          *)
LEMMA Lose ==
    ASSUME Joined, TypeOK, UNCHANGED << clientState, fromCore >>,
           \/ Waiting' = Waiting
           \/ Waiting # << >> /\ Waiting' = Tail(Waiting)
           \/ AtNode # << >> /\ Waiting' = toCore
    PROVE  ServedStep
<1>1. Waiting \in Seq(Nat) /\ AtNode \in Seq(Nat) /\ toCore \in Seq(Nat)
  BY WaitingTyped, AtNodeTyped DEF Joined
<1>2. UNCHANGED << Served!calling, Served!shared, clientConnected, closing, given, fromCore >>
  BY DEF clientState, clientCalls, clientShared, Served!calling, Served!shared
<1>3. CASE Waiting' = Waiting
  BY <1>2, <1>3 DEF ServedStep, Served!vars, Served!wire, Waiting
<1>4. ASSUME \E n \in 1 .. Len(Waiting) : Waiting' = SubSeq(Waiting, n + 1, Len(Waiting))
      PROVE  ServedStep
  BY <1>2, <1>4 DEF ServedStep, Served!Next, Served!Unserved, Waiting
<1>5. CASE Waiting # << >> /\ Waiting' = Tail(Waiting)
  <2>1. 1 \in 1 .. Len(Waiting) /\ SubSeq(Waiting, 1 + 1, Len(Waiting)) = Tail(Waiting)
    BY <1>1, <1>5, TailIsSuffix
  <2> QED BY <1>4, <1>5, <2>1
<1>6. CASE AtNode # << >> /\ Waiting' = toCore
  <2>1. /\ Len(AtNode) \in 1 .. Len(Waiting)
        /\ SubSeq(Waiting, Len(AtNode) + 1, Len(Waiting)) = toCore
    BY <1>1, <1>6, PartAfter DEF Waiting
  <2> QED BY <1>4, <1>6, <2>1
<1> QED BY <1>3, <1>5, <1>6

(* The node drops requests: the queries they came from are not served.     *)
LEMMA DropsServed ==
    ASSUME Joined, TypeOK, Drops, UNCHANGED clientVars PROVE ServedStep
<1>1. AtNode \in Seq(Nat) /\ toCore \in Seq(Nat) /\ toCore' = toCore
  BY AtNodeTyped DEF Joined, clientVars
<1>2. CASE AtNode' = AtNode
  BY <1>1, <1>2, Lose DEF Waiting, clientVars
<1>3. CASE AtNode # << >> /\ AtNode' = Tail(AtNode)
  <2>1. Waiting # << >> /\ Waiting' = Tail(Waiting)
    BY <1>1, <1>3, Beside DEF Waiting
  <2> QED BY <2>1, Lose DEF clientVars
<1>4. CASE AtNode # << >> /\ AtNode' = << >>
  <2>1. Waiting' = toCore
    BY <1>1, <1>4, ConcatEmptySeq DEF Waiting
  <2> QED BY <1>4, <2>1, Lose DEF clientVars
<1> QED BY <1>2, <1>3, <1>4 DEF Drops

(* A query that is passed on waits at the node instead of at the Core.     *)
LEMMA ForwardServed ==
    ASSUME Joined, TypeOK, NEW kind \in Kinds, NEW id \in ReqIDs, Forward(kind, id)
    PROVE  ServedStep
<1>1. /\ toCore # << >> /\ toCore' = Tail(toCore) /\ key' = Append(key, Head(toCore))
      /\ UNCHANGED << clientState, fromCore, main, connected, handler, current >>
      /\ queue' = Append(queue, Len(requests) + 1)
      /\ NodeIsUp
  BY DEF Forward, Receive, handling, NodeIsUp
<1>2. /\ queue \in Seq(1 .. Len(requests)) /\ Len(requests) \in Nat
      /\ key \in Seq(Nat) /\ Len(key) = Len(requests)
      /\ Head(toCore) \in Nat /\ toCore \in Seq(Nat)
  BY <1>1, Numbering, SeqFacts DEF Joined, TypeOK
<1>3. /\ \A i \in DOMAIN queue : queue[i] \in 1 .. Len(requests)
      /\ DOMAIN queue = 1 .. Len(queue) /\ Len(queue) \in Nat
  BY <1>2, SeqFacts
<1>4. /\ key'[Len(requests) + 1] = Head(toCore)
      /\ \A n \in 1 .. Len(requests) : key'[n] = key[n]
  BY <1>1, <1>2, AppendProperties
<1>5. Held' = Append(Held, Head(toCore)) /\ Held \in Seq(Nat)
  <2>1. /\ DOMAIN queue' = 1 .. Len(queue) + 1
        /\ \A i \in DOMAIN queue : queue'[i] = queue[i]
        /\ queue'[Len(queue) + 1] = Len(requests) + 1
    <3>1. queue \in Seq(Nat)
      <4>1. 1 .. Len(requests) \subseteq Nat
        BY <1>2
      <4> QED BY <1>2, <4>1, SeqMonotonic
    <3>2. LET e == Len(requests) + 1
          IN  /\ DOMAIN queue = 1 .. Len(queue) /\ DOMAIN Append(queue, e) = 1 .. Len(queue) + 1
              /\ \A i \in 1 .. Len(queue) : Append(queue, e)[i] = queue[i]
              /\ Append(queue, e)[Len(queue) + 1] = e
      BY <1>2, <3>1, AppendKeeps
    <3> QED BY <1>1, <3>2
  <2>2. Held \in Seq(Nat) /\ Len(Held) = Len(queue)
    BY HeldFacts
  <2>3. \A i \in 1 .. Len(queue) : key'[queue'[i]] = Held[i]
    BY <1>3, <1>4, <2>1 DEF Held
  <2>4. /\ Append(Held, Head(toCore)) \in [1 .. Len(queue) + 1 -> Nat]
        /\ \A i \in 1 .. Len(queue) : Append(Held, Head(toCore))[i] = Held[i]
        /\ Append(Held, Head(toCore))[Len(queue) + 1] = Head(toCore)
    <3>1. /\ Append(Held, Head(toCore)) \in Seq(Nat)
          /\ Len(Append(Held, Head(toCore))) = Len(Held) + 1
          /\ \A i \in 1 .. Len(Held) : Append(Held, Head(toCore))[i] = Held[i]
          /\ Append(Held, Head(toCore))[Len(Held) + 1] = Head(toCore)
      BY <1>2, <2>2, AppendProperties
    <3> QED BY <2>2, <3>1, LenProperties
  <2>5. Held' = [i \in 1 .. Len(queue) + 1 |-> key'[queue'[i]]]
    BY <2>1 DEF Held
  <2>6. \A i \in 1 .. Len(queue) + 1 : i \in 1 .. Len(queue) \/ i = Len(queue) + 1
    BY <1>3
  <2> QED BY <1>4, <2>1, <2>2, <2>3, <2>4, <2>5, <2>6
<1>6. AtNode' = Append(AtNode, Head(toCore))
  <2>1. NodeIsUp'
    BY <1>1 DEF NodeIsUp
  <2>2. CASE handler \in {"check", "look", "submit", "register", "answer"}
    <3>1. current \in 1 .. Len(requests)
      BY <1>2, <2>2 DEF TypeOK
    <3>2. key[current] \in Nat /\ key'[current] = key[current] /\ << key[current] >> \in Seq(Nat)
      BY <1>4, <3>1, HeldFacts
    <3>3. << key[current] >> \o Append(Held, Head(toCore))
            = Append(<< key[current] >> \o Held, Head(toCore))
      <4>1. \A x \in Nat : << key[current] >> \o Append(Held, x) = Append(<< key[current] >> \o Held, x)
        BY <1>5, <3>2, Beside
      <4> QED BY <1>2, <4>1
    <3> QED BY <1>1, <1>5, <2>1, <2>2, <3>2, <3>3 DEF AtNode
  <2>3. CASE handler \notin {"check", "look", "submit", "register", "answer"}
    BY <1>1, <1>5, <2>1, <2>3 DEF AtNode
  <2> QED BY <2>2, <2>3
<1>7. Waiting' = Waiting
  BY <1>1, <1>2, <1>6, AtNodeTyped, Beside DEF Waiting
<1> QED BY <1>1, <1>7, Lose

(* A query for a node that has gone is lost.                               *)
LEMMA DiscardServed ==
    ASSUME Joined, TypeOK, Discard PROVE ServedStep
<1>1. /\ toCore # << >> /\ toCore' = Tail(toCore) /\ ~ NodeIsUp
      /\ UNCHANGED << clientState, fromCore, main, connected >>
  BY DEF Discard, vars
<1>2. AtNode = << >> /\ AtNode' = << >>
  BY <1>1 DEF AtNode, NodeIsUp
<1>3. toCore \in Seq(Nat) /\ Tail(toCore) \in Seq(Nat)
  BY <1>1, SeqFacts DEF Joined
<1>4. Waiting = toCore /\ Waiting' = Tail(toCore)
  BY <1>1, <1>2, <1>3, ConcatEmptySeq DEF Waiting
<1> QED BY <1>1, <1>4, Lose

(* The answer of the node is the answer to the first query that waits.     *)
LEMMA AnswerServed ==
    ASSUME Joined, TypeOK, AnswerBack PROVE ServedStep
<1>1. /\ main # "exited" /\ handler = "answer"
      /\ connected => handler' = "wait" /\ Client!Delivered(key[current])
      /\ ~ connected => fromCore' = fromCore
      /\ UNCHANGED << clientState, toCore, key, main, connected, queue, current >>
  BY DEF AnswerBack, Answer, HandlerAt, NextTurn, inbox
<1>2. /\ key[current] \in Nat /\ Held \in Seq(Nat) /\ Held' = Held
      /\ AtNode \in Seq(Nat) /\ toCore \in Seq(Nat)
  <2>1. current \in 1 .. Len(requests)
    BY <1>1, Numbering DEF TypeOK
  <2>2. Held' = Held
    BY <1>1 DEF Held
  <2> QED BY <2>1, <2>2, HeldFacts, AtNodeTyped DEF Joined
<1>3. CASE ~ connected
  <2>1. AtNode = << >> /\ AtNode' = << >>
    BY <1>1, <1>3 DEF AtNode, NodeIsUp
  <2>2. Waiting' = Waiting
    BY <1>1, <2>1 DEF Waiting
  <2> QED BY <1>1, <1>3, <2>2, Lose
<1>4. CASE connected
  <2>1. AtNode = << key[current] >> \o Held /\ AtNode' = Held
    BY <1>1, <1>2, <1>4 DEF AtNode, NodeIsUp
  <2>2. AtNode # << >> /\ Head(AtNode) = key[current] /\ Tail(AtNode) = Held
    BY <1>2, <2>1, BesideOne
  <2>3. Waiting # << >> /\ Head(Waiting) = key[current] /\ Waiting' = Tail(Waiting)
    BY <1>1, <1>2, <2>1, <2>2, Beside DEF Waiting
  <2>4. Served!CoreAnswers
    BY <1>1, <1>4, <2>3
    DEF Served!CoreAnswers, Served!Delivered, Client!Delivered, Served!calling, Served!shared,
        clientState, clientCalls, clientShared, Waiting
  <2> QED BY <2>4 DEF ServedStep, Served!Next
<1> QED BY <1>3, <1>4

(* What the client does by itself is the same under both names: a query    *)
(* that it sends goes to the end of those that wait.                       *)
LEMMA SendServed ==
    ASSUME Joined, TypeOK, UNCHANGED << vars, key >>, Client!Send \/ Client!QueryAsync
    PROVE  ServedStep
<1>1. AtNode' = AtNode /\ AtNode \in Seq(Nat) /\ toCore \in Seq(Nat) /\ asked \in Nat
  BY AtNodeTyped DEF vars, inbox, handling, AtNode, Held, NodeIsUp, Joined
<1>2. \A x \in Nat : AtNode \o Append(toCore, x) = Append(AtNode \o toCore, x)
  BY <1>1, Beside
<1>3. CASE Client!Send
  <2>1. Client!Sent(asked)
    BY <1>3 DEF Client!Send
  <2>2. Served!Sent(asked)
    BY <1>1, <1>2, <2>1 DEF Client!Sent, Served!Sent
  <2>3. Served!Send
    BY <1>3, <2>2 DEF Client!Send, Served!Send, Client!CallerGoto, Served!CallerGoto,
                      Client!shared, Served!shared
  <2> QED BY <2>3 DEF ServedStep, Served!Next, Served!ClientNext, Served!CallerStep
<1>4. CASE Client!QueryAsync
  <2>1. asked' \in Nat /\ Client!Sent(asked')
    BY <1>1, <1>4 DEF Client!QueryAsync
  <2>2. Served!Sent(asked')
    BY <1>1, <1>2, <2>1 DEF Client!Sent, Served!Sent
  <2>3. Served!QueryAsync
    BY <1>4, <2>2 DEF Client!QueryAsync, Served!QueryAsync, Client!shared, Served!shared
  <2> QED BY <2>3 DEF ServedStep, Served!Next, Served!ClientNext
<1> QED BY <1>3, <1>4

LEMMA ClientServed ==
    ASSUME Joined, TypeOK, UNCHANGED << vars, key >>, Client!ClientNext \/ Client!Idle
    PROVE  ServedStep
<1>1. AtNode' = AtNode
  BY DEF vars, inbox, handling, AtNode, Held, NodeIsUp
<1>2. CASE Client!Send \/ Client!QueryAsync
  BY <1>2, SendServed
<1>3. CASE Client!Begin \/ Client!Wake \/ Client!TimeOut \/ Client!Return \/ Client!Raise
  <2>1. Served!Begin \/ Served!Wake \/ Served!TimeOut \/ Served!Return \/ Served!Raise
    BY <1>1, <1>3
    DEF Client!Begin, Served!Begin, Client!Wake, Served!Wake,
         Client!TimeOut, Served!TimeOut, Client!Return, Served!Return,
         Client!Raise, Served!Raise, Client!CallerGoto, Served!CallerGoto,
         Client!shared, Served!shared, Client!wire, Served!wire,
         Client!Queries, Served!Queries, Client!None, Served!None
  <2> QED BY <2>1 DEF ServedStep, Served!Next, Served!ClientNext, Served!CallerStep
<1>4. CASE Client!Receive \/ Client!Lost \/ Client!Close \/ Client!Closed
  <2>1. Served!Receive \/ Served!Lost \/ Served!Close \/ Served!Closed
    BY <1>1, <1>4
    DEF Client!Receive, Served!Receive, Client!Lost, Served!Lost,
         Client!Close, Served!Close, Client!Closed, Served!Closed,
         Client!Hangup, Served!Hangup, Client!calling, Served!calling,
         Client!shared, Served!shared, Client!wire, Served!wire
  <2> QED BY <2>1 DEF ServedStep, Served!Next, Served!ClientNext
<1>5. CASE Client!Idle
  BY <1>1, <1>5
  DEF ServedStep, Client!Idle, Client!vars, Served!vars, Client!calling, Served!calling,
      Client!shared, Served!shared, Client!wire, Served!wire
<1> QED BY <1>2, <1>3, <1>4, <1>5 DEF Client!ClientNext, Client!CallerStep

(* Every step of the system is a step of Served or leaves it unchanged.    *)
LEMMA ServedNext == Joined /\ TypeOK /\ [SystemNext]_systemVars => ServedStep
<1> SUFFICES ASSUME Joined, TypeOK, [SystemNext]_systemVars PROVE ServedStep
  OBVIOUS
<1>1. CASE Alone(Take)
  BY <1>1, TakeDrops, DropsServed DEF Alone
<1>2. CASE Alone(Check \/ Look \/ Submit \/ Register)
  BY <1>2, GoOnDrops, DropsServed DEF Alone
<1>3. CASE \/ Alone(Stop) \/ \E n \in Numbers : JobThread(n)
           \/ MainThread \/ Alone(Disconnect \/ Exit)
  BY <1>3, OtherDrops, DropsServed DEF Alone, JobThread, MainThread
<1>4. CASE AnswerBack
  BY <1>4, AnswerServed
<1>5. CASE \/ ClientThreads
           \/ ClientAlone(Client!Begin \/ Client!QueryAsync \/ Client!Lost \/ Client!Close)
           \/ Quiet
  <2>1. UNCHANGED << vars, key >> /\ (Client!ClientNext \/ Client!Idle)
    BY <1>5 DEF ClientThreads, ClientAlone, Quiet, Client!ClientNext
  <2> QED BY <2>1, ClientServed
<1>6. CASE Core
  BY <1>6, ForwardServed, DiscardServed DEF Core
<1>7. CASE UNCHANGED systemVars
  <2>1. Drops /\ UNCHANGED clientVars
    BY <1>7 DEF systemVars, vars, inbox, handling, Drops, AtNode, Held, NodeIsUp
  <2> QED BY <2>1, DropsServed
<1> QED BY <1>1, <1>2, <1>3, <1>4, <1>5, <1>6, <1>7
        DEF SystemNext, Running, HandlerThread, Alone

LEMMA ServedInit == SystemInit => Served!ClientInit
<1> SUFFICES ASSUME SystemInit PROVE Served!ClientInit
  OBVIOUS
<1>1. AtNode = << >>
  BY DEF SystemInit, Init, AtNode, Held
<1>2. toCore = << >>
  BY DEF SystemInit, Client!ClientInit
<1>3. AtNode \o toCore = << >>
  BY <1>1, <1>2
<1> QED BY <1>3 DEF SystemInit, Client!ClientInit, Served!ClientInit, Client!None, Served!None,
                    Client!Queries, Served!Queries

(* To the client the Core and the node are what OpenSocketQuery takes the  *)
(* Core for (query, OpenSocketQuerier.py:31): what is sent waits in one    *)
(* line, through the queue of the Core, data_queue and the handler of the  *)
(* node, and its first is answered under its own key or is lost, whichever *)
(* thread of the node is where when a request, a failure or the end of the *)
(* connection comes in.                                                    *)
THEOREM QueryImplemented == SystemSpec => ImplementsQuery
  BY JoinedAlways, ServedInit, ServedNext, PTL DEF SystemSpec, ImplementsQuery, Served!Spec, ServedStep

-----------------------------------------------------------------------------
(* What is proved about OpenSocketQuery holds of the system.               *)

LEMMA ProvedNext == ServedStep => [Proved!Next]_(Proved!vars)
  BY DEF ServedStep, Served!Next, Proved!Next, Served!vars, Proved!vars, Served!ClientNext,
     Proved!ClientNext, Served!CallerStep, Proved!CallerStep, Served!Begin,
     Proved!Begin, Served!Send, Proved!Send, Served!Wake, Proved!Wake,
     Served!TimeOut, Proved!TimeOut, Served!Return, Proved!Return,
     Served!Raise, Proved!Raise, Served!QueryAsync, Proved!QueryAsync,
     Served!Receive, Proved!Receive, Served!Lost, Proved!Lost, Served!Close,
     Proved!Close, Served!Closed, Proved!Closed, Served!CoreAnswers,
     Proved!CoreAnswers, Served!Unserved, Proved!Unserved, Served!Idle,
     Proved!Idle, Served!Hangup, Proved!Hangup, Served!Delivered,
     Proved!Delivered, Served!Sent, Proved!Sent, Served!CallerGoto,
     Proved!CallerGoto, Served!calling, Proved!calling, Served!shared,
     Proved!shared, Served!wire, Proved!wire,
     Served!None, Proved!None

LEMMA ProvedInit == Served!ClientInit => Proved!ClientInit
  BY DEF Served!ClientInit, Proved!ClientInit, Served!None, Proved!None, Served!Queries, Proved!Queries

LEMMA ProvedAlways == SystemSpec => [](Proved!Accounted /\ Proved!OneByOne)
<1>1. Proved!OpenSocketQueryAssumption
  BY DownloadNodeAssumption, KnotLinkSystemAssumption
  DEF Proved!OpenSocketQueryAssumption, Proved!EnvKinds, Client!EnvKinds
<1>2. Proved!ClientInit => Proved!Accounted
  BY <1>1, Proved!AccountedInit
<1>3. Proved!ClientInit => Proved!OneByOne
  BY DEF Proved!ClientInit, Proved!OneByOne, Proved!Queries
<1>4. Proved!Accounted /\ [Proved!Next]_(Proved!vars) => Proved!Accounted'
  BY <1>1, Proved!AccountedNext
<1>5. Proved!Accounted => Proved!TypeOK
  BY DEF Proved!Accounted
<1>6. Proved!TypeOK /\ Proved!OneByOne /\ [Proved!Next]_(Proved!vars) => Proved!OneByOne'
  BY <1>1, Proved!OneByOneNext
<1> QED BY <1>2, <1>3, <1>4, <1>5, <1>6, ProvedInit, ProvedNext, JoinedAlways, ServedInit, ServedNext, PTL
        DEF SystemSpec

(* A client that never gave up and did not disconnect has each of its      *)
(* answers from the request it made (query, OpenSocketQuerier.py:31, and   *)
(* sendBack, OpenSocketResponser.py:57): for every number of queries and   *)
(* requests, although nothing in an answer says which query it is for,     *)
(* and although the node drops requests.                                   *)
THEOREM OwnAnswersAlways == SystemSpec => []OwnAnswers
<1>1. Proved!Accounted /\ Proved!OneByOne => OwnAnswers
  <2> SUFFICES ASSUME Proved!Accounted, Proved!OneByOne,
                      \A n \in Numbers : ended[n] \in {"none", "answer"}
               PROVE  Client!AnswersAreOwn
    BY DEF OwnAnswers
  <2>1. Proved!OpenSocketQueryAssumption
    BY DownloadNodeAssumption, KnotLinkSystemAssumption
    DEF Proved!OpenSocketQueryAssumption, Proved!EnvKinds, Client!EnvKinds
  <2>2. Proved!AnswersAreOwn
    BY <2>1, Proved!OwnWhenAllAnswered DEF Numbers, Proved!Queries
  <2> QED BY <2>2 DEF Client!AnswersAreOwn, Proved!AnswersAreOwn, Client!Queries, Proved!Queries,
                      Client!None, Proved!None
<1> QED BY <1>1, ProvedAlways, PTL

(* No answer of the node is used twice by the client, neither by two       *)
(* queries nor by a query and the callback of query_async                  *)
(* (_internal_data_recv, OpenSocketQuerier.py:64), whatever is lost.       *)
THEOREM AnswersUsedOnceInSystem == SystemSpec => []Client!AnswersAreUsedOnce
<1>1. Proved!Accounted => Client!AnswersAreUsedOnce
  BY DEF Proved!Accounted, Proved!AnswersAreUsedOnce, Client!AnswersAreUsedOnce,
         Client!Queries, Proved!Queries, Client!None, Proved!None
<1> QED BY <1>1, ProvedAlways, PTL
=============================================================================
