------------------------------ MODULE TcpClient ------------------------------
(***************************************************************************)
(* A KnotLink connection (tcpclient.py) and the object that owns it, as    *)
(* SignalSubscriber and OpenSocketResponser set it up: connect, set the    *)
(* callback, register, and disconnect some time later.                     *)
(*                                                                         *)
(* The owner, the receiving thread and the heartbeat timers share the      *)
(* connection; a step is one access to what they share.                    *)
(*                                                                         *)
(* Abstractions.  The magic number and the length take one unit each in    *)
(* the stream instead of four bytes, and a body as many as it is long;     *)
(* recv may cut the stream between any two units.  A message is its        *)
(* number.  The frames sent are short enough for one send().               *)
(***************************************************************************)
EXTENDS Naturals, Sequences, FiniteSets, SequencesExt

CONSTANTS
    MaxMessages,    \* bound on the frames the Core sends
    MaxBeats,       \* bound on the heartbeat timers
    MaxLength,      \* MAX_MSG_SIZE
    Env             \* what may go wrong, see EnvKinds

EnvKinds == {
    "refused",      \* no Core listens
    "garbage",      \* a frame without the magic number
    "badlength",    \* a frame of length 0, or longer than MAX_MSG_SIZE
    "lost",         \* the Core closes the connection
    "close"         \* the owner disconnects
  }

ASSUME TcpClientAssumption ==
    /\ {MaxMessages, MaxBeats, MaxLength} \subseteq Nat
    /\ Env \subseteq EnvKinds

VARIABLES
    owner,              \* where the owner is
    connected,          \* _connected_event.is_set()
    closed,             \* tcp_socket has been closed
    heart_beat_timer,   \* the timer it names, or None
    beat,               \* beat[i]: timer i, or where its send_heart_beat is;
                        \* beat[0]: the owner's start_heart_beat
    received_data_callback,     \* whether it is set
    receiver,           \* where the receiving thread is
    buffer,
    delivered,          \* the messages the callback was given
    stream,             \* what the Core has sent and recv not yet returned
    sent,               \* the frames the Core has sent
    hungUp              \* whether it has closed the connection

beating == << heart_beat_timer, beat >>
receiving == << receiver, buffer, delivered >>
core == << stream, sent, hungUp >>
vars == << owner, connected, closed, received_data_callback, beating, receiving, core >>

None == 0
Beats == 1 .. MaxBeats
FrameKinds == {"data", "heartbeat_response", "garbage", "badlength"}

-----------------------------------------------------------------------------
(* The owner.                                                              *)

OwnerGoto(from, to) == owner = from /\ owner' = to

(* connect_to_server, up to the call of start_heart_beat.                  *)
Connect ==
    /\ \/ /\ OwnerGoto("new", "connecting")
          /\ connected' = TRUE
          /\ beat' = [beat EXCEPT ![0] = "again"]
       \/ /\ "refused" \in Env
          /\ OwnerGoto("new", "initialized")
          /\ UNCHANGED << connected, beat >>
    /\ UNCHANGED << closed, heart_beat_timer, received_data_callback, receiving, core >>

(* The receiving thread is started after the first heartbeat timer.        *)
Connected ==
    /\ OwnerGoto("connecting", "initialized")
    /\ beat[0] = "over"
    /\ receiver' = "loop"
    /\ UNCHANGED << connected, closed, received_data_callback, beating, buffer, delivered, core >>

(* Mutant: the name is sent before the callback is set.                    *)
SetCallbackLater ==
    /\ \/ OwnerGoto("initialized", "open") /\ UNCHANGED received_data_callback
       \/ owner = "open" /\ received_data_callback' = TRUE /\ UNCHANGED owner
    /\ UNCHANGED << connected, closed, beating, receiving, core >>

SetCallback ==
    /\ OwnerGoto("initialized", "listening")
    /\ received_data_callback' = TRUE
    /\ UNCHANGED << connected, closed, beating, receiving, core >>

(* send_data with the name it listens to: the Core knows it from now on.   *)
Register ==
    /\ OwnerGoto("listening", "open")
    /\ UNCHANGED << connected, closed, received_data_callback, beating, receiving, core >>

(* Mutant: the connection is not marked as closed first.                   *)
DisconnectUnmarked ==
    /\ "close" \in Env
    /\ OwnerGoto("open", "disconnecting")
    /\ UNCHANGED << connected, closed, received_data_callback, beating, receiving, core >>

Disconnect ==
    /\ "close" \in Env
    /\ OwnerGoto("open", "disconnecting")
    /\ connected' = FALSE
    /\ UNCHANGED << closed, received_data_callback, beating, receiving, core >>

FindTimer ==
    /\ OwnerGoto("disconnecting", IF heart_beat_timer = None THEN "closing" ELSE "cancelling")
    /\ UNCHANGED << connected, closed, received_data_callback, beating, receiving, core >>

(* cancel() of whichever timer it is by now.                               *)
CancelTimer ==
    /\ OwnerGoto("cancelling", "forgetting")
    /\ beat' = [beat EXCEPT ![heart_beat_timer] = IF @ \in {"created", "armed"} THEN "cancelled" ELSE @]
    /\ UNCHANGED << connected, closed, received_data_callback, heart_beat_timer, receiving, core >>

ForgetTimer ==
    /\ OwnerGoto("forgetting", "closing")
    /\ heart_beat_timer' = None
    /\ UNCHANGED << connected, closed, received_data_callback, beat, receiving, core >>

CloseSocket ==
    /\ OwnerGoto("closing", "closed")
    /\ closed' = TRUE
    /\ UNCHANGED << connected, received_data_callback, beating, receiving, core >>

OwnerStep ==
    \/ Connect \/ Connected \/ SetCallback \/ Register
    \/ FindTimer \/ CancelTimer \/ ForgetTimer \/ CloseSocket

-----------------------------------------------------------------------------
(* The heartbeat: timer i, then the thread that runs its send_heart_beat.  *)

BeatGoto(i, from, to) == beat[i] = from /\ beat' = [beat EXCEPT ![i] = to]

UnchangedByBeats == UNCHANGED << owner, closed, received_data_callback, receiving, core >>

(* Time does not pass beyond the last timer of a connection that is up.    *)
Fire(i) ==
    /\ i \in Beats
    /\ i < MaxBeats \/ ~ connected
    /\ BeatGoto(i, "armed", "check")
    /\ UNCHANGED << connected, heart_beat_timer >>
    /\ UnchangedByBeats

Check(i) ==
    /\ BeatGoto(i, "check", IF connected THEN "write" ELSE "over")
    /\ UNCHANGED << connected, heart_beat_timer >>
    /\ UnchangedByBeats

(* Mutant: the heartbeat is sent once.                                     *)
WriteOnce(i) ==
    /\ BeatGoto(i, "write", "over")
    /\ connected' \in IF closed \/ hungUp THEN {connected, FALSE} ELSE {connected}
    /\ UNCHANGED heart_beat_timer
    /\ UnchangedByBeats

(* _write_with_length_prefix; the error of a broken socket is kept inside. *)
Write(i) ==
    /\ BeatGoto(i, "write", "again")
    /\ connected' \in IF closed \/ hungUp THEN {connected, FALSE} ELSE {connected}
    /\ UNCHANGED heart_beat_timer
    /\ UnchangedByBeats

(* start_heart_beat looks at the connection, ...                           *)
Again(i) ==
    /\ BeatGoto(i, "again", IF connected THEN "assign" ELSE "over")
    /\ UNCHANGED << connected, heart_beat_timer >>
    /\ UnchangedByBeats

(* ... creates the next timer, ...                                         *)
Assign(i) ==
    /\ i < MaxBeats
    /\ beat[i] = "assign"
    /\ beat' = [beat EXCEPT ![i] = "daemon", ![i + 1] = "created"]
    /\ heart_beat_timer' = i + 1
    /\ UNCHANGED connected
    /\ UnchangedByBeats

(* ... and twice more uses the attribute, which disconnect may have set to *)
(* None: the AttributeError ends the thread.                               *)
Daemon(i) ==
    /\ BeatGoto(i, "daemon", IF heart_beat_timer = None THEN "over" ELSE "start")
    /\ UNCHANGED << connected, heart_beat_timer >>
    /\ UnchangedByBeats

(* A timer that has been cancelled can be started, and does not fire.      *)
Start(i) ==
    /\ beat[i] = "start"
    /\ beat' = [j \in DOMAIN beat |->
                   IF j = i THEN "over"
                   ELSE IF j = heart_beat_timer /\ beat[j] = "created" THEN "armed"
                   ELSE beat[j]]
    /\ UNCHANGED << connected, heart_beat_timer >>
    /\ UnchangedByBeats

BeatStep(i) ==
    Fire(i) \/ Check(i) \/ Write(i) \/ Again(i) \/ Assign(i) \/ Daemon(i) \/ Start(i)

-----------------------------------------------------------------------------
(* The receiving thread.                                                   *)

ReceiverGoto(from, to) == receiver = from /\ receiver' = to

UnchangedByReceiver == UNCHANGED << owner, received_data_callback, beating, sent, hungUp >>

(* `while connected`, and the call of recv.                                *)
Loop ==
    /\ ReceiverGoto("loop", IF connected THEN "recv" ELSE "ended")
    /\ UNCHANGED << connected, closed, buffer, delivered, stream >>
    /\ UnchangedByReceiver

(* recv returns a part of what has arrived.  A close by another thread     *)
(* does not stop a recv that is already waiting.                           *)
Recv ==
    /\ ReceiverGoto("recv", "process")
    /\ \E n \in 1 .. Len(stream) :
          /\ buffer' = buffer \o SubSeq(stream, 1, n)
          /\ stream' = SubSeq(stream, n + 1, Len(stream))
    /\ UNCHANGED << connected, closed, delivered >>
    /\ UnchangedByReceiver

(* An empty chunk, or an error.                                            *)
RecvEnds ==
    /\ ReceiverGoto("recv", "ended")
    /\ closed \/ (hungUp /\ stream = << >>)
    /\ connected' = FALSE
    /\ UNCHANGED << closed, buffer, delivered, stream >>
    /\ UnchangedByReceiver

HeaderLen == 2
LengthField == buffer[2].value

(* _process_buffer, once for every message: wait for more ...              *)
Incomplete ==
    Len(buffer) >= HeaderLen =>
        /\ buffer[1].unit = "magic"
        /\ LengthField \in 1 .. MaxLength
        /\ Len(buffer) < HeaderLen + LengthField

AwaitMore ==
    /\ ReceiverGoto("process", "loop")
    /\ Incomplete
    /\ UNCHANGED << connected, closed, buffer, delivered, stream >>
    /\ UnchangedByReceiver

(* ... refuse a header that no sender may send ...                         *)
Malformed ==
    /\ Len(buffer) >= HeaderLen
    /\ ~ (buffer[1].unit = "magic" /\ LengthField \in 1 .. MaxLength)

(* Mutant: the frame is skipped.                                           *)
RefuseFrame ==
    /\ receiver = "process"
    /\ Malformed
    /\ buffer' = SubSeq(buffer, HeaderLen + LengthField + 1, Len(buffer))
    /\ UNCHANGED << receiver, connected, closed, delivered, stream >>
    /\ UnchangedByReceiver

Refuse ==
    /\ ReceiverGoto("process", "ended")
    /\ Malformed
    /\ connected' = FALSE
    /\ closed' = TRUE
    /\ UNCHANGED << buffer, delivered, stream >>
    /\ UnchangedByReceiver

(* Mutant: the rest of the buffer is thrown away with the message.         *)
DeliverAll ==
    /\ receiver = "process"
    /\ ~ Incomplete /\ ~ Malformed
    /\ buffer' = << >>
    /\ delivered' = IF buffer[3].unit = "data" THEN Append(delivered, buffer[3].value) ELSE delivered
    /\ UNCHANGED << receiver, connected, closed, stream >>
    /\ UnchangedByReceiver

(* ... or take out the first message and pass it on.                       *)
Deliver ==
    /\ receiver = "process"
    /\ ~ Incomplete /\ ~ Malformed
    /\ buffer' = SubSeq(buffer, HeaderLen + LengthField + 1, Len(buffer))
    /\ delivered' = IF buffer[3].unit = "data" /\ received_data_callback
                    THEN Append(delivered, buffer[3].value)
                    ELSE delivered
    /\ UNCHANGED << receiver, connected, closed, stream >>
    /\ UnchangedByReceiver

ReceiverStep == Loop \/ Recv \/ RecvEnds \/ AwaitMore \/ Refuse \/ Deliver

-----------------------------------------------------------------------------
(* The Core writes to whoever it knows: an owner is known by the first     *)
(* thing it sends, its name or, of a querier, its first query.             *)

Unit(unit, value) == [unit |-> unit, value |-> value]

Frame(kind, length, n) ==
    << Unit(IF kind = "garbage" THEN "other" ELSE "magic", 0), Unit("length", length) >>
        \o [i \in 1 .. length |-> Unit(kind, n)]

Lengths(kind) == IF kind = "badlength" THEN {0, MaxLength + 1} ELSE 1 .. MaxLength

CoreSends(kind, length) ==
    /\ owner \notin {"new", "connecting", "initialized", "listening"}
    /\ connected
    /\ ~ hungUp
    /\ Len(sent) < MaxMessages
    /\ sent' = Append(sent, kind)
    /\ stream' = stream \o Frame(kind, length, Len(sent'))
    /\ UNCHANGED << owner, connected, closed, received_data_callback, beating, receiving, hungUp >>

CoreHangsUp ==
    /\ "lost" \in Env
    /\ owner # "new"
    /\ connected
    /\ ~ hungUp
    /\ hungUp' = TRUE
    /\ UNCHANGED << owner, connected, closed, received_data_callback, beating, receiving, stream, sent >>

-----------------------------------------------------------------------------
Init ==
    /\ owner = "new" /\ connected = FALSE /\ closed = FALSE
    /\ received_data_callback = FALSE
    /\ heart_beat_timer = None /\ beat = [i \in 0 .. MaxBeats |-> "none"]
    /\ receiver = "none" /\ buffer = << >> /\ delivered = << >>
    /\ stream = << >> /\ sent = << >> /\ hungUp = FALSE

(* The receiving thread waits, or has ended, and the owner does not go on. *)
Quiet ==
    /\ owner \in {"open", "closed"}
    /\ receiver \in {"none", "recv", "ended"}
    /\ receiver = "recv" => stream = << >> /\ ~ hungUp
    /\ UNCHANGED vars

Next ==
    \/ OwnerStep \/ Disconnect
    \/ \E i \in 0 .. MaxBeats : BeatStep(i)
    \/ ReceiverStep
    \/ \E kind \in FrameKinds \ ({"garbage", "badlength"} \ Env) :
          \E length \in Lengths(kind) : CoreSends(kind, length)
    \/ CoreHangsUp
    \/ Quiet

Spec == Init /\ [][Next]_vars

(* The threads are scheduled and timers fire; disconnect need not happen,  *)
(* nor need a closed socket stop a recv that waits.                        *)
Fairness ==
    /\ WF_vars(OwnerStep)
    /\ WF_vars(\E i \in 0 .. MaxBeats : BeatStep(i))
    /\ WF_vars(Loop \/ Recv \/ (hungUp /\ RecvEnds) \/ AwaitMore \/ Refuse \/ Deliver)

FairSpec == Spec /\ Fairness

-----------------------------------------------------------------------------
(* Each variable has its type, and the callback is set for an owner that   *)
(* the Core can know.                                                      *)
TypeOK ==
    /\ owner \in {"new", "connecting", "initialized", "listening", "open",
                  "disconnecting", "cancelling", "forgetting", "closing", "closed"}
    /\ {connected, closed, received_data_callback, hungUp} \subseteq BOOLEAN
    /\ received_data_callback <=> owner \notin {"new", "connecting", "initialized"}
    /\ heart_beat_timer \in 0 .. MaxBeats
    /\ beat \in [0 .. MaxBeats ->
                    {"none", "created", "armed", "cancelled", "check", "write",
                     "again", "assign", "daemon", "start", "over"}]
    /\ receiver \in {"none", "loop", "recv", "process", "ended"}
    /\ \A u \in Range(buffer) \cup Range(stream) :
          u.unit \in FrameKinds \cup {"magic", "other", "length"} /\ u.value \in Nat
    /\ delivered \in Seq(1 .. Len(sent))
    /\ sent \in Seq(FrameKinds)

(* The messages sent before the first frame that no sender may send.       *)
BadFrames == {n \in DOMAIN sent : sent[n] \in {"garbage", "badlength"}}
Messages == {n \in DOMAIN sent : sent[n] = "data" /\ \A b \in BadFrames : n < b}

(* However the stream is cut, what the callback is given is what was sent, *)
(* in its order, each message once and none left out, and nothing of what  *)
(* follows a malformed frame.                                              *)
DeliveredInOrder ==
    /\ \A i, j \in DOMAIN delivered : i < j => delivered[i] < delivered[j]
    /\ \A i \in DOMAIN delivered : delivered[i] \in Messages
    /\ \A n \in Messages, d \in Range(delivered) : n < d => n \in Range(delivered)

(* A message that arrives reaches the callback, unless the connection ends *)
(* first: none is dropped because the callback is set too late, and none   *)
(* waits in the buffer for the next one to push it out.                    *)
MessagesAreDelivered ==
    \A n \in 1 .. MaxMessages :
        (n \in Messages) ~> (n \in Range(delivered) \/ ~ connected)

LiveBeats ==
    {i \in DOMAIN beat :
        beat[i] \in {"armed", "check", "write", "again", "assign", "daemon", "start"}}

(* While the connection is up there is always one heartbeat to come, and   *)
(* never two: send_heart_beat passes the turn on and does not fork.        *)
OneHeartbeat ==
    /\ Cardinality(LiveBeats) <= 1
    /\ connected /\ owner # "connecting" => LiveBeats # {}

(* After disconnect the heartbeat ends, although a timer that was created  *)
(* while disconnect ran may outlive it.                                    *)
HeartbeatEnds == (owner = "closed") ~> (LiveBeats = {})
=============================================================================
