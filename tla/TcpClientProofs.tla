--------------------------- MODULE TcpClientProofs ---------------------------
(***************************************************************************)
(* What TLAPS proves about TcpClient, for every number of messages and of  *)
(* heartbeats, every length and every misbehaviour of the Core.            *)
(*                                                                         *)
(* OneHeartbeat is not inductive.  That the timer a thread has created is  *)
(* the one it starts needs Turn: while the connection is up no one but the *)
(* thread whose turn it is changes heart_beat_timer.                       *)
(*                                                                         *)
(* DeliveredInOrder needs to know what is still in the stream, wherever    *)
(* recv has cut it (InStream): whole frames of ascending numbers, every    *)
(* message that was not delivered, and every frame that bars the rest.     *)
(***************************************************************************)
EXTENDS TcpClient, FiniteSetTheorems, TLAPS

-----------------------------------------------------------------------------
(* One heartbeat at a time.                                                *)

Up == {"connecting", "initialized", "listening", "open"}
Live == {"armed", "check", "write", "again", "assign", "daemon", "start"}
OwnerPcs == Up \cup {"new", "disconnecting", "cancelling", "forgetting", "closing", "closed"}
BeatPcs == Live \cup {"none", "created", "cancelled", "over"}

Beating ==
    /\ owner \in OwnerPcs
    /\ connected \in BOOLEAN
    /\ heart_beat_timer \in 0 .. MaxBeats
    /\ beat \in [0 .. MaxBeats -> BeatPcs]

(* Who is to go on with the heartbeat, and with which timer.               *)
Turn ==
    /\ \A i, j \in 0 .. MaxBeats : beat[i] \in Live /\ beat[j] \in Live => i = j
    /\ owner = "new" => \A i \in 0 .. MaxBeats : beat[i] \notin Live
    /\ connected => owner \in Up /\ \E i \in 0 .. MaxBeats : beat[i] \in Live
    /\ connected =>
          \A i \in 0 .. MaxBeats : beat[i] \in {"daemon", "start"} =>
              /\ i < MaxBeats
              /\ heart_beat_timer = i + 1
              /\ beat[i + 1] = "created"

LEMMA TurnInit == Init => Beating /\ Turn
  BY TcpClientAssumption DEF Init, Beating, Turn, OwnerPcs, BeatPcs, Live, Up, None

(* No step that leaves the timers alone ends a turn: it can at most take   *)
(* the connection down.                                                    *)
LEMMA TurnFrame ==
    ASSUME Beating, Turn, UNCHANGED beating,
           connected' = connected \/ connected' = FALSE,
           owner' \in OwnerPcs, owner' = "new" => owner = "new",
           connected' => owner' \in Up
    PROVE  Beating' /\ Turn'
<1>1. heart_beat_timer' = heart_beat_timer /\ beat' = beat
  BY DEF beating
<1>2. connected' \in BOOLEAN /\ (connected' => connected)
  <2>1. connected \in BOOLEAN
    BY DEF Beating
  <2>2. CASE connected' = connected
    BY <2>1, <2>2
  <2>3. CASE connected' = FALSE
    BY <2>3
  <2> QED BY <2>2, <2>3
<1>3. Beating'
  BY <1>1, <1>2 DEF Beating
<1> QED BY <1>1, <1>2, <1>3 DEF Turn

LEMMA TurnOwner ==
    ASSUME Beating, Turn, OwnerStep \/ Disconnect
    PROVE  Beating' /\ Turn'
<1> USE DEF OwnerGoto
<1>1. CASE Connect
  <2>0. owner = "new" /\ heart_beat_timer' = heart_beat_timer
    BY <1>1 DEF Connect
  <2>1. CASE /\ owner' = "connecting" /\ connected' = TRUE
             /\ beat' = [beat EXCEPT ![0] = "again"]
    <3>1. owner = "new" /\ owner' = "connecting" /\ connected' = TRUE
          /\ heart_beat_timer' = heart_beat_timer
      BY <2>0, <2>1
    <3>2. 0 \in 0 .. MaxBeats
      BY TcpClientAssumption
    <3>3. beat'[0] = "again" /\ \A i \in 0 .. MaxBeats : i # 0 => beat'[i] = beat[i]
      BY <2>1, <3>2 DEF Beating
    <3>4. beat' \in [0 .. MaxBeats -> BeatPcs]
      BY <2>1, <3>2 DEF Beating, BeatPcs, Live
    <3>5. Beating'
      BY <3>1, <3>4 DEF Beating, OwnerPcs, Up
    <3> QED BY <3>1, <3>2, <3>3, <3>5 DEF Turn, Live, Up
  <2>2. CASE owner' = "initialized" /\ UNCHANGED << connected, beat >>
    <3>1. owner' \in OwnerPcs /\ owner' # "new" /\ owner' \in Up
      BY <2>2 DEF OwnerPcs, Up
    <3>2. UNCHANGED beating /\ connected' = connected
      BY <2>0, <2>2 DEF beating
    <3> QED BY <3>1, <3>2, TurnFrame
  <2> QED BY <1>1, <2>1, <2>2 DEF Connect
<1>2. CASE CancelTimer
  <2> DEFINE now == beat'
  <2>1. /\ connected' = connected /\ heart_beat_timer' = heart_beat_timer
        /\ owner = "cancelling" /\ owner' = "forgetting"
        /\ now \in [0 .. MaxBeats -> BeatPcs]
    BY <1>2 DEF CancelTimer, Beating, BeatPcs, Live
  <2>2. \A i \in 0 .. MaxBeats : now[i] = beat[i] \/ now[i] = "cancelled"
    BY <1>2 DEF CancelTimer, Beating
  <2>3. ~ connected
    BY <2>1 DEF Turn, Up
  <2> QED BY <2>1, <2>2, <2>3 DEF Beating, Turn, OwnerPcs, Live
<1>3. CASE ForgetTimer
  <2>1. /\ owner = "forgetting" /\ owner' = "closing" /\ beat' = beat
        /\ connected' = connected /\ heart_beat_timer' = 0
    BY <1>3 DEF ForgetTimer, None
  <2>2. ~ connected
    BY <2>1 DEF Turn, Up
  <2>3. Beating'
    BY <2>1, TcpClientAssumption DEF Beating, OwnerPcs
  <2> QED BY <2>1, <2>2, <2>3 DEF Turn
<1>4. CASE Connected \/ SetCallback \/ Register \/ FindTimer \/ CloseSocket \/ Disconnect
  <2>1. UNCHANGED beating /\ (connected' = connected \/ connected' = FALSE)
    BY <1>4 DEF Connected, SetCallback, Register, FindTimer, CloseSocket, Disconnect
  <2>2. owner' \in OwnerPcs /\ owner' # "new"
    BY <1>4 DEF Connected, SetCallback, Register, FindTimer, CloseSocket, Disconnect, OwnerPcs, Up
  <2>3. CASE FindTimer \/ CloseSocket \/ Disconnect
    <3>1. CASE Disconnect
      BY <2>1, <2>2, <3>1, TurnFrame DEF Disconnect
    <3>2. CASE FindTimer \/ CloseSocket
      <4>1. owner \notin Up /\ connected' = connected
        BY <3>2 DEF FindTimer, CloseSocket, Up
      <4>2. ~ connected'
        BY <4>1 DEF Turn
      <4> QED BY <2>1, <2>2, <4>2, TurnFrame
    <3> QED BY <2>3, <3>1, <3>2
  <2>4. CASE Connected \/ SetCallback \/ Register
    <3>1. owner' \in Up
      BY <2>4 DEF Connected, SetCallback, Register, Up
    <3> QED BY <2>1, <2>2, <3>1, TurnFrame
  <2> QED BY <1>4, <2>3, <2>4
<1> QED BY <1>1, <1>2, <1>3, <1>4 DEF OwnerStep

LEMMA TurnBeat ==
    ASSUME Beating, Turn, NEW i \in 0 .. MaxBeats, BeatStep(i)
    PROVE  Beating' /\ Turn'
<1> USE DEF BeatGoto, UnchangedByBeats
<1>0. owner' = owner /\ i \in Nat /\ MaxBeats \in Nat
  <2>1. owner' = owner
    BY DEF BeatStep, Fire, Check, Write, Again, Assign, Daemon, Start
  <2> QED BY <2>1, TcpClientAssumption
<1>1. CASE Assign(i)
  <2> DEFINE now == beat'
  <2>1. /\ connected' = connected /\ heart_beat_timer' = i + 1 /\ beat[i] = "assign"
        /\ i < MaxBeats /\ i + 1 \in 0 .. MaxBeats
    BY <1>0, <1>1 DEF Assign
  <2>2. /\ now \in [0 .. MaxBeats -> BeatPcs]
        /\ now[i] = "daemon" /\ now[i + 1] = "created"
        /\ \A j \in 0 .. MaxBeats : j \notin {i, i + 1} => now[j] = beat[j]
    BY <1>0, <1>1, <2>1 DEF Assign, Beating, BeatPcs, Live
  <2> HIDE DEF now
  <2>3. \A j \in 0 .. MaxBeats : now[j] \in Live => j = i
    BY <2>1, <2>2 DEF Turn, Live
  <2>4. owner # "new"
    BY <2>1 DEF Turn, Live
  <2>5. Beating'
    BY <1>0, <2>1, <2>2 DEF Beating, now
  <2>6. Turn'
    BY <1>0, <2>1, <2>2, <2>3, <2>4 DEF Turn, Live, now
  <2> QED BY <2>5, <2>6
<1>2. CASE Start(i)
  <2> DEFINE now == beat'
  <2>1. connected' = connected /\ heart_beat_timer' = heart_beat_timer /\ beat[i] = "start"
    BY <1>2 DEF Start
  <2>2. /\ now \in [0 .. MaxBeats -> BeatPcs]
        /\ now[i] = "over"
        /\ \A j \in 0 .. MaxBeats : j # i =>
              \/ now[j] = beat[j]
              \/ j = heart_beat_timer /\ beat[j] = "created" /\ now[j] = "armed"
    BY <1>2 DEF Start, Beating, BeatPcs, Live
  <2>3. heart_beat_timer # i /\ heart_beat_timer \in 0 .. MaxBeats
        /\ beat[heart_beat_timer] = "created" => now[heart_beat_timer] = "armed"
    BY <1>2, <2>1 DEF Start, Beating
  <2> HIDE DEF now
  <2>4. \A j \in 0 .. MaxBeats : now[j] \in Live => j = heart_beat_timer /\ now[j] = "armed"
    BY <2>1, <2>2 DEF Turn, Live
  <2>5. connected => heart_beat_timer \in 0 .. MaxBeats /\ now[heart_beat_timer] = "armed"
    BY <1>0, <2>1, <2>3 DEF Turn, Beating
  <2>6. owner # "new"
    BY <2>1 DEF Turn, Live
  <2>7. Beating'
    BY <1>0, <2>1, <2>2 DEF Beating, now
  <2>8. Turn'
    BY <1>0, <2>1, <2>2, <2>4, <2>5, <2>6 DEF Turn, Live, now
  <2> QED BY <2>7, <2>8
<1>3. CASE Fire(i) \/ Check(i) \/ Write(i) \/ Again(i) \/ Daemon(i)
  <2> DEFINE now == beat'
  <2>1. /\ heart_beat_timer' = heart_beat_timer
        /\ connected' = connected \/ connected' = FALSE
        /\ beat[i] \in {"armed", "check", "write", "again", "daemon"}
    BY <1>3 DEF Fire, Check, Write, Again, Daemon, Beating
  <2>2. /\ now \in [0 .. MaxBeats -> BeatPcs]
        /\ \A j \in 0 .. MaxBeats : j # i => now[j] = beat[j]
    BY <1>3 DEF Fire, Check, Write, Again, Daemon, Beating, BeatPcs, Live
  <2>3. connected' => /\ now[i] \in {"check", "write", "again", "assign", "start"}
                      /\ now[i] = "start" => beat[i] = "daemon"
    <3>1. CASE Fire(i)
      BY <3>1 DEF Fire, Beating
    <3>2. CASE Check(i)
      BY <3>2 DEF Check, Beating
    <3>3. CASE Write(i)
      BY <3>3 DEF Write, Beating
    <3>4. CASE Again(i)
      BY <3>4 DEF Again, Beating
    <3>5. CASE Daemon(i)
      <4>1. beat[i] = "daemon" /\ connected' = connected
            /\ now[i] = IF heart_beat_timer = None THEN "over" ELSE "start"
        BY <3>5 DEF Daemon, Beating
      <4>2. connected => heart_beat_timer = i + 1
        BY <4>1 DEF Turn
      <4>3. connected => heart_beat_timer # None
        BY <1>0, <4>2 DEF None
      <4> QED BY <4>1, <4>3
    <3> QED BY <1>3, <3>1, <3>2, <3>3, <3>4, <3>5
  <2> HIDE DEF now
  <2>4. \A j \in 0 .. MaxBeats : now[j] \in Live => j = i
    BY <2>1, <2>2 DEF Turn, Live
  <2>5. owner # "new"
    BY <2>1 DEF Turn, Live
  <2>6. Beating'
    BY <1>0, <2>1, <2>2 DEF Beating, now
  <2>7. Turn'
    <3>1. connected' => connected
      BY <2>1 DEF Beating
    <3>2. connected' => \A j \in 0 .. MaxBeats : now[j] \in {"daemon", "start"} =>
              j = i /\ beat[i] = "daemon" /\ i < MaxBeats /\ heart_beat_timer = i + 1
              /\ now[i + 1] = "created"
      BY <1>0, <2>2, <2>3, <2>4, <3>1 DEF Turn, Live
    <3>3. connected' => now[i] \in Live
      BY <2>3 DEF Live
    <3> QED BY <1>0, <2>1, <2>4, <2>5, <3>1, <3>2, <3>3 DEF Turn, Live, now
  <2> QED BY <2>6, <2>7
<1> QED BY <1>1, <1>2, <1>3 DEF BeatStep

LEMMA TurnNext ==
    ASSUME Beating, Turn, [Next]_vars
    PROVE  Beating' /\ Turn'
<1>1. CASE ReceiverStep \/ CoreHangsUp \/ Quiet \/ UNCHANGED vars
           \/ \E kind \in FrameKinds, length \in Nat : CoreSends(kind, length)
  <2>1. UNCHANGED << beating, owner >> /\ (connected' = connected \/ connected' = FALSE)
    BY <1>1 DEF ReceiverStep, Loop, Recv, RecvEnds, AwaitMore, Refuse, Deliver, UnchangedByReceiver,
                CoreHangsUp, CoreSends, Quiet, vars
  <2>2. connected' => connected
    BY <2>1 DEF Beating
  <2>3. /\ owner' \in OwnerPcs /\ (owner' = "new" => owner = "new")
        /\ (connected' => owner' \in Up)
    BY <2>1, <2>2 DEF Beating, Turn
  <2> QED BY <2>1, <2>3, TurnFrame
<1>2. CASE OwnerStep \/ Disconnect
  BY <1>2, TurnOwner
<1>3. CASE \E i \in 0 .. MaxBeats : BeatStep(i)
  BY <1>3, TurnBeat
<1>4. \A kind : Lengths(kind) \subseteq Nat
  BY TcpClientAssumption DEF Lengths
<1> QED BY <1>1, <1>2, <1>3, <1>4 DEF Next

(* While the connection is up there is one heartbeat to come, and never    *)
(* are there two, disconnect or not (start_heart_beat, tcpclient.py:55,    *)
(* and disconnect, tcpclient.py:146, which race on heart_beat_timer).      *)
THEOREM NeverTwoHeartbeats == Spec => []OneHeartbeat
<1>1. Beating /\ Turn => OneHeartbeat
  <2> SUFFICES ASSUME Beating, Turn
               PROVE  Cardinality(LiveBeats) <= 1 /\ (connected => LiveBeats # {})
    BY DEF OneHeartbeat
  <2>1. LiveBeats = {i \in 0 .. MaxBeats : beat[i] \in Live}
    BY DEF LiveBeats, Live, Beating
  <2>2. CASE LiveBeats = {}
    <3>1. ~ connected
      BY <2>1, <2>2 DEF Turn, Beating
    <3> QED BY <2>2, <3>1, FS_EmptySet
  <2>3. CASE LiveBeats # {}
    <3>1. PICK i \in LiveBeats : TRUE
      BY <2>3
    <3>2. LiveBeats = {i}
      BY <2>1, <3>1 DEF Turn
    <3> QED BY <2>3, <3>2, FS_Singleton
  <2> QED BY <2>2, <2>3
<1>2. Beating /\ Turn /\ [Next]_vars => Beating' /\ Turn'
  BY TurnNext
<1> QED BY <1>1, <1>2, TurnInit, PTL DEF Spec

-----------------------------------------------------------------------------
(* The stream: what has been sent and not yet been taken out of it.        *)

Units == [unit : FrameKinds \cup {"magic", "other", "length"}, value : Nat]
Pending == buffer \o stream

HeadAt(T, p) == p \in 1 .. Len(T) /\ T[p].unit \in {"magic", "other"}
BodyAt(T, q) == q \in 1 .. Len(T) /\ T[q].unit \in FrameKinds
EndOf(T, p) == p + 1 + T[p + 1].value

(* Whole frames, the first at the beginning.                               *)
Framed(T) ==
    /\ Len(T) > 0 => HeadAt(T, 1)
    /\ \A p \in 1 .. Len(T) : HeadAt(T, p) =>
          /\ p + 1 \in 1 .. Len(T) /\ T[p + 1].unit = "length" /\ T[p + 1].value <= MaxLength + 1
          /\ EndOf(T, p) <= Len(T)
          /\ EndOf(T, p) = Len(T) \/ HeadAt(T, EndOf(T, p) + 1)
          /\ \A q \in p + 2 .. EndOf(T, p) : BodyAt(T, q) /\ T[q] = T[p + 2]

(* Each of a higher number than the one before.                            *)
Ascending(T) ==
    \A q, p, r \in 1 .. Len(T) :
        q < p /\ p < r /\ BodyAt(T, q) /\ HeadAt(T, p) /\ BodyAt(T, r) => T[q].value < T[r].value

(* A body is that of the frame whose number it has; s are the frames sent. *)
Numbered(T, s) ==
    \A q \in 1 .. Len(T) : BodyAt(T, q) => T[q].value \in DOMAIN s /\ T[q].unit = s[T[q].value]

(* A frame that no sender may send stays in the stream.                    *)
IsBad(s, b) == b \in DOMAIN s /\ s[b] \in {"garbage", "badlength"}
BadHead(T, p) == HeadAt(T, p) /\ (T[p].unit = "other" \/ T[p + 1].value \notin 1 .. MaxLength)
Barred(T, s) ==
    \A b \in DOMAIN s : IsBad(s, b) =>
        \E p \in 1 .. Len(T) :
            BadHead(T, p) /\ \A q \in 1 .. p : BodyAt(T, q) => T[q].value < b

(* Nothing is lost, and what was delivered, d, is before what is to come.  *)
Complete(T, s, d) ==
    \A n \in DOMAIN s : s[n] = "data" =>
        \/ \E i \in DOMAIN d : d[i] = n
        \/ \E q \in 1 .. Len(T) : T[q].unit = "data" /\ T[q].value = n
Ahead(T, d) ==
    \A i \in DOMAIN d, q \in 1 .. Len(T) : BodyAt(T, q) => d[i] < T[q].value

(* What was delivered was sent, in this order, before any bad frame.       *)
IsMessage(s, n) == n \in DOMAIN s /\ s[n] = "data" /\ \A b \in DOMAIN s : IsBad(s, b) => n < b
PassedOn(s, d) ==
    /\ \A i, j \in DOMAIN d : i < j => d[i] < d[j]
    /\ \A i \in DOMAIN d : IsMessage(s, d[i])

InStream(T, s, d) ==
    /\ Framed(T) /\ Ascending(T) /\ Numbered(T, s) /\ Barred(T, s)
    /\ Complete(T, s, d) /\ Ahead(T, d) /\ PassedOn(s, d)

Strings ==
    /\ buffer \in Seq(Units) /\ stream \in Seq(Units)
    /\ delivered \in Seq(Nat) /\ sent \in Seq(FrameKinds)

Known ==
    /\ received_data_callback \in BOOLEAN
    /\ received_data_callback <=> owner \notin {"new", "connecting", "initialized"}
    /\ sent # << >> => received_data_callback

(* The inductive invariant behind DeliveredInOrder.                        *)
Streamed == Strings /\ Known /\ InStream(Pending, sent, delivered)

LEMMA SeqElements ==
    ASSUME NEW S, NEW s \in Seq(S)
    PROVE  /\ Len(s) \in Nat /\ DOMAIN s = 1 .. Len(s)
           /\ \A i \in 1 .. Len(s) : s[i] \in S
  OBVIOUS

LEMMA ConcatFacts ==
    ASSUME NEW S, NEW s \in Seq(S), NEW t \in Seq(S)
    PROVE  /\ s \o t \in Seq(S)
           /\ Len(s \o t) = Len(s) + Len(t)
           /\ \A i \in 1 .. Len(s) + Len(t) :
                 (s \o t)[i] = IF i <= Len(s) THEN s[i] ELSE t[i - Len(s)]
  OBVIOUS

LEMMA ConcatAgain ==
    ASSUME NEW S, NEW s \in Seq(S), NEW t \in Seq(S), NEW u \in Seq(S)
    PROVE  (s \o t) \o u = s \o (t \o u)
  OBVIOUS

LEMMA UnitFacts ==
    ASSUME NEW u \in Units
    PROVE  u.value \in Nat /\ u.unit \in FrameKinds \cup {"magic", "other", "length"}
  BY DEF Units

(* A stream without its first frames is one of whole frames in order.      *)
LEMMA DropFrames ==
    ASSUME NEW T \in Seq(Units), NEW U \in Seq(Units), NEW k \in Nat,
           Framed(T), Ascending(T), k = Len(T) \/ HeadAt(T, k + 1),
           Len(U) = Len(T) - k, \A i \in 1 .. Len(U) : U[i] = T[i + k]
    PROVE  Framed(U) /\ Ascending(U)
<1>1. Len(T) \in Nat /\ Len(U) \in Nat
  OBVIOUS
<1>2. \A p \in 1 .. Len(U) : p + k \in 1 .. Len(T)
  BY <1>1
<1>3. \A p \in Nat : p \in 1 .. Len(U) <=> p >= 1 /\ p + k \in 1 .. Len(T)
  BY <1>1
<1>4. \A p \in Nat : /\ HeadAt(U, p) <=> p >= 1 /\ HeadAt(T, p + k)
                     /\ BodyAt(U, p) <=> p >= 1 /\ BodyAt(T, p + k)
  BY <1>1, <1>3 DEF HeadAt, BodyAt
<1>5. Len(U) > 0 => HeadAt(U, 1)
  BY <1>1, <1>4
<1>6. ASSUME NEW p \in 1 .. Len(U), HeadAt(U, p)
      PROVE  /\ p + 1 \in 1 .. Len(U) /\ U[p + 1].unit = "length" /\ U[p + 1].value <= MaxLength + 1
             /\ EndOf(U, p) <= Len(U)
             /\ EndOf(U, p) = Len(U) \/ HeadAt(U, EndOf(U, p) + 1)
             /\ \A q \in p + 2 .. EndOf(U, p) : BodyAt(U, q) /\ U[q] = U[p + 2]
  <2> DEFINE t == p + k
  <2>1. t \in 1 .. Len(T) /\ HeadAt(T, t)
    BY <1>2, <1>4, <1>6
  <2>2. t + 1 \in 1 .. Len(T) /\ T[t + 1].unit = "length" /\ T[t + 1].value <= MaxLength + 1
    BY <2>1 DEF Framed
  <2>3. p + 1 \in 1 .. Len(U) /\ U[p + 1] = T[t + 1]
    BY <1>1, <2>2
  <2>4. T[t + 1].value \in Nat
    BY <2>2, UnitFacts, SeqElements
  <2>5. EndOf(U, p) \in Nat /\ EndOf(T, t) = EndOf(U, p) + k
    <3> DEFINE length == T[t + 1].value
    <3>1. EndOf(T, t) = t + 1 + length /\ EndOf(U, p) = p + 1 + length
      BY <2>3 DEF EndOf
    <3> HIDE DEF length
    <3>2. length \in Nat
      BY <2>4 DEF length
    <3> QED BY <3>1, <3>2
  <2>6. EndOf(T, t) <= Len(T) /\ (EndOf(T, t) = Len(T) \/ HeadAt(T, EndOf(T, t) + 1))
    BY <2>1 DEF Framed
  <2>7. EndOf(U, p) <= Len(U) /\ (EndOf(U, p) = Len(U) \/ HeadAt(U, EndOf(U, p) + 1))
    <3>1. EndOf(U, p) + 1 + k = EndOf(T, t) + 1
      BY <2>5
    <3> QED BY <1>1, <1>4, <2>5, <2>6, <3>1
  <2>8. ASSUME NEW q \in p + 2 .. EndOf(U, p)
        PROVE  BodyAt(U, q) /\ U[q] = U[p + 2]
    <3>1. q \in Nat /\ q >= 1 /\ q \in 1 .. Len(U) /\ p + 2 \in 1 .. Len(U)
          /\ q + k \in t + 2 .. EndOf(T, t)
      BY <1>1, <2>5, <2>7
    <3>2. BodyAt(T, q + k) /\ T[q + k] = T[t + 2]
      BY <2>1, <3>1 DEF Framed
    <3>3. U[q] = T[q + k] /\ U[p + 2] = T[t + 2]
      BY <3>1
    <3> QED BY <1>4, <3>1, <3>2, <3>3
  <2> QED BY <2>2, <2>3, <2>7, <2>8
<1>7. ASSUME NEW q \in 1 .. Len(U), NEW p \in 1 .. Len(U), NEW r \in 1 .. Len(U),
             q < p, p < r, BodyAt(U, q), HeadAt(U, p), BodyAt(U, r)
      PROVE  U[q].value < U[r].value
  <2>1. /\ q + k \in 1 .. Len(T) /\ p + k \in 1 .. Len(T) /\ r + k \in 1 .. Len(T)
        /\ q + k < p + k /\ p + k < r + k
        /\ BodyAt(T, q + k) /\ HeadAt(T, p + k) /\ BodyAt(T, r + k)
    BY <1>2, <1>4, <1>7
  <2> QED BY <2>1 DEF Ascending
<1> QED BY <1>5, <1>6, <1>7 DEF Framed, Ascending

(* What the Core appends.                                                  *)
LEMMA FrameFacts ==
    ASSUME NEW kind \in FrameKinds, NEW length \in Lengths(kind), NEW n \in Nat
    PROVE  /\ Frame(kind, length, n) \in Seq(Units)
           /\ length \in 0 .. MaxLength + 1 /\ MaxLength \in Nat
           /\ Len(Frame(kind, length, n)) = length + 2
           /\ Frame(kind, length, n)[1].unit = IF kind = "garbage" THEN "other" ELSE "magic"
           /\ Frame(kind, length, n)[2] = Unit("length", length)
           /\ \A i \in 3 .. length + 2 : Frame(kind, length, n)[i] = Unit(kind, n)
<1>1. length \in 0 .. MaxLength + 1 /\ length \in Nat /\ MaxLength \in Nat
  BY TcpClientAssumption DEF Lengths
<1> DEFINE head == << Unit(IF kind = "garbage" THEN "other" ELSE "magic", 0), Unit("length", length) >>
           body == [i \in 1 .. length |-> Unit(kind, n)]
<1>2. head \in Seq(Units) /\ Len(head) = 2 /\ head[2] = Unit("length", length)
      /\ head[1].unit = IF kind = "garbage" THEN "other" ELSE "magic"
  BY <1>1 DEF Unit, Units
<1>3. body \in Seq(Units) /\ Len(body) = length /\ \A i \in 1 .. length : body[i] = Unit(kind, n)
  BY <1>1 DEF Unit, Units
<1>4. Frame(kind, length, n) = head \o body
  BY DEF Frame
<1> HIDE DEF head, body
<1>5. head \o body \in Seq(Units) /\ Len(head \o body) = length + 2
      /\ (head \o body)[1] = head[1] /\ (head \o body)[2] = head[2]
      /\ \A i \in 3 .. length + 2 : (head \o body)[i] = body[i - 2]
  <2>1. head \o body \in Seq(Units)
    BY <1>2, <1>3, ConcatFacts
  <2>2. /\ Len(head \o body) = Len(head) + Len(body)
        /\ \A i \in 1 .. Len(head) + Len(body) :
              (head \o body)[i] = IF i <= Len(head) THEN head[i] ELSE body[i - Len(head)]
    BY <1>2, <1>3, ConcatFacts
  <2>3. /\ Len(head \o body) = length + 2
        /\ \A i \in 1 .. length + 2 : (head \o body)[i] = IF i <= 2 THEN head[i] ELSE body[i - 2]
    BY <1>1, <1>2, <1>3, <2>2
  <2> QED BY <1>1, <2>1, <2>3
<1> QED BY <1>1, <1>2, <1>3, <1>4, <1>5

Extended(T, U, kind, length, n) ==
    /\ Framed(U) /\ Ascending(U)
    /\ Len(U) = Len(T) + length + 2
    /\ \A i \in 1 .. Len(T) : U[i] = T[i]
    /\ \A i \in 1 .. Len(T) : (HeadAt(U, i) <=> HeadAt(T, i)) /\ (BodyAt(U, i) <=> BodyAt(T, i))
    /\ HeadAt(U, Len(T) + 1)
    /\ U[Len(T) + 1].unit = IF kind = "garbage" THEN "other" ELSE "magic"
    /\ U[Len(T) + 2] = Unit("length", length)
    /\ \A i \in Len(T) + 3 .. Len(U) : U[i] = Unit(kind, n)

Below(T, n) == \A q \in 1 .. Len(T) : BodyAt(T, q) => T[q].value < n

(* A stream with one more frame, of the highest number.                    *)
LEMMA AddFrame ==
    ASSUME NEW T \in Seq(Units), NEW kind \in FrameKinds, NEW length \in Lengths(kind), NEW n \in Nat,
           Framed(T), Ascending(T), Below(T, n)
    PROVE  Extended(T, T \o Frame(kind, length, n), kind, length, n)
<1> DEFINE F == Frame(kind, length, n)
           U == T \o F
<1>1. /\ F \in Seq(Units) /\ length \in Nat /\ length <= MaxLength + 1 /\ Len(F) = length + 2
      /\ F[1].unit = IF kind = "garbage" THEN "other" ELSE "magic"
      /\ F[2] = Unit("length", length)
      /\ \A i \in 3 .. length + 2 : F[i] = Unit(kind, n)
  BY FrameFacts
<1> HIDE DEF F
<1>2. /\ U \in Seq(Units) /\ Len(U) = Len(T) + length + 2 /\ Len(T) \in Nat /\ Len(U) \in Nat
      /\ \A i \in 1 .. Len(T) : U[i] = T[i]
      /\ \A i \in 1 .. length + 2 : U[Len(T) + i] = F[i]
  BY <1>1
<1> HIDE DEF U
<1> DEFINE m == Len(T)
<1>3. m \in Nat /\ m + length + 2 = Len(U)
  BY <1>2
<1>4. /\ U[m + 1].unit = IF kind = "garbage" THEN "other" ELSE "magic"
      /\ U[m + 2] = Unit("length", length)
  BY <1>1, <1>2
<1>5. ASSUME NEW i \in m + 3 .. Len(U) PROVE U[i] = Unit(kind, n)
  <2>1. i - m \in 3 .. length + 2 /\ i - m \in 1 .. length + 2 /\ m + (i - m) = i
    BY <1>1, <1>3
  <2> QED BY <1>1, <1>2, <2>1
<1>6. \A i \in 1 .. m : (HeadAt(U, i) <=> HeadAt(T, i)) /\ (BodyAt(U, i) <=> BodyAt(T, i))
  BY <1>1, <1>2 DEF HeadAt, BodyAt
<1>7. HeadAt(U, m + 1) /\ ~ BodyAt(U, m + 1) /\ ~ HeadAt(U, m + 2) /\ ~ BodyAt(U, m + 2)
  BY <1>1, <1>3, <1>4 DEF HeadAt, BodyAt, Unit, FrameKinds
<1>8. \A i \in m + 3 .. Len(U) : BodyAt(U, i) /\ ~ HeadAt(U, i) /\ U[i].value = n
  BY <1>1, <1>3, <1>5 DEF HeadAt, BodyAt, Unit, FrameKinds
<1>9. Framed(U)
  <2>1. Len(U) > 0 => HeadAt(U, 1)
    <3>1. CASE m = 0
      BY <1>7, <3>1
    <3>2. CASE m > 0
      BY <1>3, <1>6, <3>2 DEF Framed
    <3> QED BY <1>3, <3>1, <3>2
  <2>2. ASSUME NEW p \in 1 .. Len(U), HeadAt(U, p)
        PROVE  /\ p + 1 \in 1 .. Len(U) /\ U[p + 1].unit = "length" /\ U[p + 1].value <= MaxLength + 1
               /\ EndOf(U, p) <= Len(U)
               /\ EndOf(U, p) = Len(U) \/ HeadAt(U, EndOf(U, p) + 1)
               /\ \A q \in p + 2 .. EndOf(U, p) : BodyAt(U, q) /\ U[q] = U[p + 2]
    <3>1. CASE p \in 1 .. m
      <4>1. HeadAt(T, p)
        BY <1>6, <2>2, <3>1
      <4>2. /\ p + 1 \in 1 .. m /\ T[p + 1].unit = "length" /\ T[p + 1].value <= MaxLength + 1
            /\ EndOf(T, p) <= m /\ (EndOf(T, p) = m \/ HeadAt(T, EndOf(T, p) + 1))
            /\ \A q \in p + 2 .. EndOf(T, p) : BodyAt(T, q) /\ T[q] = T[p + 2]
        BY <3>1, <4>1 DEF Framed
      <4>3. U[p + 1] = T[p + 1] /\ T[p + 1].value \in Nat
        BY <1>2, <4>2, UnitFacts, SeqElements
      <4>4. EndOf(U, p) = EndOf(T, p)
        BY <4>3 DEF EndOf
      <4>5. EndOf(T, p) \in Nat
        <5> DEFINE l == T[p + 1].value
        <5> HIDE DEF l
        <5>1. l \in Nat
          BY <4>3 DEF l
        <5>2. EndOf(T, p) = p + 1 + l
          BY DEF EndOf, l
        <5> QED BY <5>1, <5>2
      <4>6. EndOf(U, p) = Len(U) \/ HeadAt(U, EndOf(U, p) + 1)
        <5>1. CASE EndOf(T, p) = m
          BY <1>7, <4>4, <5>1
        <5>2. CASE HeadAt(T, EndOf(T, p) + 1)
          BY <1>6, <4>4, <5>2 DEF HeadAt
        <5> QED BY <4>2, <5>1, <5>2
      <4>7. ASSUME NEW q \in p + 2 .. EndOf(U, p)
            PROVE  BodyAt(U, q) /\ U[q] = U[p + 2]
        <5>1. q \in 1 .. m /\ p + 2 \in 1 .. m /\ q \in p + 2 .. EndOf(T, p)
          BY <1>3, <4>2, <4>4, <4>5
        <5> QED BY <1>2, <1>6, <4>2, <5>1
      <4> QED BY <1>1, <1>3, <4>2, <4>3, <4>4, <4>5, <4>6, <4>7
    <3>2. CASE p = m + 1
      <4>1. U[p + 1] = Unit("length", length) /\ p + 1 = m + 2
        BY <1>3, <1>4, <3>2
      <4>2. U[p + 1].unit = "length" /\ U[p + 1].value = length
        BY <4>1 DEF Unit
      <4>3. EndOf(U, p) = Len(U) /\ p + 2 = m + 3
        BY <1>1, <1>3, <3>2, <4>1, <4>2 DEF EndOf
      <4>4. \A q \in p + 2 .. EndOf(U, p) : BodyAt(U, q) /\ U[q] = U[p + 2]
        <5>1. \A q \in m + 3 .. Len(U) : m + 3 \in m + 3 .. Len(U)
          BY <1>3
        <5> QED BY <1>5, <1>8, <4>3, <5>1
      <4> QED BY <1>1, <1>3, <4>1, <4>2, <4>3, <4>4
    <3>3. CASE p = m + 2
      BY <1>7, <2>2, <3>3
    <3>4. CASE p \in m + 3 .. Len(U)
      BY <1>8, <2>2, <3>4
    <3> QED BY <1>3, <3>1, <3>2, <3>3, <3>4
  <2> QED BY <2>1, <2>2 DEF Framed
<1>10. Ascending(U)
  <2> SUFFICES ASSUME NEW q \in 1 .. Len(U), NEW p \in 1 .. Len(U), NEW r \in 1 .. Len(U),
                      q < p, p < r, BodyAt(U, q), HeadAt(U, p), BodyAt(U, r)
               PROVE  U[q].value < U[r].value
    BY DEF Ascending
  <2>1. p \in 1 .. m + 1
    BY <1>3, <1>7, <1>8
  <2>2. q \in 1 .. m /\ BodyAt(T, q) /\ U[q] = T[q]
    BY <1>2, <1>3, <1>6, <2>1
  <2>3. CASE r \in 1 .. m
    <3>1. p \in 1 .. m
      BY <1>3, <2>3
    <3>2. BodyAt(T, r) /\ HeadAt(T, p) /\ U[r] = T[r]
      BY <1>2, <1>6, <2>3, <3>1
    <3> QED BY <2>2, <2>3, <3>1, <3>2 DEF Ascending
  <2>4. CASE r \in m + 3 .. Len(U)
    BY <1>8, <2>2, <2>4 DEF Below
  <2> QED BY <1>3, <1>7, <2>3, <2>4
<1>11. Extended(T, U, kind, length, n)
  BY <1>2, <1>4, <1>5, <1>6, <1>7, <1>9, <1>10 DEF Extended
<1> QED BY <1>11 DEF U, F

(* U is T without its first k units; e is what has been delivered after    *)
(* the first frame of T.                                                   *)
Dropped(T, U, k) == Len(U) = Len(T) - k /\ \A i \in 1 .. Len(U) : U[i] = T[i + k]
Passed(T, d, e) == e = IF T[3].unit = "data" THEN Append(d, T[3].value) ELSE d
FirstFrame(T, k) ==
    /\ T[1].unit = "magic" /\ T[2].value \in 1 .. MaxLength
    /\ k = T[2].value + 2 /\ k <= Len(T)

(* The first frame is taken out and, if it is a message, passed on.        *)
LEMMA DropFirst ==
    ASSUME NEW T \in Seq(Units), NEW U \in Seq(Units), NEW s \in Seq(FrameKinds), NEW d \in Seq(Nat),
           NEW k \in Nat, NEW e,
           InStream(T, s, d), FirstFrame(T, k), Dropped(T, U, k), Passed(T, d, e)
    PROVE  InStream(U, s, e) /\ e \in Seq(Nat)
<1> DEFINE n == T[3].value
<1>0. T[1].unit = "magic" /\ T[2].value \in 1 .. MaxLength /\ T[2].value + 2 = k
  BY DEF FirstFrame
<1>1. Len(T) \in Nat /\ Len(U) \in Nat /\ k >= 3 /\ k <= Len(T) /\ Len(U) = Len(T) - k
  <2> DEFINE l == T[2].value
  <2>1. l \in Nat /\ l # 0 /\ k = l + 2 /\ k <= Len(T)
    BY TcpClientAssumption DEF FirstFrame
  <2> HIDE DEF l
  <2>2. k >= 3
    BY <2>1
  <2>3. Len(U) = Len(T) - k
    BY DEF Dropped
  <2> QED BY <2>1, <2>2, <2>3
<1>2. /\ Framed(T) /\ Ascending(T) /\ Numbered(T, s) /\ Barred(T, s)
      /\ Complete(T, s, d) /\ Ahead(T, d) /\ PassedOn(s, d)
  BY DEF InStream
<1>3. HeadAt(T, 1) /\ EndOf(T, 1) = k
  <2>1. 1 \in 1 .. Len(T)
    BY <1>1
  <2>2. T[2].value \in Nat
    BY TcpClientAssumption DEF FirstFrame
  <2> QED BY <1>0, <2>1, <2>2 DEF HeadAt, EndOf
<1>4. T[2].unit = "length" /\ (k = Len(T) \/ HeadAt(T, k + 1))
  BY <1>1, <1>2, <1>3 DEF Framed
<1>5. \A q \in 3 .. k : BodyAt(T, q) /\ T[q] = T[3]
  <2>1. \A q \in 1 + 2 .. EndOf(T, 1) : BodyAt(T, q) /\ T[q] = T[1 + 2]
    BY <1>1, <1>2, <1>3 DEF Framed, HeadAt
  <2>2. 1 + 2 = 3
    OBVIOUS
  <2> QED BY <1>3, <2>1, <2>2
<1>6. Framed(U) /\ Ascending(U)
  BY <1>1, <1>2, <1>4, DropFrames DEF Dropped
<1>7. /\ 3 \in 1 .. Len(T) /\ BodyAt(T, 3) /\ T[3].unit = s[n] /\ n \in DOMAIN s /\ n \in Nat
  <2>1. 3 \in 1 .. Len(T) /\ BodyAt(T, 3)
    <3>1. 3 \in 3 .. k
      BY <1>1
    <3>2. BodyAt(T, 3)
      BY <1>5, <3>1
    <3> QED BY <3>2 DEF BodyAt
  <2>2. n \in DOMAIN s /\ T[3].unit = s[n]
    BY <1>2, <2>1 DEF Numbered
  <2> QED BY <2>1, <2>2, SeqElements
<1> HIDE DEF n
<1>8. \A i \in 1 .. Len(U) : /\ i + k \in 1 .. Len(T) /\ U[i] = T[i + k]
                             /\ BodyAt(U, i) <=> BodyAt(T, i + k)
  <2>1. \A i \in 1 .. Len(U) : i + k \in 1 .. Len(T)
    BY <1>1
  <2> QED BY <2>1 DEF BodyAt, Dropped
<1>9. ASSUME NEW b \in DOMAIN s, IsBad(s, b)
      PROVE  /\ n < b
             /\ \E p \in 1 .. Len(U) : BadHead(U, p) /\ \A q \in 1 .. p : BodyAt(U, q) => U[q].value < b
  <2>1. PICK p \in 1 .. Len(T) : BadHead(T, p) /\ \A q \in 1 .. p : BodyAt(T, q) => T[q].value < b
    BY <1>2, <1>9 DEF Barred
  <2>2. p # 1
    BY <1>0, <2>1 DEF BadHead
  <2>3. p # 2 /\ p \notin 3 .. k
    BY <1>4, <1>5, <2>1 DEF BadHead, HeadAt, BodyAt, FrameKinds
  <2>4. p \in Nat /\ p > k /\ p - k \in 1 .. Len(U) /\ p - k + k = p /\ 3 \in 1 .. p
    BY <1>1, <2>2, <2>3
  <2>5. n < b
    BY <1>7, <2>1, <2>4 DEF n
  <2>6. p + 1 \in 1 .. Len(T)
    BY <1>2, <2>1 DEF Framed, BadHead
  <2>7. U[p - k] = T[p] /\ U[p - k + 1] = T[p + 1]
    <3>1. p - k + 1 \in 1 .. Len(U) /\ p - k + 1 + k = p + 1
      BY <1>1, <2>4, <2>6
    <3> QED BY <2>4, <3>1 DEF Dropped
  <2>8. BadHead(U, p - k)
    BY <2>1, <2>4, <2>7 DEF BadHead, HeadAt
  <2>9. ASSUME NEW q \in 1 .. p - k, BodyAt(U, q) PROVE U[q].value < b
    <3>1. q \in 1 .. Len(U) /\ q + k \in 1 .. p
      BY <1>1, <2>4
    <3> QED BY <1>8, <2>1, <2>9, <3>1
  <2> QED BY <2>4, <2>5, <2>8, <2>9
<1>10. ASSUME NEW q \in 1 .. Len(U), BodyAt(U, q) PROVE n < U[q].value
  <2>1. q + k \in 1 .. Len(T) /\ BodyAt(T, q + k) /\ U[q] = T[q + k] /\ q + k >= k + 1
    BY <1>1, <1>8, <1>10
  <2>2. HeadAt(T, k + 1) /\ k + 1 \in 1 .. Len(T)
    BY <1>1, <1>4, <2>1
  <2>3. q + k # k + 1
    BY <2>1, <2>2 DEF HeadAt, BodyAt, FrameKinds
  <2>4. k + 1 < q + k /\ 3 < k + 1
    BY <1>1, <2>1, <2>3
  <2> QED BY <1>2, <1>7, <2>1, <2>2, <2>4 DEF Ascending, n
<1>11. Numbered(U, s)
  BY <1>2, <1>8 DEF Numbered
<1>12. CASE T[3].unit = "data"
  <2>1. e = Append(d, n)
    BY <1>12 DEF n, Passed
  <2>2. /\ e \in Seq(Nat) /\ DOMAIN d = 1 .. Len(d) /\ DOMAIN e = 1 .. Len(d) + 1 /\ Len(d) \in Nat
        /\ \A i \in DOMAIN d : e[i] = d[i]
        /\ e[Len(d) + 1] = n
    BY <1>7, <2>1
  <2>3. \A i \in DOMAIN e : i \in DOMAIN d \/ i = Len(d) + 1
    BY <2>2
  <2>4. ASSUME NEW m \in DOMAIN s, s[m] = "data"
        PROVE  \/ \E i \in DOMAIN e : e[i] = m
               \/ \E q \in 1 .. Len(U) : U[q].unit = "data" /\ U[q].value = m
    <3>1. CASE \E i \in DOMAIN d : d[i] = m
      BY <2>2, <3>1
    <3>2. CASE \E q \in 1 .. Len(T) : T[q].unit = "data" /\ T[q].value = m
      <4>1. PICK q \in 1 .. Len(T) : T[q].unit = "data" /\ T[q].value = m
        BY <3>2
      <4>2. q # 1 /\ q # 2
        BY <1>0, <1>4, <4>1
      <4>3. CASE q \in 3 .. k
        <5>1. m = n /\ Len(d) + 1 \in DOMAIN e
          BY <1>5, <2>2, <4>1, <4>3 DEF n
        <5> QED BY <2>2, <5>1
      <4>4. CASE q > k
        <5>1. q - k \in 1 .. Len(U) /\ q - k + k = q
          BY <1>1, <4>4
        <5> QED BY <1>8, <4>1, <5>1
      <4> QED BY <1>1, <4>2, <4>3, <4>4
    <3> QED BY <1>2, <2>4, <3>1, <3>2 DEF Complete
  <2>5. \A i \in DOMAIN d : d[i] < n
    BY <1>2, <1>7 DEF Ahead, n
  <2>6. ASSUME NEW i \in DOMAIN e, NEW q \in 1 .. Len(U), BodyAt(U, q)
        PROVE  e[i] < U[q].value
    <3>1. CASE i \in DOMAIN d
      <4>1. d[i] < T[q + k].value
        BY <1>2, <1>8, <2>6, <3>1 DEF Ahead
      <4> QED BY <1>8, <2>2, <3>1, <4>1
    <3>2. CASE i = Len(d) + 1
      BY <1>10, <2>2, <2>6, <3>2
    <3> QED BY <2>3, <3>1, <3>2
  <2>7. \A i, j \in DOMAIN e : i < j => e[i] < e[j]
    <3> SUFFICES ASSUME NEW i \in DOMAIN e, NEW j \in DOMAIN e, i < j PROVE e[i] < e[j]
      OBVIOUS
    <3>1. i \in DOMAIN d
      BY <2>2
    <3>2. CASE j \in DOMAIN d
      BY <1>2, <2>2, <3>1, <3>2 DEF PassedOn
    <3>3. CASE j = Len(d) + 1
      BY <2>2, <2>5, <3>1, <3>3
    <3> QED BY <2>3, <3>2, <3>3
  <2>8. IsMessage(s, n)
    BY <1>7, <1>9, <1>12 DEF IsMessage
  <2>9. \A i \in DOMAIN e : IsMessage(s, e[i])
    BY <1>2, <2>2, <2>3, <2>8 DEF PassedOn
  <2>10. Barred(U, s) /\ Complete(U, s, e) /\ Ahead(U, e) /\ PassedOn(s, e)
    BY <1>9, <2>4, <2>6, <2>7, <2>9 DEF Barred, Complete, Ahead, PassedOn
  <2> QED BY <1>6, <1>11, <2>2, <2>10 DEF InStream
<1>13. CASE T[3].unit # "data"
  <2>1. e = d
    BY <1>13 DEF Passed
  <2>2. ASSUME NEW m \in DOMAIN s, s[m] = "data"
        PROVE  \/ \E i \in DOMAIN d : d[i] = m
               \/ \E q \in 1 .. Len(U) : U[q].unit = "data" /\ U[q].value = m
    <3>1. CASE \E q \in 1 .. Len(T) : T[q].unit = "data" /\ T[q].value = m
      <4>1. PICK q \in 1 .. Len(T) : T[q].unit = "data" /\ T[q].value = m
        BY <3>1
      <4>2. q # 1 /\ q # 2 /\ q \notin 3 .. k
        BY <1>0, <1>4, <1>5, <1>13, <4>1
      <4>3. q - k \in 1 .. Len(U) /\ q - k + k = q
        BY <1>1, <4>2
      <4> QED BY <1>8, <4>1, <4>3
    <3> QED BY <1>2, <2>2, <3>1 DEF Complete
  <2>3. Ahead(U, d)
    BY <1>2, <1>8 DEF Ahead
  <2>4. Barred(U, s) /\ Complete(U, s, d)
    BY <1>9, <2>2 DEF Barred, Complete
  <2> QED BY <1>2, <1>6, <1>11, <2>1, <2>3, <2>4 DEF InStream
<1> QED BY <1>12, <1>13

(* Where a place of a stream lies to which a frame was added.              *)
LEMMA Places ==
    ASSUME NEW m \in Nat, NEW length \in Nat, NEW len, len = m + length + 2,
           NEW q \in 1 .. len
    PROVE  q \in 1 .. m \/ q = m + 1 \/ q = m + 2 \/ q \in m + 3 .. len
<1>1. q \in Nat /\ 1 <= q /\ q <= len /\ len \in Nat
  OBVIOUS
<1> QED BY <1>1

(* One more frame is sent.                                                 *)
LEMMA AddLast ==
    ASSUME NEW T \in Seq(Units), NEW s \in Seq(FrameKinds), NEW d \in Seq(Nat),
           NEW kind \in FrameKinds, NEW length \in Lengths(kind), InStream(T, s, d)
    PROVE  InStream(T \o Frame(kind, length, Len(s) + 1), Append(s, kind), d)
<1> DEFINE n == Len(s) + 1
           U == T \o Frame(kind, length, n)
           z == Append(s, kind)
           m == Len(T)
<1>0. /\ Framed(T) /\ Ascending(T) /\ Numbered(T, s) /\ Barred(T, s)
      /\ Complete(T, s, d) /\ Ahead(T, d) /\ PassedOn(s, d)
  BY DEF InStream
<1>1. /\ n \in Nat /\ m \in Nat /\ DOMAIN s = 1 .. n - 1 /\ DOMAIN z = 1 .. n /\ n \in DOMAIN z
      /\ \A i \in DOMAIN s : i \in DOMAIN z /\ z[i] = s[i] /\ i < n
      /\ z[n] = kind /\ \A i \in DOMAIN z : i \in DOMAIN s \/ i = n
  OBVIOUS
<1> HIDE DEF n, z
<1>2. Below(T, n)
  BY <1>0, <1>1 DEF Numbered, Below
<1>3. /\ Framed(U) /\ Ascending(U) /\ Len(U) = m + length + 2
      /\ \A i \in 1 .. m : U[i] = T[i]
      /\ \A i \in 1 .. m : (HeadAt(U, i) <=> HeadAt(T, i)) /\ (BodyAt(U, i) <=> BodyAt(T, i))
      /\ HeadAt(U, m + 1)
      /\ U[m + 1].unit = IF kind = "garbage" THEN "other" ELSE "magic"
      /\ U[m + 2] = Unit("length", length)
      /\ \A i \in m + 3 .. Len(U) : U[i] = Unit(kind, n)
  <2>1. Extended(T, U, kind, length, n)
    BY <1>0, <1>1, <1>2, AddFrame
  <2> QED BY <2>1 DEF Extended
<1>4. length \in Nat /\ (kind = "badlength" => length \notin 1 .. MaxLength)
      /\ (kind # "badlength" => length >= 1)
  BY TcpClientAssumption DEF Lengths
<1> HIDE DEF U
<1>5. U[m + 2].unit = "length" /\ U[m + 2].value = length
      /\ \A i \in m + 3 .. Len(U) : U[i].unit = kind /\ U[i].value = n
  BY <1>3 DEF Unit
<1>6. ASSUME NEW q \in 1 .. Len(U), BodyAt(U, q)
      PROVE  \/ q \in 1 .. m /\ BodyAt(T, q) /\ U[q] = T[q]
             \/ q \in m + 3 .. Len(U) /\ U[q].value = n /\ U[q].unit = kind
  <2>0. m \in Nat /\ length \in Nat /\ Len(U) = m + length + 2 /\ q \in 1 .. Len(U)
    BY <1>1, <1>3, <1>4
  <2>1. q \in 1 .. m \/ q = m + 1 \/ q = m + 2 \/ q \in m + 3 .. Len(U)
    BY <2>0, Places
  <2>2. q # m + 1 /\ q # m + 2
    BY <1>3, <1>5, <1>6 DEF HeadAt, BodyAt, FrameKinds
  <2> QED BY <1>3, <1>5, <1>6, <2>1, <2>2
<1>7. Numbered(U, z)
  <2> SUFFICES ASSUME NEW q \in 1 .. Len(U), BodyAt(U, q)
               PROVE  U[q].value \in DOMAIN z /\ U[q].unit = z[U[q].value]
    BY DEF Numbered
  <2>1. CASE q \in 1 .. m /\ BodyAt(T, q) /\ U[q] = T[q]
    BY <1>0, <1>1, <2>1 DEF Numbered
  <2>2. CASE U[q].value = n /\ U[q].unit = kind
    BY <1>1, <2>2
  <2> QED BY <1>6, <2>1, <2>2
<1>8. ASSUME NEW b \in DOMAIN z, IsBad(z, b)
      PROVE  \E p \in 1 .. Len(U) :
                BadHead(U, p) /\ \A q \in 1 .. p : BodyAt(U, q) => U[q].value < b
  <2>1. CASE b \in DOMAIN s
    <3>1. IsBad(s, b)
      BY <1>1, <1>8, <2>1 DEF IsBad
    <3>2. PICK p \in 1 .. m : BadHead(T, p) /\ \A q \in 1 .. p : BodyAt(T, q) => T[q].value < b
      BY <1>0, <2>1, <3>1 DEF Barred
    <3>3. p + 1 \in 1 .. m
      BY <1>0, <3>2 DEF Framed, BadHead
    <3>4. p \in 1 .. Len(U) /\ \A q \in 1 .. p : q \in 1 .. m
      BY <1>1, <1>3, <1>4
    <3>5. BadHead(U, p)
      BY <1>3, <3>2, <3>3 DEF BadHead
    <3>6. \A q \in 1 .. p : BodyAt(U, q) => U[q].value < b
      BY <1>3, <3>2, <3>4
    <3> QED BY <3>4, <3>5, <3>6
  <2>2. CASE b = n
    <3>1. m + 1 \in 1 .. Len(U) /\ m + 1 + 1 = m + 2
      BY <1>1, <1>3, <1>4
    <3>2. BadHead(U, m + 1)
      <4>1. kind \in {"garbage", "badlength"}
        BY <1>1, <1>8, <2>2 DEF IsBad
      <4> QED BY <1>3, <1>4, <1>5, <3>1, <4>1 DEF BadHead
    <3>3. ASSUME NEW q \in 1 .. m + 1, BodyAt(U, q) PROVE U[q].value < b
      <4>1. q \in 1 .. Len(U) /\ q \notin m + 3 .. Len(U)
        BY <1>1, <3>1
      <4>2. q \in 1 .. m /\ BodyAt(T, q) /\ U[q] = T[q]
        BY <1>6, <3>3, <4>1
      <4> QED BY <1>2, <2>2, <4>2 DEF Below
    <3> QED BY <3>1, <3>2, <3>3
  <2> QED BY <1>1, <2>1, <2>2
<1>9. ASSUME NEW a \in DOMAIN z, z[a] = "data"
      PROVE  \/ \E i \in DOMAIN d : d[i] = a
             \/ \E q \in 1 .. Len(U) : U[q].unit = "data" /\ U[q].value = a
  <2>1. CASE a \in DOMAIN s
    <3>1. \/ \E i \in DOMAIN d : d[i] = a
          \/ \E q \in 1 .. m : T[q].unit = "data" /\ T[q].value = a
      BY <1>0, <1>1, <1>9, <2>1 DEF Complete
    <3>2. \A q \in 1 .. m : q \in 1 .. Len(U)
      BY <1>1, <1>3, <1>4
    <3> QED BY <1>3, <3>1, <3>2
  <2>2. CASE a = n
    <3>1. kind = "data"
      BY <1>1, <1>9, <2>2
    <3>2. m + 3 \in m + 3 .. Len(U) /\ m + 3 \in 1 .. Len(U)
      BY <1>1, <1>3, <1>4, <3>1
    <3> QED BY <1>5, <2>2, <3>1, <3>2
  <2> QED BY <1>1, <2>1, <2>2
<1>10. ASSUME NEW i \in DOMAIN d, NEW q \in 1 .. Len(U), BodyAt(U, q)
       PROVE  d[i] < U[q].value
  <2>1. d[i] < n
    BY <1>0, <1>1 DEF PassedOn, IsMessage
  <2>2. CASE q \in 1 .. m /\ BodyAt(T, q) /\ U[q] = T[q]
    BY <1>0, <2>2 DEF Ahead
  <2> QED BY <1>6, <1>10, <2>1, <2>2
<1>11. PassedOn(z, d)
  <2>1. \A i \in DOMAIN d : IsMessage(z, d[i])
    <3> SUFFICES ASSUME NEW i \in DOMAIN d PROVE IsMessage(z, d[i])
      OBVIOUS
    <3>1. IsMessage(s, d[i])
      BY <1>0 DEF PassedOn
    <3>2. \A b \in DOMAIN z : IsBad(z, b) => d[i] < b
      BY <1>1, <3>1 DEF IsMessage, IsBad
    <3> QED BY <1>1, <3>1, <3>2 DEF IsMessage
  <2> QED BY <1>0, <2>1 DEF PassedOn
<1>12. Barred(U, z) /\ Complete(U, z, d) /\ Ahead(U, d)
  BY <1>8, <1>9, <1>10 DEF Barred, Complete, Ahead
<1>13. InStream(U, z, d)
  BY <1>3, <1>7, <1>11, <1>12 DEF InStream
<1> QED BY <1>13 DEF U, z, n

-----------------------------------------------------------------------------
(* The steps.                                                              *)

LEMMA StreamInit == Init => Streamed
<1> SUFFICES ASSUME Init PROVE Streamed
  OBVIOUS
<1>1. /\ buffer = << >> /\ stream = << >> /\ delivered = << >> /\ sent = << >>
      /\ received_data_callback = FALSE /\ owner = "new"
  BY DEF Init
<1>2. Pending = << >> /\ Len(Pending) = 0
  BY <1>1 DEF Pending
<1>3. DOMAIN sent = {} /\ DOMAIN delivered = {}
  BY <1>1
<1>4. InStream(Pending, sent, delivered)
  BY <1>2, <1>3 DEF InStream, Framed, Ascending, Numbered, Barred, Complete, Ahead, PassedOn
<1>5. \A S : << >> \in Seq(S)
  OBVIOUS
<1>6. Strings
  BY <1>1, <1>5 DEF Strings
<1>7. Known
  BY <1>1 DEF Known
<1> QED BY <1>4, <1>6, <1>7 DEF Streamed

LEMMA CutFacts ==
    ASSUME NEW S, NEW s \in Seq(S), NEW t \in Seq(S), NEW k \in 0 .. Len(s)
    PROVE  /\ SubSeq(s, k + 1, Len(s)) \in Seq(S)
           /\ Len(SubSeq(s, k + 1, Len(s)) \o t) = Len(s \o t) - k
           /\ \A i \in 1 .. Len(SubSeq(s, k + 1, Len(s)) \o t) :
                 (SubSeq(s, k + 1, Len(s)) \o t)[i] = (s \o t)[i + k]
<1> DEFINE u == SubSeq(s, k + 1, Len(s))
<1>1. k \in Nat /\ Len(s) \in Nat /\ Len(t) \in Nat /\ k <= Len(s)
  OBVIOUS
<1>2. u \in Seq(S) /\ Len(u) = Len(s) - k /\ \A i \in 1 .. Len(u) : u[i] = s[i + k]
  BY <1>1
<1> HIDE DEF u
<1>3. /\ Len(u \o t) = Len(u) + Len(t)
      /\ \A i \in 1 .. Len(u) + Len(t) : (u \o t)[i] = IF i <= Len(u) THEN u[i] ELSE t[i - Len(u)]
  BY <1>2, ConcatFacts
<1>4. /\ Len(s \o t) = Len(s) + Len(t)
      /\ \A i \in 1 .. Len(s) + Len(t) : (s \o t)[i] = IF i <= Len(s) THEN s[i] ELSE t[i - Len(s)]
  BY ConcatFacts
<1>5. ASSUME NEW i \in 1 .. Len(u \o t) PROVE (u \o t)[i] = (s \o t)[i + k]
  <2>1. i \in Nat /\ i \in 1 .. Len(u) + Len(t) /\ i + k \in 1 .. Len(s) + Len(t)
    BY <1>1, <1>2, <1>3
  <2>2. CASE i <= Len(u)
    <3>1. i \in 1 .. Len(u) /\ i + k <= Len(s)
      BY <1>1, <1>2, <2>1, <2>2
    <3> QED BY <1>2, <1>3, <1>4, <2>1, <2>2, <3>1
  <2>3. CASE ~ (i <= Len(u))
    <3>1. ~ (i + k <= Len(s)) /\ i - Len(u) = (i + k) - Len(s)
      BY <1>1, <1>2, <2>1, <2>3
    <3> QED BY <1>3, <1>4, <2>1, <2>3, <3>1
  <2> QED BY <2>2, <2>3
<1>6. Len(u \o t) = Len(s \o t) - k
  <2>1. Len(u \o t) = Len(u) + Len(t) /\ Len(s \o t) = Len(s) + Len(t) /\ Len(u) = Len(s) - k
    BY <1>2, <1>3, <1>4
  <2> QED BY <1>1, <2>1
<1>7. u \in Seq(S)
  BY <1>2
<1> QED BY <1>5, <1>6, <1>7 DEF u

LEMMA StreamRecv ==
    ASSUME Streamed, Recv PROVE Streamed'
<1>1. PICK n \in 1 .. Len(stream) : /\ buffer' = buffer \o SubSeq(stream, 1, n)
                                    /\ stream' = SubSeq(stream, n + 1, Len(stream))
  BY DEF Recv
<1>2. buffer \in Seq(Units) /\ stream \in Seq(Units)
  BY DEF Streamed, Strings
<1> DEFINE head == SubSeq(stream, 1, n)
           rest == SubSeq(stream, n + 1, Len(stream))
<1>3. head \in Seq(Units) /\ rest \in Seq(Units) /\ head \o rest = stream
  BY <1>2
<1>4. buffer' = buffer \o head /\ stream' = rest
  BY <1>1
<1> HIDE DEF head, rest
<1>5. buffer' \in Seq(Units) /\ stream' \in Seq(Units)
  BY <1>2, <1>3, <1>4, ConcatFacts
<1>6. Pending' = Pending
  <2>1. (buffer \o head) \o rest = buffer \o (head \o rest)
    <3>1. \A a, b, c \in Seq(Units) : (a \o b) \o c = a \o (b \o c)
      BY ConcatAgain
    <3> QED BY <1>2, <1>3, <3>1
  <2> QED BY <1>3, <1>4, <2>1 DEF Pending
<1>7. UNCHANGED << delivered, sent, received_data_callback, owner >>
  BY DEF Recv, UnchangedByReceiver
<1> QED BY <1>5, <1>6, <1>7 DEF Streamed, Strings, Known

(* Every step that leaves the stream, and what was taken out of it, alone. *)
LEMMA StreamStill ==
    ASSUME Streamed, UNCHANGED << buffer, stream, delivered, sent >>, Known'
    PROVE  Streamed'
  BY DEF Streamed, Strings, Pending

LEMMA StreamOwner ==
    ASSUME Streamed, OwnerStep \/ Disconnect PROVE Streamed'
<1>1. UNCHANGED << buffer, stream, delivered, sent >>
  BY DEF OwnerStep, Connect, Connected, SetCallback, Register, FindTimer, CancelTimer, ForgetTimer,
         CloseSocket, Disconnect, receiving, core
<1>2. CASE SetCallback
  <2>1. received_data_callback' = TRUE /\ owner' = "listening"
    BY <1>2 DEF SetCallback, OwnerGoto
  <2> QED BY <1>1, <2>1, StreamStill DEF Known
<1>3. CASE Connect \/ Connected
  <2>1. /\ received_data_callback' = received_data_callback
        /\ owner \in {"new", "connecting"} /\ owner' \in {"connecting", "initialized"}
    BY <1>3 DEF Connect, Connected, OwnerGoto
  <2>2. Known'
    BY <1>1, <2>1 DEF Streamed, Known
  <2> QED BY <1>1, <2>2, StreamStill
<1>4. CASE Register \/ FindTimer \/ CancelTimer \/ ForgetTimer \/ CloseSocket \/ Disconnect
  <2>1. /\ received_data_callback' = received_data_callback
        /\ owner \notin {"new", "connecting", "initialized"}
        /\ owner' \notin {"new", "connecting", "initialized"}
    BY <1>4 DEF Register, FindTimer, CancelTimer, ForgetTimer, CloseSocket, Disconnect, OwnerGoto
  <2>2. Known'
    BY <1>1, <2>1 DEF Streamed, Known
  <2> QED BY <1>1, <2>2, StreamStill
<1> QED BY <1>2, <1>3, <1>4 DEF OwnerStep

LEMMA StreamDeliver ==
    ASSUME Streamed, Deliver PROVE Streamed'
<1> DEFINE T == Pending
           U == Pending'
           L == buffer[2].value
           k == L + 2
<1>1. buffer \in Seq(Units) /\ stream \in Seq(Units) /\ delivered \in Seq(Nat) /\ sent \in Seq(FrameKinds)
  BY DEF Streamed, Strings
<1>2. /\ Len(buffer) >= 2 /\ buffer[1].unit = "magic" /\ L \in 1 .. MaxLength
      /\ ~ (Len(buffer) < 2 + L)
  BY DEF Deliver, Malformed, Incomplete, HeaderLen, LengthField
<1>3. /\ buffer' = SubSeq(buffer, 2 + L + 1, Len(buffer)) /\ stream' = stream
      /\ sent' = sent /\ received_data_callback' = received_data_callback /\ owner' = owner
  BY DEF Deliver, UnchangedByReceiver, HeaderLen, LengthField
<1>4. delivered' = IF buffer[3].unit = "data" /\ received_data_callback
                   THEN Append(delivered, buffer[3].value) ELSE delivered
  BY DEF Deliver
<1> HIDE DEF L
<1>5. /\ L \in Nat /\ L >= 1 /\ Len(buffer) \in Nat /\ Len(stream) \in Nat
      /\ k \in 0 .. Len(buffer) /\ k \in Nat /\ k = L + 2 /\ k + 1 = 2 + L + 1
      /\ 1 \in 1 .. Len(buffer) /\ 2 \in 1 .. Len(buffer) /\ 3 \in 1 .. Len(buffer)
  BY <1>1, <1>2
<1>6. buffer' = SubSeq(buffer, k + 1, Len(buffer))
  BY <1>3, <1>5
<1> HIDE DEF k
<1>7. T \in Seq(Units) /\ Len(T) = Len(buffer) + Len(stream)
      /\ \A i \in 1 .. Len(buffer) + Len(stream) :
            T[i] = IF i <= Len(buffer) THEN buffer[i] ELSE stream[i - Len(buffer)]
  BY <1>1, ConcatFacts DEF Pending
<1>8. SubSeq(buffer, k + 1, Len(buffer)) \in Seq(Units)
  BY <1>1, <1>5, CutFacts
<1>9. U = SubSeq(buffer, k + 1, Len(buffer)) \o stream /\ T = buffer \o stream
  BY <1>3, <1>6 DEF Pending
<1> HIDE DEF T, U
<1>10. U \in Seq(Units)
  BY <1>1, <1>8, <1>9, ConcatFacts
<1>11. Len(U) = Len(T) - k /\ \A i \in 1 .. Len(U) : U[i] = T[i + k]
  <2> DEFINE V == SubSeq(buffer, k + 1, Len(buffer)) \o stream
  <2>1. /\ Len(V) = Len(buffer \o stream) - k
        /\ \A i \in 1 .. Len(V) : V[i] = (buffer \o stream)[i + k]
    <3>1. \A j \in 0 .. Len(buffer) :
             LET W == SubSeq(buffer, j + 1, Len(buffer)) \o stream
             IN  /\ Len(W) = Len(buffer \o stream) - j
                 /\ \A i \in 1 .. Len(W) : W[i] = (buffer \o stream)[i + j]
      BY <1>1, CutFacts
    <3> QED BY <1>5, <3>1
  <2> HIDE DEF V
  <2>2. U = V
    BY <1>9 DEF V
  <2> QED BY <1>9, <2>1, <2>2
<1>12. T[1] = buffer[1] /\ T[2] = buffer[2] /\ T[3] = buffer[3] /\ Len(T) >= k
  BY <1>5, <1>7
<1>13. T[1].unit = "magic" /\ T[2].value = L /\ L \in 1 .. MaxLength
  BY <1>2, <1>12 DEF L
<1>14. InStream(T, sent, delivered) /\ Known
  BY DEF Streamed, T
<1>15. received_data_callback
  <2>1. Framed(T) /\ Numbered(T, sent)
    BY <1>14 DEF InStream
  <2>2. HeadAt(T, 1) /\ EndOf(T, 1) = k /\ 3 \in 1 + 2 .. k /\ 1 \in 1 .. Len(T) /\ 3 \in 1 .. Len(T)
    BY <1>5, <1>7, <1>13 DEF HeadAt, EndOf
  <2>3. BodyAt(T, 3)
    BY <2>1, <2>2 DEF Framed
  <2>4. DOMAIN sent # {}
    BY <2>1, <2>2, <2>3 DEF Numbered
  <2>5. sent # << >>
    BY <2>4
  <2> QED BY <1>14, <2>5 DEF Known
<1>16. delivered' = IF T[3].unit = "data" THEN Append(delivered, T[3].value) ELSE delivered
  BY <1>4, <1>12, <1>15
<1>17. InStream(U, sent, delivered') /\ delivered' \in Seq(Nat)
  <2>1. FirstFrame(T, k)
    BY <1>5, <1>12, <1>13 DEF FirstFrame
  <2>2. Dropped(T, U, k) /\ Passed(T, delivered, delivered')
    BY <1>11, <1>16 DEF Dropped, Passed
  <2>3. T \in Seq(Units) /\ k \in Nat
    BY <1>5, <1>7
  <2> QED BY <1>1, <1>10, <1>14, <2>1, <2>2, <2>3, DropFirst
<1>18. InStream(Pending', sent', delivered') /\ Strings'
  BY <1>1, <1>3, <1>6, <1>8, <1>17 DEF U, Strings
<1>19. Known'
  BY <1>3, <1>14 DEF Known
<1> QED BY <1>18, <1>19 DEF Streamed

LEMMA StreamSend ==
    ASSUME Streamed, NEW kind \in FrameKinds, NEW length \in Lengths(kind), CoreSends(kind, length)
    PROVE  Streamed'
<1>1. buffer \in Seq(Units) /\ stream \in Seq(Units) /\ delivered \in Seq(Nat) /\ sent \in Seq(FrameKinds)
  BY DEF Streamed, Strings
<1>2. /\ sent' = Append(sent, kind) /\ stream' = stream \o Frame(kind, length, Len(sent'))
      /\ UNCHANGED << buffer, delivered, owner, received_data_callback >>
      /\ owner \notin {"new", "connecting", "initialized"}
  BY DEF CoreSends, receiving
<1>3. Len(sent') = Len(sent) + 1 /\ Len(sent) + 1 \in Nat /\ sent' \in Seq(FrameKinds)
  BY <1>1, <1>2
<1> DEFINE F == Frame(kind, length, Len(sent) + 1)
<1>4. F \in Seq(Units)
  BY <1>3, FrameFacts
<1>5. stream' = stream \o F
  BY <1>2, <1>3
<1>6. Pending \in Seq(Units)
  BY <1>1, ConcatFacts DEF Pending
<1>7. InStream(Pending, sent, delivered) /\ Known
  BY DEF Streamed
<1>8. InStream(Pending \o F, Append(sent, kind), delivered)
  BY <1>1, <1>6, <1>7, AddLast
<1> HIDE DEF F
<1>9. stream' \in Seq(Units)
  BY <1>1, <1>4, <1>5, ConcatFacts
<1>10. Pending' = Pending \o F
  <2>1. \A a, b, c \in Seq(Units) : (a \o b) \o c = a \o (b \o c)
    BY ConcatAgain
  <2>2. (buffer \o stream) \o F = buffer \o (stream \o F)
    BY <1>1, <1>4, <2>1
  <2> QED BY <1>2, <1>5, <2>2 DEF Pending
<1>11. InStream(Pending', sent', delivered')
  BY <1>2, <1>8, <1>10
<1>12. Strings'
  BY <1>1, <1>2, <1>3, <1>9 DEF Strings
<1>13. Known'
  BY <1>2, <1>7 DEF Known
<1> QED BY <1>11, <1>12, <1>13 DEF Streamed

LEMMA StreamNext ==
    ASSUME Streamed, [Next]_vars PROVE Streamed'
<1>1. CASE OwnerStep \/ Disconnect
  BY <1>1, StreamOwner
<1>2. CASE Recv
  BY <1>2, StreamRecv
<1>3. CASE Deliver
  BY <1>3, StreamDeliver
<1>4. CASE \E kind \in FrameKinds \ ({"garbage", "badlength"} \ Env) :
              \E length \in Lengths(kind) : CoreSends(kind, length)
  BY <1>4, StreamSend
<1>5. CASE \/ \E i \in 0 .. MaxBeats : BeatStep(i)
           \/ Loop \/ RecvEnds \/ AwaitMore \/ Refuse \/ CoreHangsUp \/ Quiet \/ UNCHANGED vars
  <2>1. UNCHANGED << buffer, stream, delivered, sent, received_data_callback, owner >>
    <3>1. CASE \E i \in 0 .. MaxBeats : BeatStep(i)
      BY <3>1 DEF BeatStep, Fire, Check, Write, Again, Assign, Daemon, Start, UnchangedByBeats,
                  receiving, core
    <3>2. CASE Loop \/ RecvEnds \/ AwaitMore \/ Refuse
      BY <3>2 DEF Loop, RecvEnds, AwaitMore, Refuse, UnchangedByReceiver
    <3>3. CASE CoreHangsUp \/ Quiet \/ UNCHANGED vars
      BY <3>3 DEF CoreHangsUp, Quiet, vars, receiving, core
    <3> QED BY <1>5, <3>1, <3>2, <3>3
  <2>2. Known'
    BY <2>1 DEF Streamed, Known
  <2> QED BY <2>1, <2>2, StreamStill
<1> QED BY <1>1, <1>2, <1>3, <1>4, <1>5 DEF Next, ReceiverStep

(* The inductive invariant behind the next two theorems.                   *)
THEOREM StreamedAlways == Spec => []Streamed
  BY StreamInit, StreamNext, PTL DEF Spec

(* However recv cuts the stream (receive_data and _process_buffer,         *)
(* tcpclient.py:87), the callback is given the messages that were sent, in *)
(* their order, each once, none left out and none after a malformed frame, *)
(* for every number and length of messages.                                *)
THEOREM FramingIsFaithful == Spec => []DeliveredInOrder
<1>1. Streamed => DeliveredInOrder
  <2> SUFFICES ASSUME Streamed PROVE DeliveredInOrder
    OBVIOUS
  <2>1. \A n : n \in Messages <=> IsMessage(sent, n)
    BY DEF Messages, BadFrames, IsMessage, IsBad
  <2>2. /\ PassedOn(sent, delivered) /\ Complete(Pending, sent, delivered)
        /\ Ahead(Pending, delivered)
    BY DEF Streamed, InStream
  <2>3. \A d : d \in Range(delivered) <=> \E i \in DOMAIN delivered : delivered[i] = d
    BY DEF Range
  <2>4. ASSUME NEW n \in Messages, NEW d \in Range(delivered), n < d
        PROVE  n \in Range(delivered)
    <3>1. PICK i \in DOMAIN delivered : delivered[i] = d
      BY <2>3
    <3>2. n \in DOMAIN sent /\ sent[n] = "data"
      BY DEF Messages
    <3>3. CASE \E q \in 1 .. Len(Pending) : Pending[q].unit = "data" /\ Pending[q].value = n
      <4>1. d < n
        BY <2>2, <3>1, <3>3 DEF Ahead, BodyAt, FrameKinds
      <4>2. n \in Nat /\ d \in Nat
        BY <3>1, <3>2, SeqElements DEF Streamed, Strings
      <4> QED BY <2>4, <4>1, <4>2
    <3> QED BY <2>2, <2>3, <3>2, <3>3 DEF Complete
  <2> QED BY <2>1, <2>2, <2>4 DEF DeliveredInOrder, PassedOn
<1> QED BY <1>1, StreamedAlways, PTL

-----------------------------------------------------------------------------
(* Type correctness.                                                       *)

Plain ==
    /\ closed \in BOOLEAN /\ hungUp \in BOOLEAN
    /\ receiver \in {"none", "loop", "recv", "process", "ended"}

LEMMA PlainNext ==
    ASSUME Plain, [Next]_vars PROVE Plain'
<1>1. CASE OwnerStep \/ Disconnect
  BY <1>1 DEF OwnerStep, Connect, Connected, SetCallback, Register, FindTimer, CancelTimer, ForgetTimer,
              CloseSocket, Disconnect, OwnerGoto, receiving, core, Plain
<1>2. CASE \E i \in 0 .. MaxBeats : BeatStep(i)
  BY <1>2 DEF BeatStep, Fire, Check, Write, Again, Assign, Daemon, Start, UnchangedByBeats,
              receiving, core, Plain
<1>3. CASE ReceiverStep
  BY <1>3 DEF ReceiverStep, Loop, Recv, RecvEnds, AwaitMore, Refuse, Deliver, ReceiverGoto,
              UnchangedByReceiver, Plain
<1>4. CASE \E kind \in FrameKinds \ ({"garbage", "badlength"} \ Env) :
              \E length \in Lengths(kind) : CoreSends(kind, length)
  BY <1>4 DEF CoreSends, receiving, Plain
<1>5. CASE CoreHangsUp \/ Quiet \/ UNCHANGED vars
  BY <1>5 DEF CoreHangsUp, Quiet, vars, receiving, core, Plain
<1> QED BY <1>1, <1>2, <1>3, <1>4, <1>5 DEF Next

(* Each variable has its type, what is delivered was sent, and the         *)
(* callback is set whenever the Core knows the owner, which init sees to   *)
(* (OpenSocketResponser.py:22, SignalSubscriber.py:19).                    *)
THEOREM ConnectionTypeCorrect == Spec => []TypeOK
<1>1. Init => Plain
  BY DEF Init, Plain
<1>2. Beating /\ Plain /\ Streamed => TypeOK
  <2> SUFFICES ASSUME Beating, Plain, Streamed PROVE TypeOK
    OBVIOUS
  <2>1. Strings /\ Known /\ PassedOn(sent, delivered)
    BY DEF Streamed, InStream
  <2>2. {connected, closed, received_data_callback, hungUp} \subseteq BOOLEAN
    BY <2>1 DEF Beating, Plain, Known
  <2>3. \A u \in Range(buffer) \cup Range(stream) :
           u.unit \in FrameKinds \cup {"magic", "other", "length"} /\ u.value \in Nat
    BY <2>1, SeqElements, UnitFacts DEF Range, Strings
  <2>4. delivered \in Seq(1 .. Len(sent))
    <3>1. \A i \in DOMAIN delivered : delivered[i] \in DOMAIN sent
      BY <2>1 DEF PassedOn, IsMessage
    <3>2. /\ Len(delivered) \in Nat /\ DOMAIN delivered = 1 .. Len(delivered)
          /\ DOMAIN sent = 1 .. Len(sent)
      BY <2>1, SeqElements DEF Strings
    <3> DEFINE f == [i \in 1 .. Len(delivered) |-> delivered[i]]
    <3>3. f \in [1 .. Len(delivered) -> 1 .. Len(sent)]
      BY <3>1, <3>2
    <3>4. delivered = f
      BY <2>1 DEF Strings
    <3> QED BY <3>2, <3>3, <3>4
  <2>5. /\ owner \in {"new", "connecting", "initialized", "listening", "open",
                      "disconnecting", "cancelling", "forgetting", "closing", "closed"}
        /\ received_data_callback <=> owner \notin {"new", "connecting", "initialized"}
    BY <2>1 DEF Beating, OwnerPcs, Up, Known
  <2>6. heart_beat_timer \in 0 .. MaxBeats
        /\ beat \in [0 .. MaxBeats ->
                        {"none", "created", "armed", "cancelled", "check", "write",
                         "again", "assign", "daemon", "start", "over"}]
    <3>1. BeatPcs = {"none", "created", "armed", "cancelled", "check", "write",
                     "again", "assign", "daemon", "start", "over"}
      BY DEF BeatPcs, Live
    <3> QED BY <3>1 DEF Beating
  <2>7. sent \in Seq(FrameKinds)
    BY <2>1 DEF Strings
  <2> QED BY <2>2, <2>3, <2>4, <2>5, <2>6, <2>7 DEF TypeOK, Plain
<1>3. Beating /\ Turn /\ [Next]_vars => Beating' /\ Turn'
  BY TurnNext
<1>4. Plain /\ [Next]_vars => Plain'
  BY PlainNext
<1> QED BY <1>1, <1>2, <1>3, <1>4, TurnInit, StreamedAlways, PTL DEF Spec
=============================================================================
