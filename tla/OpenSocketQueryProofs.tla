------------------------ MODULE OpenSocketQueryProofs ------------------------
(***************************************************************************)
(* What TLAPS proves about OpenSocketQuery, for every number of queries    *)
(* and every interleaving of the threads.                                  *)
(***************************************************************************)
EXTENDS OpenSocketQuery, TLAPS

-----------------------------------------------------------------------------
(* Sequences of queries and answers.                                       *)

LEMMA SeqElements ==
    ASSUME NEW S, NEW s \in Seq(S)
    PROVE  /\ Len(s) \in Nat /\ DOMAIN s = 1 .. Len(s)
           /\ \A i \in DOMAIN s : s[i] \in S
  OBVIOUS

LEMMA WidenSeq ==
    ASSUME NEW S, NEW T, S \subseteq T, NEW s \in Seq(S)
    PROVE  s \in Seq(T)
<1> DEFINE f == [i \in 1 .. Len(s) |-> s[i]]
<1>1. s = f
  OBVIOUS
<1>2. f \in [1 .. Len(s) -> T]
  BY SeqElements
<1>3. f \in Seq(T)
  BY <1>2, SeqElements
<1> QED BY <1>1, <1>3

LEMMA TailFacts ==
    ASSUME NEW S, NEW s \in Seq(S), s # << >>
    PROVE  /\ Tail(s) \in Seq(S)
           /\ Head(s) = s[1] /\ Head(s) \in S /\ 1 \in DOMAIN s
           /\ \A i \in DOMAIN Tail(s) : i + 1 \in DOMAIN s /\ Tail(s)[i] = s[i + 1]
  OBVIOUS

LEMMA AppendFacts ==
    ASSUME NEW S, NEW s \in Seq(S), NEW x \in S
    PROVE  /\ Append(s, x) \in Seq(S)
           /\ DOMAIN Append(s, x) = DOMAIN s \cup {Len(s) + 1}
           /\ Append(s, x)[Len(s) + 1] = x
           /\ \A i \in DOMAIN s : i < Len(s) + 1 /\ Append(s, x)[i] = s[i]
  OBVIOUS

LEMMA PrefixFacts ==
    ASSUME NEW S, NEW s \in Seq(S), NEW n \in 0 .. Len(s)
    PROVE  /\ SubSeq(s, 1, n) \in Seq(S)
           /\ \A i \in DOMAIN SubSeq(s, 1, n) : i \in DOMAIN s /\ SubSeq(s, 1, n)[i] = s[i]
<1>1. SubSeq(s, 1, n) = [i \in 1 .. n |-> s[i]]
  OBVIOUS
<1> DEFINE t == [i \in 1 .. n |-> s[i]]
<1>2. t \in Seq(S) /\ DOMAIN t = 1 .. n
  OBVIOUS
<1> QED BY <1>1, <1>2

LEMMA OrderedTail ==
    ASSUME NEW s \in Seq(Nat), s # << >>, Ordered(s)
    PROVE  /\ Ordered(Tail(s))
           /\ \A i \in DOMAIN Tail(s) : Head(s) < Tail(s)[i]
<1>1. \A i \in DOMAIN Tail(s) : i \in Nat /\ i + 1 \in DOMAIN s /\ Tail(s)[i] = s[i + 1] /\ 1 < i + 1
  BY TailFacts
<1>2. Head(s) = s[1] /\ 1 \in DOMAIN s
  BY TailFacts
<1> QED BY <1>1, <1>2 DEF Ordered

LEMMA OrderedAppend ==
    ASSUME NEW s \in Seq(Nat), Ordered(s), NEW x \in Nat,
           \A i \in DOMAIN s : s[i] < x
    PROVE  Ordered(Append(s, x))
<1>1. SUFFICES ASSUME NEW i \in DOMAIN Append(s, x), NEW j \in DOMAIN Append(s, x), i < j
               PROVE  Append(s, x)[i] < Append(s, x)[j]
  BY DEF Ordered
<1>2. i \in DOMAIN s /\ i \in Nat
  BY <1>1, AppendFacts
<1>3. CASE j \in DOMAIN s
  BY <1>1, <1>2, <1>3, AppendFacts DEF Ordered
<1>4. CASE j = Len(s) + 1
  BY <1>2, <1>4, AppendFacts
<1> QED BY <1>3, <1>4, AppendFacts

LEMMA OrderedPrefix ==
    ASSUME NEW s \in Seq(Nat), Ordered(s), NEW n \in 0 .. Len(s)
    PROVE  Ordered(SubSeq(s, 1, n))
  BY PrefixFacts DEF Ordered

-----------------------------------------------------------------------------
(* What TypeOK says of the wires.                                          *)
LEMMA WireFacts ==
    ASSUME TypeOK
    PROVE  /\ asked \in Nat /\ MaxQueries \in Nat /\ asked <= MaxQueries
           /\ toCore \in Seq(Nat) /\ fromCore \in Seq(Nat)
           /\ \A j \in DOMAIN toCore : toCore[j] \in 1 .. asked
           /\ \A i \in DOMAIN fromCore : fromCore[i] \in 1 .. asked
           /\ query_result \in Nat
           /\ \A n \in Queries : answer[n] \in 0 .. asked
           /\ \A a \in given : a \in 1 .. asked
<1>1. asked \in Nat /\ MaxQueries \in Nat /\ asked <= MaxQueries /\ query_result \in Nat
  BY OpenSocketQueryAssumption DEF TypeOK
<1>2. toCore \in Seq(1 .. asked) /\ fromCore \in Seq(1 .. asked)
  BY DEF TypeOK
<1>3. /\ \A j \in DOMAIN toCore : toCore[j] \in 1 .. asked
      /\ \A i \in DOMAIN fromCore : fromCore[i] \in 1 .. asked
  BY <1>2, SeqElements
<1>4. toCore \in Seq(Nat) /\ fromCore \in Seq(Nat)
  <2>1. 1 .. asked \subseteq Nat
    BY <1>1
  <2> QED BY <1>2, <2>1, WidenSeq
<1>5. \A n \in Queries : answer[n] \in 0 .. asked
  BY DEF TypeOK
<1>6. \A a \in given : a \in 1 .. asked
  BY DEF TypeOK
<1> QED BY <1>1, <1>3, <1>4, <1>5, <1>6

(* Nothing is asked yet, and nothing on its way.                           *)
THEOREM AccountedInit == ClientInit => Accounted
<1> SUFFICES ASSUME ClientInit PROVE Accounted
  OBVIOUS
<1>0. MaxQueries \in Nat
  BY OpenSocketQueryAssumption
<1>1. toCore = << >> /\ fromCore = << >> /\ DOMAIN toCore = {} /\ DOMAIN fromCore = {}
  BY DEF ClientInit
<1>2. TypeOK
  <2>1. toCore \in Seq(1 .. asked) /\ fromCore \in Seq(1 .. asked)
    BY <1>1
  <2>2. /\ timed \in BOOLEAN /\ query_event \in BOOLEAN /\ is_querying \in BOOLEAN
        /\ timeout_occurred \in BOOLEAN /\ connected \in BOOLEAN
        /\ is_querying <=> caller # "idle"
    BY DEF ClientInit
  <2>3. /\ outcome \in [Queries -> {"none", "answer", "async", "timeout", "no_answer"}]
        /\ answer \in [Queries -> 0 .. asked] /\ given \subseteq 1 .. asked
    BY DEF ClientInit, None
  <2>4. asked \in 0 .. MaxQueries /\ query_result \in 0 .. asked
    BY <1>0 DEF ClientInit, None
  <2> QED BY <2>1, <2>2, <2>3, <2>4 DEF ClientInit, TypeOK
<1>3. InOrder
  BY <1>1 DEF ClientInit, InOrder, Ordered
<1>4. Kept /\ Woken
  BY DEF ClientInit, Kept, Woken
<1>5. Answered
  BY <1>0 DEF ClientInit, Answered, Queries, None
<1>6. AnswersAreUsedOnce /\ NoAnswerOnlyAfterClose
  BY DEF ClientInit, AnswersAreUsedOnce, NoAnswerOnlyAfterClose
<1> QED BY <1>2, <1>3, <1>4, <1>5, <1>6 DEF Accounted

-----------------------------------------------------------------------------
(* The steps of the calling thread.                                        *)

(* A new query resets what is kept of the one before.                      *)
LEMMA BeginAccounted ==
    ASSUME Accounted, Begin PROVE Accounted'
<1>0. TypeOK
  BY DEF Accounted
<1>1. /\ caller = "idle" /\ caller' = "sending" /\ asked < MaxQueries /\ asked' = asked + 1
      /\ query_result' = None /\ query_event' = FALSE /\ is_querying' = TRUE
      /\ timeout_occurred' = FALSE /\ timed' \in BOOLEAN
      /\ UNCHANGED << connected, closing, outcome, answer, given, toCore, fromCore >>
  BY DEF Begin, CallerGoto, wire
<1>2. asked' \in 0 .. MaxQueries /\ asked' \in Nat /\ asked <= asked' /\ asked' \in Queries
  BY <1>0, <1>1, WireFacts DEF Queries
<1>3. TypeOK'
  <2>1. toCore' \in Seq(1 .. asked') /\ fromCore' \in Seq(1 .. asked')
    <3>1. toCore \in Seq(1 .. asked) /\ fromCore \in Seq(1 .. asked)
      BY <1>0 DEF TypeOK
    <3>2. 1 .. asked \subseteq 1 .. asked'
      BY <1>0, <1>1, WireFacts
    <3>3. toCore \in Seq(1 .. asked') /\ fromCore \in Seq(1 .. asked')
      BY <3>1, <3>2, WidenSeq
    <3> QED BY <3>3, <1>1
  <2>2. answer' \in [Queries -> 0 .. asked'] /\ given' \subseteq 1 .. asked'
    BY <1>0, <1>1, <1>2, WireFacts DEF TypeOK
  <2>3. query_result' \in 0 .. asked'
    BY <1>1, <1>2 DEF None
  <2>4. /\ timed' \in BOOLEAN /\ query_event' \in BOOLEAN /\ is_querying' \in BOOLEAN
        /\ timeout_occurred' \in BOOLEAN /\ connected' \in BOOLEAN
        /\ is_querying' <=> caller' # "idle"
    BY <1>0, <1>1 DEF TypeOK
  <2>5. /\ closing' \in {"open", "closing", "closed"}
        /\ outcome' \in [Queries -> {"none", "answer", "async", "timeout", "no_answer"}]
    BY <1>0, <1>1 DEF TypeOK
  <2> QED BY <1>1, <1>2, <2>1, <2>2, <2>3, <2>4, <2>5 DEF TypeOK
<1>4. InOrder'
  <2>1. /\ \A i \in DOMAIN fromCore : fromCore[i] < asked'
        /\ \A j \in DOMAIN toCore : toCore[j] < asked'
        /\ \A a \in given : a < asked'
        /\ \A n \in Queries : answer[n] < asked'
    BY <1>0, <1>1, WireFacts
  <2>2. \A m \in Nat : m # 0 /\ Later(m) => Later(m)'
    BY <1>1 DEF Later, None
  <2>3. Later(asked)'
    BY <1>1, <1>2, <2>1 DEF Later, None, Queries
  <2>4. /\ \A i \in DOMAIN fromCore : fromCore[i] \in Nat /\ fromCore[i] # 0
        /\ \A j \in DOMAIN toCore : toCore[j] \in Nat /\ toCore[j] # 0
    BY <1>0, WireFacts
  <2>5. /\ \A i \in DOMAIN fromCore : Later(fromCore[i])'
        /\ \A j \in DOMAIN toCore : Later(toCore[j])'
    BY <1>1, <2>2, <2>4 DEF Accounted, InOrder, Later, None
  <2> QED BY <1>1, <2>1, <2>3, <2>5 DEF Accounted, InOrder, Ordered
<1>5. Kept'
  BY <1>1, <1>2, WireFacts, <1>0 DEF Accounted, Kept, Answered, Queries
<1>6. Answered'
  BY <1>0, <1>1, <1>2, WireFacts DEF Accounted, Answered, Queries
<1>7. Woken'
  BY <1>1 DEF Woken
<1>8. AnswersAreUsedOnce' /\ NoAnswerOnlyAfterClose'
  BY <1>1 DEF Accounted, AnswersAreUsedOnce, NoAnswerOnlyAfterClose
<1> QED BY <1>3, <1>4, <1>5, <1>6, <1>7, <1>8 DEF Accounted

(* A query on its way is later than all the wire holds.                    *)
LEMMA SentFacts ==
    ASSUME NEW s \in Seq(Nat), Ordered(s), NEW n \in Nat, \A j \in DOMAIN s : s[j] < n
    PROVE  /\ Append(s, n) \in Seq(Nat) /\ Ordered(Append(s, n))
           /\ \A j \in DOMAIN Append(s, n) :
                 Append(s, n)[j] = n \/ (j \in DOMAIN s /\ Append(s, n)[j] = s[j])
<1>1. Append(s, n) \in Seq(Nat) /\ Ordered(Append(s, n))
  BY OrderedAppend, AppendFacts
<1>2. \A j \in DOMAIN Append(s, n) :
         Append(s, n)[j] = n \/ (j \in DOMAIN s /\ Append(s, n)[j] = s[j])
  BY AppendFacts
<1> QED BY <1>1, <1>2

(* A sequence of numbers of queries made.                                  *)
LEMMA InSeq ==
    ASSUME NEW s \in Seq(Nat), NEW S, \A i \in DOMAIN s : s[i] \in S
    PROVE  s \in Seq(S)
<1> DEFINE f == [i \in 1 .. Len(s) |-> s[i]]
<1>1. s = f /\ DOMAIN s = 1 .. Len(s) /\ Len(s) \in Nat
  OBVIOUS
<1>2. f \in [1 .. Len(s) -> S]
  BY <1>1
<1>3. f \in Seq(S)
  BY <1>1, <1>2
<1> QED BY <1>1, <1>3

(* The query goes on the wire, or nowhere.                                 *)
LEMMA SendAccounted ==
    ASSUME Accounted, Send PROVE Accounted'
<1>0. TypeOK
  BY DEF Accounted
<1>1. /\ caller = "sending" /\ caller' = "waiting"
      /\ toCore' = IF connected THEN Append(toCore, asked) ELSE toCore
      /\ UNCHANGED << asked, timed, outcome, answer, shared, connected, closing, given, fromCore >>
  BY DEF Send, Sent, CallerGoto
<1>2. /\ UNCHANGED << query_result, query_event, is_querying, timeout_occurred >>
      /\ UNCHANGED << asked, timed, outcome, answer, connected, closing, given, fromCore >>
  BY <1>1 DEF shared
<1>3. /\ asked \in Nat /\ asked \in 1 .. MaxQueries /\ Later(asked)
      /\ \A i \in DOMAIN fromCore : fromCore[i] < asked
      /\ \A j \in DOMAIN toCore : toCore[j] < asked
  BY <1>0, <1>1, WireFacts DEF Accounted, Kept, InOrder, Queries
<1>4. /\ toCore' \in Seq(Nat) /\ Ordered(toCore')
      /\ \A j \in DOMAIN toCore' : toCore'[j] = asked \/ (j \in DOMAIN toCore /\ toCore'[j] = toCore[j])
  <2>1. toCore \in Seq(Nat) /\ Ordered(toCore)
    BY <1>0, WireFacts DEF Accounted, InOrder
  <2>2. CASE connected
    <3>1. toCore' = Append(toCore, asked)
      BY <1>1, <2>2
    <3>2. /\ Append(toCore, asked) \in Seq(Nat) /\ Ordered(Append(toCore, asked))
          /\ \A j \in DOMAIN Append(toCore, asked) :
                \/ Append(toCore, asked)[j] = asked
                \/ j \in DOMAIN toCore /\ Append(toCore, asked)[j] = toCore[j]
      BY <1>3, <2>1, SentFacts
    <3> QED BY <3>1, <3>2
  <2>3. CASE ~ connected
    BY <1>1, <2>1, <2>3
  <2> QED BY <2>2, <2>3
<1>5. TypeOK'
  <2>1. \A j \in DOMAIN toCore' : toCore'[j] \in 1 .. asked
    BY <1>0, <1>3, <1>4, WireFacts
  <2>2. toCore' \in Seq(1 .. asked)
    BY <1>4, <2>1, InSeq
  <2>3. is_querying' <=> caller' # "idle"
    BY <1>0, <1>1, <1>2 DEF TypeOK
  <2> QED BY <1>0, <1>1, <1>2, <2>2, <2>3 DEF TypeOK
<1>6. InOrder'
  <2>1. \A j \in DOMAIN toCore' : Later(toCore'[j])
    BY <1>3, <1>4 DEF Accounted, InOrder
  <2>2. ASSUME NEW m PROVE Later(m) => /\ query_result' < m
                                       /\ \A a \in given' : a < m
                                       /\ \A n \in Queries : answer'[n] < m
    BY <1>2 DEF Later
  <2>3. \A j \in DOMAIN toCore' : Later(toCore[j])'
    BY <2>1, <2>2 DEF Later
  <2>4. \A i \in DOMAIN fromCore' : Later(fromCore[i])'
    BY <1>2 DEF Accounted, InOrder, Later
  <2>5. \A i \in DOMAIN fromCore', j \in DOMAIN toCore' : fromCore'[i] < toCore'[j]
    BY <1>2, <1>3, <1>4 DEF Accounted, InOrder
  <2>6. Ordered(toCore)' /\ Ordered(fromCore)'
    BY <1>2, <1>4 DEF Accounted, InOrder, Ordered
  <2> QED BY <1>1, <2>3, <2>4, <2>5, <2>6 DEF InOrder
<1>7. Kept' /\ Woken'
  BY <1>1, <1>2 DEF Accounted, Kept, Woken
<1>8. Answered' /\ AnswersAreUsedOnce' /\ NoAnswerOnlyAfterClose'
  BY <1>2 DEF Accounted, Answered, AnswersAreUsedOnce, NoAnswerOnlyAfterClose
<1> QED BY <1>5, <1>6, <1>7, <1>8 DEF Accounted

(* The caller wakes, or its time is out: nothing it shares changes.        *)
LEMMA WaitAccounted ==
    ASSUME Accounted, Wake \/ TimeOut PROVE Accounted'
<1>0. TypeOK
  BY DEF Accounted
<1>1. /\ caller = "waiting" /\ caller' \in {"woken", "late"}
      /\ caller' = "woken" => query_event
      /\ UNCHANGED << asked, timed, outcome, answer, query_result, query_event, is_querying >>
      /\ UNCHANGED << timeout_occurred, connected, closing, given, toCore, fromCore >>
  BY DEF Wake, TimeOut, CallerGoto, shared, wire
<1>2. TypeOK'
  <2>1. is_querying' <=> caller' # "idle"
    BY <1>0, <1>1 DEF TypeOK
  <2> QED BY <1>0, <1>1, <2>1 DEF TypeOK
<1>3. InOrder'
  BY <1>1 DEF Accounted, InOrder, Later, Ordered
<1>4. Kept' /\ Woken'
  BY <1>1 DEF Accounted, Kept, Woken
<1>5. Answered' /\ AnswersAreUsedOnce' /\ NoAnswerOnlyAfterClose'
  BY <1>1 DEF Accounted, Answered, AnswersAreUsedOnce, NoAnswerOnlyAfterClose
<1> QED BY <1>2, <1>3, <1>4, <1>5 DEF Accounted

(* The result that query returns is an answer no query has used.           *)
LEMMA ReturnAccounted ==
    ASSUME Accounted, Return PROVE Accounted'
<1>0. TypeOK
  BY DEF Accounted
<1> DEFINE result == IF query_result = None THEN "no_answer" ELSE "answer"
<1>1. /\ caller = "woken" /\ caller' = "idle" /\ is_querying' = FALSE
      /\ answer' = [answer EXCEPT ![asked] = query_result]
      /\ outcome' = [outcome EXCEPT ![asked] = result]
      /\ UNCHANGED << asked, timed, query_result, query_event, timeout_occurred >>
      /\ UNCHANGED << connected, closing, given, toCore, fromCore >>
  BY DEF Return, CallerGoto, wire
<1>2. asked \in Queries /\ asked \in Nat /\ query_result \in 0 .. asked /\ outcome[asked] = "none"
  BY <1>0, <1>1, WireFacts DEF Accounted, Kept, TypeOK
<1>3. \A n \in Queries : /\ answer'[n] = IF n = asked THEN query_result ELSE answer[n]
                         /\ outcome'[n] = IF n = asked THEN result ELSE outcome[n]
  BY <1>0, <1>1 DEF TypeOK
<1>4. TypeOK'
  <2>1. answer' \in [Queries -> 0 .. asked]
    BY <1>0, <1>1, <1>2 DEF TypeOK
  <2>2. outcome' \in [Queries -> {"none", "answer", "async", "timeout", "no_answer"}]
    BY <1>0, <1>1, <1>2 DEF TypeOK
  <2> QED BY <1>0, <1>1, <2>1, <2>2 DEF TypeOK
<1>5. InOrder'
  <2>1. \A m : Later(m) => Later(m)'
    BY <1>1, <1>3 DEF Later
  <2>2. /\ \A i \in DOMAIN fromCore : Later(fromCore[i])'
        /\ \A j \in DOMAIN toCore : Later(toCore[j])'
    BY <1>1, <1>3 DEF Accounted, InOrder, Later
  <2> QED BY <1>1, <2>2 DEF Accounted, InOrder, Ordered
<1>6. Kept' /\ Woken'
  BY <1>1 DEF Kept, Woken
<1>7. Answered'
  <2>1. SUFFICES ASSUME NEW n \in Queries
                 PROVE  /\ outcome'[n] = "answer" <=> answer'[n] # None
                        /\ answer'[n] <= n
                        /\ n > asked' => outcome'[n] = "none"
                        /\ (\A k \in 1 .. n - 1 : outcome'[k] = "answer") => answer'[n] \in {None, n}
    BY DEF Answered
  <2>2. CASE n # asked
    <3>1. outcome'[n] = outcome[n] /\ answer'[n] = answer[n] /\ asked' = asked
      BY <1>1, <1>3, <2>2
    <3>2. ASSUME \A k \in 1 .. n - 1 : outcome'[k] = "answer" PROVE answer[n] \in {None, n}
      <4>1. CASE n < asked
        <5>1. \A k \in 1 .. n - 1 : k \in Queries /\ k # asked
          BY <1>2, <4>1, OpenSocketQueryAssumption DEF Queries
        <5> QED BY <3>2, <5>1, <1>3 DEF Accounted, Answered
      <4>2. CASE n > asked
        BY <4>2 DEF Accounted, Answered
      <4> QED BY <1>2, <2>2, <4>1, <4>2 DEF Queries
    <3> QED BY <3>1, <3>2 DEF Accounted, Answered
  <2>3. CASE n = asked
    <3>1. answer'[n] = query_result /\ outcome'[n] = result /\ asked' = asked
      BY <1>1, <1>3, <2>3
    <3>2. ASSUME \A k \in 1 .. n - 1 : outcome'[k] = "answer" PROVE query_result \in {None, n}
      <4>1. \A k \in 1 .. n - 1 : k \in Nat /\ k \in Queries /\ outcome[k] = "answer"
        BY <1>2, <1>3, <2>3, <3>2, OpenSocketQueryAssumption DEF Queries
      <4>2. ASSUME NEW k \in 1 .. n - 1 PROVE answer[k] = k
        <5>1. \A l \in 1 .. k - 1 : l \in 1 .. n - 1
          BY <4>2, <2>3, <1>2
        <5> QED BY <4>1, <5>1 DEF Accounted, Answered
      <4>3. \A k \in 1 .. n - 1 : query_result # None => query_result # k
        BY <1>1, <4>1, <4>2 DEF Accounted, Kept
      <4> QED BY <1>2, <2>3, <4>3 DEF None
    <3> QED BY <1>2, <2>3, <3>1, <3>2
  <2> QED BY <2>2, <2>3
<1>8. AnswersAreUsedOnce'
  <2>1. query_result # None => query_result \notin given /\ \A n \in Queries : answer[n] # query_result
    BY <1>1 DEF Accounted, Kept
  <2> QED BY <1>1, <1>2, <1>3, <2>1 DEF Accounted, AnswersAreUsedOnce
<1>9. NoAnswerOnlyAfterClose'
  <2>1. query_result = None => closing # "open"
    BY <1>1 DEF Accounted, Woken
  <2> QED BY <1>1, <1>3, <2>1 DEF Accounted, NoAnswerOnlyAfterClose
<1> QED BY <1>4, <1>5, <1>6, <1>7, <1>8, <1>9 DEF Accounted

(* query raises: what was asked stays unanswered, and its answer is late.  *)
LEMMA RaiseAccounted ==
    ASSUME Accounted, Raise PROVE Accounted'
<1>0. TypeOK
  BY DEF Accounted
<1>1. /\ caller = "late" /\ caller' = "idle" /\ is_querying' = FALSE /\ timeout_occurred' = TRUE
      /\ outcome' = [outcome EXCEPT ![asked] = "timeout"]
      /\ UNCHANGED << asked, timed, answer, query_result, query_event >>
      /\ UNCHANGED << connected, closing, given, toCore, fromCore >>
  BY DEF Raise, CallerGoto, wire
<1>2. asked \in Queries /\ asked \in Nat /\ outcome[asked] = "none"
  BY <1>0, <1>1, WireFacts DEF Accounted, Kept
<1>3. \A n \in Queries : outcome'[n] = IF n = asked THEN "timeout" ELSE outcome[n]
  BY <1>0, <1>1 DEF TypeOK
<1>4. TypeOK'
  <2>1. outcome' \in [Queries -> {"none", "answer", "async", "timeout", "no_answer"}]
    BY <1>0, <1>1, <1>2 DEF TypeOK
  <2> QED BY <1>0, <1>1, <2>1 DEF TypeOK
<1>5. InOrder'
  BY <1>1 DEF Accounted, InOrder, Later, Ordered
<1>6. Kept' /\ Woken'
  BY <1>1 DEF Kept, Woken
<1>7. Answered'
  <2>1. answer[asked] = None
    BY <1>2 DEF Accounted, Answered
  <2>2. \A n \in Queries : n \in Nat
    BY DEF Queries
  <2>3. \A n \in Queries : \A k \in 1 .. n - 1 : k \in Queries
    BY OpenSocketQueryAssumption DEF Queries
  <2> QED BY <1>1, <1>2, <1>3, <2>1, <2>2, <2>3 DEF Accounted, Answered
<1>8. AnswersAreUsedOnce' /\ NoAnswerOnlyAfterClose'
  BY <1>1, <1>3 DEF Accounted, AnswersAreUsedOnce, NoAnswerOnlyAfterClose
<1> QED BY <1>4, <1>5, <1>6, <1>7, <1>8 DEF Accounted

(* query_async sends and waits for nothing.                                *)
LEMMA QueryAsyncAccounted ==
    ASSUME Accounted, QueryAsync PROVE Accounted'
<1>0. TypeOK
  BY DEF Accounted
<1>1. /\ caller = "idle" /\ asked < MaxQueries /\ asked' = asked + 1
      /\ toCore' = IF connected THEN Append(toCore, asked') ELSE toCore
      /\ outcome' = [outcome EXCEPT ![asked'] = "async"]
      /\ UNCHANGED << caller, timed, answer, query_result, query_event, is_querying >>
      /\ UNCHANGED << timeout_occurred, connected, closing, given, fromCore >>
  BY DEF QueryAsync, Sent, shared
<1>2. asked' \in Nat /\ asked' \in Queries /\ asked' \in 0 .. MaxQueries /\ asked < asked'
  BY <1>0, <1>1, WireFacts DEF Queries
<1>3. /\ \A i \in DOMAIN fromCore : fromCore[i] < asked'
      /\ \A j \in DOMAIN toCore : toCore[j] < asked'
      /\ \A a \in given : a < asked'
      /\ \A n \in Queries : answer[n] < asked'
      /\ query_result < asked'
  BY <1>0, <1>1, <1>2, WireFacts DEF TypeOK
<1>4. /\ toCore' \in Seq(Nat) /\ Ordered(toCore')
      /\ \A j \in DOMAIN toCore' : toCore'[j] = asked' \/ (j \in DOMAIN toCore /\ toCore'[j] = toCore[j])
  <2>1. toCore \in Seq(Nat) /\ Ordered(toCore)
    BY <1>0, WireFacts DEF Accounted, InOrder
  <2>2. CASE connected
    <3>1. toCore' = Append(toCore, asked')
      BY <1>1, <2>2
    <3>2. /\ Append(toCore, asked') \in Seq(Nat) /\ Ordered(Append(toCore, asked'))
          /\ \A j \in DOMAIN Append(toCore, asked') :
                \/ Append(toCore, asked')[j] = asked'
                \/ j \in DOMAIN toCore /\ Append(toCore, asked')[j] = toCore[j]
      BY <1>2, <1>3, <2>1, SentFacts
    <3> QED BY <3>1, <3>2
  <2>3. CASE ~ connected
    BY <1>1, <2>1, <2>3
  <2> QED BY <2>2, <2>3
<1>5. \A n \in Queries : outcome'[n] = IF n = asked' THEN "async" ELSE outcome[n]
  BY <1>0, <1>1 DEF TypeOK
<1>6. TypeOK'
  <2>1. \A j \in DOMAIN toCore' : toCore'[j] \in 1 .. asked'
    <3>1. asked \in Nat /\ \A j \in DOMAIN toCore : toCore[j] \in 1 .. asked
      BY <1>0, WireFacts
    <3>2. asked' \in 1 .. asked' /\ \A m \in 1 .. asked : m \in 1 .. asked'
      BY <1>1, <3>1
    <3> QED BY <1>4, <3>1, <3>2
  <2>2. toCore' \in Seq(1 .. asked')
    BY <1>4, <2>1, InSeq
  <2>3. fromCore' \in Seq(1 .. asked')
    <3>1. fromCore \in Seq(1 .. asked) /\ 1 .. asked \subseteq 1 .. asked'
      BY <1>0, <1>1, <1>2, WireFacts DEF TypeOK
    <3>2. fromCore \in Seq(1 .. asked')
      BY <3>1, WidenSeq
    <3> QED BY <1>1, <3>2
  <2>4. /\ answer' \in [Queries -> 0 .. asked'] /\ given' \subseteq 1 .. asked'
        /\ query_result' \in 0 .. asked'
    BY <1>0, <1>1, <1>2, WireFacts DEF TypeOK
  <2>5. outcome' \in [Queries -> {"none", "answer", "async", "timeout", "no_answer"}]
    BY <1>0, <1>1, <1>2 DEF TypeOK
  <2>6. is_querying' <=> caller' # "idle"
    BY <1>0, <1>1 DEF TypeOK
  <2> QED BY <1>0, <1>1, <1>2, <2>2, <2>3, <2>4, <2>5, <2>6 DEF TypeOK
<1>7. InOrder'
  <2>1. Later(asked')
    BY <1>3 DEF Later
  <2>2. \A j \in DOMAIN toCore' : Later(toCore'[j])
    BY <1>4, <2>1 DEF Accounted, InOrder
  <2>3. ASSUME NEW m PROVE Later(m) => /\ query_result' < m
                                       /\ \A a \in given' : a < m
                                       /\ \A n \in Queries : answer'[n] < m
    BY <1>1 DEF Later
  <2>4. \A j \in DOMAIN toCore' : Later(toCore[j])'
    BY <2>2, <2>3 DEF Later
  <2>5. \A i \in DOMAIN fromCore' : Later(fromCore[i])'
    BY <1>1 DEF Accounted, InOrder, Later
  <2>6. \A i \in DOMAIN fromCore', j \in DOMAIN toCore' : fromCore'[i] < toCore'[j]
    BY <1>1, <1>3, <1>4 DEF Accounted, InOrder
  <2>7. Ordered(toCore)' /\ Ordered(fromCore)'
    BY <1>1, <1>4 DEF Accounted, InOrder, Ordered
  <2> QED BY <1>1, <2>4, <2>5, <2>6, <2>7 DEF InOrder
<1>8. Kept' /\ Woken'
  BY <1>1 DEF Kept, Woken
<1>9. Answered'
  <2>1. outcome[asked'] = "none"
    BY <1>0, <1>2, WireFacts DEF Accounted, Answered
  <2>2. \A n \in Queries : n \in Nat /\ \A k \in 1 .. n - 1 : k \in Queries
    BY OpenSocketQueryAssumption DEF Queries
  <2>3. answer[asked'] = None
    BY <1>2, <2>1 DEF Accounted, Answered
  <2>4. SUFFICES ASSUME NEW n \in Queries
                 PROVE  /\ outcome'[n] = "answer" <=> answer[n] # None
                        /\ answer[n] <= n
                        /\ n > asked' => outcome'[n] = "none"
                        /\ (\A k \in 1 .. n - 1 : outcome'[k] = "answer") => answer[n] \in {None, n}
    BY <1>1 DEF Answered
  <2>5. \A k \in 1 .. n - 1 : outcome'[k] = "answer" => outcome[k] = "answer"
    BY <1>5, <2>2
  <2> QED BY <1>0, <1>1, <1>2, <1>5, <2>1, <2>2, <2>3, <2>5, WireFacts DEF Accounted, Answered
<1>10. AnswersAreUsedOnce' /\ NoAnswerOnlyAfterClose'
  BY <1>1, <1>5 DEF Accounted, AnswersAreUsedOnce, NoAnswerOnlyAfterClose
<1> QED BY <1>6, <1>7, <1>8, <1>9, <1>10 DEF Accounted

-----------------------------------------------------------------------------
(* The steps of the receiving thread, of disconnect and of the Core.       *)

(* The first answer is taken: it is later than all that arrived before it. *)
LEMMA ReceiveAccounted ==
    ASSUME Accounted, Receive PROVE Accounted'
<1>0. TypeOK
  BY DEF Accounted
<1> DEFINE head == Head(fromCore)
           mine == is_querying /\ ~ timeout_occurred
<1>1. /\ fromCore # << >> /\ fromCore' = Tail(fromCore)
      /\ mine => query_result' = head /\ query_event' = TRUE /\ given' = given
      /\ ~ mine => /\ given' = given \cup {head}
                   /\ query_result' = query_result /\ query_event' = query_event
      /\ UNCHANGED << caller, asked, timed, outcome, answer, is_querying, timeout_occurred >>
      /\ UNCHANGED << connected, closing, toCore >>
  BY DEF Receive, calling
<1> HIDE DEF mine, head
<1>2. /\ fromCore \in Seq(Nat) /\ Ordered(fromCore)
      /\ \A i \in DOMAIN fromCore : fromCore[i] \in 1 .. asked
  BY <1>0, WireFacts DEF Accounted, InOrder
<1>3. /\ head = fromCore[1] /\ 1 \in DOMAIN fromCore
      /\ fromCore' \in Seq(Nat)
      /\ \A i \in DOMAIN fromCore' : i + 1 \in DOMAIN fromCore /\ fromCore'[i] = fromCore[i + 1]
  BY <1>1, <1>2, TailFacts DEF head
<1>4. Ordered(fromCore') /\ \A i \in DOMAIN fromCore' : head < fromCore'[i]
  BY <1>1, <1>2, OrderedTail DEF head
<1>5. head \in 1 .. asked /\ Later(head) /\ \A j \in DOMAIN toCore : head < toCore[j]
  BY <1>2, <1>3 DEF Accounted, InOrder
<1>6. asked \in Nat /\ query_result \in 0 .. asked /\ given \subseteq 1 .. asked
  BY <1>0, WireFacts DEF TypeOK
<1>7. query_result' \in {query_result, head} /\ given' \subseteq given \cup {head}
  BY <1>1
<1>8. TypeOK'
  <2>1. \A i \in DOMAIN fromCore' : fromCore'[i] \in 1 .. asked
    BY <1>2, <1>3
  <2>2. fromCore' \in Seq(1 .. asked)
    BY <1>3, <2>1, InSeq
  <2>3. query_result' \in 0 .. asked /\ given' \subseteq 1 .. asked
    BY <1>5, <1>6, <1>7
  <2>4. query_event' \in BOOLEAN
    BY <1>0, <1>1 DEF TypeOK
  <2> QED BY <1>0, <1>1, <2>2, <2>3, <2>4 DEF TypeOK
<1>9. InOrder'
  <2>1. ASSUME NEW m, Later(m), head < m
        PROVE  /\ query_result' < m
               /\ \A a \in given' : a < m
               /\ \A n \in Queries : answer'[n] < m
    BY <1>1, <1>7, <2>1 DEF Later
  <2>2. \A j \in DOMAIN toCore' : Later(toCore[j])'
    BY <1>1, <1>5, <2>1 DEF Accounted, InOrder, Later
  <2>3. \A i \in DOMAIN fromCore' : Later(fromCore'[i]) /\ head < fromCore'[i]
    BY <1>3, <1>4 DEF Accounted, InOrder
  <2>4. \A i \in DOMAIN fromCore' : Later(fromCore[i])'
    BY <2>1, <2>3 DEF Later
  <2>5. \A i \in DOMAIN fromCore', j \in DOMAIN toCore' : fromCore'[i] < toCore'[j]
    BY <1>1, <1>3 DEF Accounted, InOrder
  <2>6. Ordered(toCore)' /\ Ordered(fromCore)'
    BY <1>1, <1>4 DEF Accounted, InOrder, Ordered
  <2>7. ASSUME caller' = "sending"
        PROVE  /\ \A i \in DOMAIN fromCore' : fromCore'[i] < asked'
               /\ \A j \in DOMAIN toCore' : toCore'[j] < asked'
               /\ Later(asked)'
    <3>1. head < asked /\ Later(asked)
      BY <1>1, <1>3, <2>7 DEF Accounted, InOrder
    <3>2. Later(asked)'
      BY <1>1, <2>1, <3>1 DEF Later
    <3> QED BY <1>1, <1>3, <2>7, <3>2 DEF Accounted, InOrder
  <2> QED BY <2>2, <2>4, <2>5, <2>6, <2>7 DEF InOrder
<1>10. Kept'
  <2>1. ASSUME caller # "idle", query_result' # None
        PROVE  query_result' \notin given' /\ \A n \in Queries : answer[n] # query_result'
    <3>1. CASE mine
      <4>1. query_result' = head /\ given' = given /\ head \in Nat
        BY <1>1, <1>5, <1>6, <3>1
      <4>2. \A a \in given : a \in Nat /\ a < head
        BY <1>5, <1>6 DEF Later
      <4>3. \A n \in Queries : answer[n] \in Nat /\ answer[n] < head
        BY <1>0, <1>5, WireFacts DEF Later
      <4> QED BY <4>1, <4>2, <4>3
    <3>2. CASE ~ mine
      <4>1. query_result' = query_result /\ given' = given \cup {head}
        BY <1>1, <3>2
      <4>2. query_result # head
        BY <1>5, <1>6 DEF Later
      <4> QED BY <2>1, <4>1, <4>2 DEF Accounted, Kept
    <3> QED BY <3>1, <3>2
  <2> QED BY <1>1, <2>1 DEF Accounted, Kept
<1>11. Woken'
  <2>1. query_event => query_event'
    BY <1>0, <1>1 DEF TypeOK
  <2>2. ASSUME query_event', query_result' = None PROVE query_event /\ query_result = None
    <3>1. ~ mine
      BY <1>1, <1>5, <1>6, <2>2 DEF None
    <3>2. query_event' = query_event /\ query_result' = query_result
      BY <1>1, <3>1
    <3> QED BY <2>2, <3>2
  <2> QED BY <1>1, <2>1, <2>2 DEF Accounted, Woken
<1>12. Answered' /\ NoAnswerOnlyAfterClose'
  BY <1>1 DEF Accounted, Answered, NoAnswerOnlyAfterClose
<1>13. AnswersAreUsedOnce'
  <2>1. \A n \in Queries : answer[n] # head
    BY <1>0, <1>5, WireFacts DEF Later
  <2> QED BY <1>1, <1>7, <2>1 DEF Accounted, AnswersAreUsedOnce
<1> QED BY <1>8, <1>9, <1>10, <1>11, <1>12, <1>13 DEF Accounted

(* The connection ends, in either way.                                     *)
LEMMA HangupAccounted ==
    ASSUME Accounted, Hangup,
           UNCHANGED << calling, shared, given, toCore >>,
           closing' = closing \/ (closing = "open" /\ closing' = "closing")
    PROVE  Accounted'
<1>0. TypeOK
  BY DEF Accounted
<1>1. /\ connected' = FALSE
      /\ UNCHANGED << caller, asked, timed, outcome, answer, query_result, query_event >>
      /\ UNCHANGED << is_querying, timeout_occurred, given, toCore >>
  BY DEF Hangup, calling, shared
<1>2. PICK read \in 0 .. Len(fromCore) : fromCore' = SubSeq(fromCore, 1, read)
  BY DEF Hangup
<1>3. fromCore \in Seq(Nat) /\ Ordered(fromCore)
  BY <1>0, WireFacts DEF Accounted, InOrder
<1>4. /\ fromCore' \in Seq(Nat) /\ Ordered(fromCore')
      /\ \A i \in DOMAIN fromCore' : i \in DOMAIN fromCore /\ fromCore'[i] = fromCore[i]
  BY <1>2, <1>3, PrefixFacts, OrderedPrefix
<1>5. TypeOK'
  <2>1. \A i \in DOMAIN fromCore' : fromCore'[i] \in 1 .. asked
    BY <1>0, <1>4, WireFacts
  <2>2. fromCore' \in Seq(1 .. asked)
    BY <1>4, <2>1, InSeq
  <2> QED BY <1>0, <1>1, <2>2 DEF TypeOK
<1>6. InOrder'
  <2>1. \A j \in DOMAIN toCore' : Later(toCore[j])'
    BY <1>1 DEF Accounted, InOrder, Later
  <2>2. \A i \in DOMAIN fromCore' : Later(fromCore[i])'
    BY <1>1, <1>4 DEF Accounted, InOrder, Later
  <2>3. \A i \in DOMAIN fromCore', j \in DOMAIN toCore' : fromCore'[i] < toCore'[j]
    BY <1>1, <1>4 DEF Accounted, InOrder
  <2>4. Ordered(toCore)' /\ Ordered(fromCore)'
    BY <1>1, <1>4 DEF Accounted, InOrder, Ordered
  <2>5. caller' = "sending" => /\ \A i \in DOMAIN fromCore' : fromCore'[i] < asked'
                               /\ \A j \in DOMAIN toCore' : toCore'[j] < asked'
                               /\ Later(asked)'
    BY <1>1, <1>4 DEF Accounted, InOrder, Later
  <2> QED BY <2>1, <2>2, <2>3, <2>4, <2>5 DEF InOrder
<1>7. Kept' /\ Woken'
  BY <1>1 DEF Accounted, Kept, Woken
<1>8. Answered' /\ AnswersAreUsedOnce' /\ NoAnswerOnlyAfterClose'
  BY <1>1 DEF Accounted, Answered, AnswersAreUsedOnce, NoAnswerOnlyAfterClose
<1> QED BY <1>5, <1>6, <1>7, <1>8 DEF Accounted

(* disconnect wakes the thread that waits.                                 *)
LEMMA ClosedAccounted ==
    ASSUME Accounted, Closed PROVE Accounted'
<1>0. TypeOK
  BY DEF Accounted
<1>1. /\ closing = "closing" /\ closing' = "closed" /\ timeout_occurred' = TRUE /\ query_event' = TRUE
      /\ UNCHANGED << caller, asked, timed, outcome, answer, query_result, is_querying >>
      /\ UNCHANGED << connected, given, toCore, fromCore >>
  BY DEF Closed, calling, wire
<1>2. TypeOK'
  BY <1>0, <1>1 DEF TypeOK
<1>3. InOrder'
  BY <1>1 DEF Accounted, InOrder, Later, Ordered
<1>4. Kept' /\ Woken'
  BY <1>1 DEF Accounted, Kept, Woken
<1>5. Answered' /\ AnswersAreUsedOnce' /\ NoAnswerOnlyAfterClose'
  BY <1>1 DEF Accounted, Answered, AnswersAreUsedOnce, NoAnswerOnlyAfterClose
<1> QED BY <1>2, <1>3, <1>4, <1>5 DEF Accounted

(* The Core passes on the answer to its first query.                       *)
LEMMA CoreAnswersAccounted ==
    ASSUME Accounted, CoreAnswers PROVE Accounted'
<1>0. TypeOK
  BY DEF Accounted
<1> DEFINE head == Head(toCore)
<1>1. /\ toCore # << >> /\ toCore' = Tail(toCore)
      /\ fromCore' = IF connected THEN Append(fromCore, head) ELSE fromCore
      /\ UNCHANGED << caller, asked, timed, outcome, answer, query_result, query_event >>
      /\ UNCHANGED << is_querying, timeout_occurred, connected, closing, given >>
  BY DEF CoreAnswers, Delivered, calling, shared
<1> HIDE DEF head
<1>2. /\ toCore \in Seq(Nat) /\ Ordered(toCore) /\ fromCore \in Seq(Nat) /\ Ordered(fromCore)
      /\ \A j \in DOMAIN toCore : toCore[j] \in 1 .. asked
      /\ \A i \in DOMAIN fromCore : fromCore[i] \in 1 .. asked
  BY <1>0, WireFacts DEF Accounted, InOrder
<1>3. /\ head = toCore[1] /\ 1 \in DOMAIN toCore /\ toCore' \in Seq(Nat)
      /\ \A j \in DOMAIN toCore' : j + 1 \in DOMAIN toCore /\ toCore'[j] = toCore[j + 1]
  BY <1>1, <1>2, TailFacts DEF head
<1>4. Ordered(toCore') /\ \A j \in DOMAIN toCore' : head < toCore'[j]
  BY <1>1, <1>2, OrderedTail DEF head
<1>5. head \in Nat /\ head \in 1 .. asked /\ Later(head) /\ \A i \in DOMAIN fromCore : fromCore[i] < head
  BY <1>0, <1>2, <1>3, WireFacts DEF Accounted, InOrder
<1>6. /\ fromCore' \in Seq(Nat) /\ Ordered(fromCore')
      /\ \A i \in DOMAIN fromCore' : fromCore'[i] = head \/ (i \in DOMAIN fromCore /\ fromCore'[i] = fromCore[i])
  <2>1. CASE connected
    <3>1. fromCore' = Append(fromCore, head)
      BY <1>1, <2>1
    <3>2. /\ Append(fromCore, head) \in Seq(Nat) /\ Ordered(Append(fromCore, head))
          /\ \A i \in DOMAIN Append(fromCore, head) :
                \/ Append(fromCore, head)[i] = head
                \/ i \in DOMAIN fromCore /\ Append(fromCore, head)[i] = fromCore[i]
      BY <1>2, <1>5, SentFacts
    <3> QED BY <3>1, <3>2
  <2>2. CASE ~ connected
    BY <1>1, <1>2, <2>2
  <2> QED BY <2>1, <2>2
<1>7. TypeOK'
  <2>1. /\ \A j \in DOMAIN toCore' : toCore'[j] \in 1 .. asked
        /\ \A i \in DOMAIN fromCore' : fromCore'[i] \in 1 .. asked
    BY <1>2, <1>3, <1>5, <1>6
  <2>2. toCore' \in Seq(1 .. asked) /\ fromCore' \in Seq(1 .. asked)
    BY <1>3, <1>6, <2>1, InSeq
  <2> QED BY <1>0, <1>1, <2>2 DEF TypeOK
<1>8. InOrder'
  <2>1. ASSUME NEW m, Later(m)
        PROVE  /\ query_result' < m
               /\ \A a \in given' : a < m
               /\ \A n \in Queries : answer'[n] < m
    BY <1>1, <2>1 DEF Later
  <2>2. \A j \in DOMAIN toCore' : Later(toCore'[j])
    BY <1>3 DEF Accounted, InOrder
  <2>3. \A i \in DOMAIN fromCore' : Later(fromCore'[i])
    BY <1>5, <1>6 DEF Accounted, InOrder
  <2>4. /\ \A j \in DOMAIN toCore' : Later(toCore[j])'
        /\ \A i \in DOMAIN fromCore' : Later(fromCore[i])'
    BY <2>1, <2>2, <2>3 DEF Later
  <2>5. \A i \in DOMAIN fromCore', j \in DOMAIN toCore' : fromCore'[i] < toCore'[j]
    <3> TAKE i \in DOMAIN fromCore', j \in DOMAIN toCore'
    <3>1. head < toCore'[j] /\ j + 1 \in DOMAIN toCore /\ toCore'[j] = toCore[j + 1]
      BY <1>3, <1>4
    <3>2. i \in DOMAIN fromCore => fromCore[i] < toCore[j + 1]
      BY <3>1 DEF Accounted, InOrder
    <3> QED BY <1>6, <3>1, <3>2
  <2>6. Ordered(toCore)' /\ Ordered(fromCore)'
    BY <1>4, <1>6 DEF Ordered
  <2>7. ASSUME caller' = "sending"
        PROVE  /\ \A i \in DOMAIN fromCore' : fromCore'[i] < asked'
               /\ \A j \in DOMAIN toCore' : toCore'[j] < asked'
               /\ Later(asked)'
    <3>1. Later(asked) /\ head < asked
      BY <1>1, <1>3, <2>7 DEF Accounted, InOrder
    <3>2. Later(asked)'
      BY <1>1, <3>1 DEF Later
    <3> QED BY <1>1, <1>3, <1>6, <2>7, <3>1, <3>2 DEF Accounted, InOrder
  <2> QED BY <2>4, <2>5, <2>6, <2>7 DEF InOrder
<1>9. Kept' /\ Woken'
  BY <1>1 DEF Accounted, Kept, Woken
<1>10. Answered' /\ AnswersAreUsedOnce' /\ NoAnswerOnlyAfterClose'
  BY <1>1 DEF Accounted, Answered, AnswersAreUsedOnce, NoAnswerOnlyAfterClose
<1> QED BY <1>7, <1>8, <1>9, <1>10 DEF Accounted

(* What is left of a wire after its first n places.                        *)
LEMMA SuffixFacts ==
    ASSUME NEW s \in Seq(Nat), NEW n \in 1 .. Len(s), Ordered(s)
    PROVE  LET t == SubSeq(s, n + 1, Len(s))
           IN  /\ t \in Seq(Nat) /\ Ordered(t)
               /\ \A i \in DOMAIN t : i + n \in DOMAIN s /\ t[i] = s[i + n]
<1> DEFINE t == SubSeq(s, n + 1, Len(s))
           u == [i \in 1 .. Len(s) - n |-> s[i + n]]
<1>0. /\ Len(s) \in Nat /\ n \in Nat /\ n <= Len(s) /\ DOMAIN s = 1 .. Len(s)
      /\ \A i \in DOMAIN s : s[i] \in Nat
  BY SeqElements
<1>1. \A i \in 1 .. Len(s) - n : i \in Nat /\ i + n \in DOMAIN s /\ n + i = i + n
  BY <1>0
<1>2. t = u
  BY <1>0
<1>3. u \in [1 .. Len(s) - n -> Nat] /\ Len(s) - n \in Nat
  BY <1>0, <1>1
<1>4. u \in Seq(Nat) /\ DOMAIN u = 1 .. Len(s) - n
  BY <1>3
<1>5. \A i \in DOMAIN u : i + n \in DOMAIN s /\ u[i] = s[i + n] /\ i \in Nat
  BY <1>1, <1>4
<1>6. Ordered(u)
  <2>1. SUFFICES ASSUME NEW i \in DOMAIN u, NEW j \in DOMAIN u, i < j PROVE u[i] < u[j]
    BY DEF Ordered
  <2>2. i + n < j + n /\ i + n \in DOMAIN s /\ j + n \in DOMAIN s
    BY <1>0, <1>5, <2>1
  <2> QED BY <1>5, <2>2 DEF Ordered
<1> QED BY <1>2, <1>4, <1>5, <1>6

LEMMA UnservedAccounted ==
    ASSUME Accounted, Unserved PROVE Accounted'
<1>0. TypeOK
  BY DEF Accounted
<1>1. /\ UNCHANGED << caller, asked, timed, outcome, answer, query_result, query_event >>
      /\ UNCHANGED << is_querying, timeout_occurred, connected, closing, given, fromCore >>
  BY DEF Unserved, calling, shared
<1>2. PICK k \in 1 .. Len(toCore) : toCore' = SubSeq(toCore, k + 1, Len(toCore))
  BY DEF Unserved
<1>3. /\ toCore \in Seq(Nat) /\ Ordered(toCore)
      /\ \A j \in DOMAIN toCore : toCore[j] \in 1 .. asked
  BY <1>0, WireFacts DEF Accounted, InOrder
<1>4. /\ toCore' \in Seq(Nat) /\ Ordered(toCore')
      /\ \A j \in DOMAIN toCore' : j + k \in DOMAIN toCore /\ toCore'[j] = toCore[j + k]
  BY <1>2, <1>3, SuffixFacts
<1>5. TypeOK'
  <2>1. toCore' \in Seq(1 .. asked)
    BY <1>3, <1>4, InSeq
  <2> QED BY <1>0, <1>1, <2>1 DEF TypeOK
<1>6. InOrder'
  <2>1. ASSUME NEW m, Later(m)
        PROVE  /\ query_result' < m
               /\ \A a \in given' : a < m
               /\ \A n \in Queries : answer'[n] < m
    BY <1>1, <2>1 DEF Later
  <2>2. \A j \in DOMAIN toCore' : Later(toCore[j])'
    BY <1>4, <2>1 DEF Accounted, InOrder, Later
  <2>3. \A i \in DOMAIN fromCore' : Later(fromCore[i])'
    BY <1>1, <2>1 DEF Accounted, InOrder, Later
  <2>4. \A i \in DOMAIN fromCore', j \in DOMAIN toCore' : fromCore'[i] < toCore'[j]
    BY <1>1, <1>4 DEF Accounted, InOrder
  <2>5. Ordered(toCore)' /\ Ordered(fromCore)'
    BY <1>1, <1>4 DEF Ordered, Accounted, InOrder
  <2>6. ASSUME caller' = "sending"
        PROVE  /\ \A i \in DOMAIN fromCore' : fromCore'[i] < asked'
               /\ \A j \in DOMAIN toCore' : toCore'[j] < asked'
               /\ Later(asked)'
    <3>1. Later(asked)
      BY <1>1, <2>6 DEF Accounted, InOrder
    <3>2. Later(asked)'
      BY <1>1, <3>1 DEF Later
    <3> QED BY <1>1, <1>4, <2>6, <3>2 DEF Accounted, InOrder
  <2> QED BY <2>2, <2>3, <2>4, <2>5, <2>6 DEF InOrder
<1>7. Kept' /\ Woken'
  BY <1>1 DEF Accounted, Kept, Woken
<1>8. Answered' /\ AnswersAreUsedOnce' /\ NoAnswerOnlyAfterClose'
  BY <1>1 DEF Accounted, Answered, AnswersAreUsedOnce, NoAnswerOnlyAfterClose
<1> QED BY <1>5, <1>6, <1>7, <1>8 DEF Accounted

-----------------------------------------------------------------------------
(* Accounted holds in every state.                                         *)

(* Every step of the caller, of the receiving thread, of disconnect, of    *)
(* the connection and of the Core keeps the accounts.                      *)
THEOREM AccountedNext == Accounted /\ [Next]_vars => Accounted'
<1> SUFFICES ASSUME Accounted, [Next]_vars PROVE Accounted'
  OBVIOUS
<1>1. CASE Begin
  BY <1>1, BeginAccounted
<1>2. CASE Send
  BY <1>2, SendAccounted
<1>3. CASE Wake \/ TimeOut
  BY <1>3, WaitAccounted
<1>4. CASE Return
  BY <1>4, ReturnAccounted
<1>5. CASE Raise
  BY <1>5, RaiseAccounted
<1>6. CASE QueryAsync
  BY <1>6, QueryAsyncAccounted
<1>7. CASE Receive
  BY <1>7, ReceiveAccounted
<1>8. CASE Lost
  BY <1>8, HangupAccounted DEF Lost
<1>9. CASE Close
  BY <1>9, HangupAccounted DEF Close
<1>10. CASE Closed
  BY <1>10, ClosedAccounted
<1>11. CASE CoreAnswers
  BY <1>11, CoreAnswersAccounted
<1>12. CASE Unserved
  BY <1>12, UnservedAccounted
<1>13. CASE UNCHANGED vars
  <2>1. UNCHANGED << caller, asked, timed, outcome, answer, query_result, query_event,
                     is_querying, timeout_occurred, connected, closing, given, toCore, fromCore >>
    BY <1>13 DEF vars, calling, shared, wire
  <2> QED BY <2>1 DEF Accounted, TypeOK, InOrder, Later, Ordered, Kept, Answered, Woken,
                      AnswersAreUsedOnce, NoAnswerOnlyAfterClose
<1> QED BY <1>1, <1>2, <1>3, <1>4, <1>5, <1>6, <1>7, <1>8, <1>9, <1>10, <1>11, <1>12, <1>13
        DEF Next, ClientNext, CallerStep, Idle

(* The inductive invariant behind the theorems that follow.                *)
THEOREM AccountedAlways == Spec => []Accounted
  BY AccountedInit, AccountedNext, PTL DEF Spec

(* Each variable has its type, and is_querying is set exactly while the    *)
(* calling thread is in query (query, OpenSocketQuerier.py:31), for every  *)
(* number of queries.                                                      *)
THEOREM QueryTypeCorrect == Spec => []TypeOK
<1>1. Accounted => TypeOK
  BY DEF Accounted
<1> QED BY <1>1, AccountedAlways, PTL

(* No answer is used by two queries, nor by a query and by the callback of *)
(* query_async: the order of the wires is enough, whatever is lost and     *)
(* whichever thread is first.                                              *)
THEOREM EveryAnswerUsedOnce == Spec => []AnswersAreUsedOnce
<1>1. Accounted => AnswersAreUsedOnce
  BY DEF Accounted
<1> QED BY <1>1, AccountedAlways, PTL

(* A query is given the answer to another only after one before it ended   *)
(* without an answer: the harm the missing identity of an answer can do    *)
(* (query, OpenSocketQuerier.py:31) needs a timeout, a disconnect or       *)
(* query_async first.                                                      *)
THEOREM WrongAnswerIsLate == Spec => []AnswersAreOwnOrLate
<1>1. Accounted => AnswersAreOwnOrLate
  <2> SUFFICES ASSUME Accounted, NEW n \in Queries, answer[n] \notin {None, n}
               PROVE  answer[n] < n /\ \E k \in 1 .. n - 1 : outcome[k] # "answer"
    BY DEF AnswersAreOwnOrLate
  <2>1. answer[n] \in Nat /\ n \in Nat
    BY WireFacts, OpenSocketQueryAssumption DEF Accounted, Queries
  <2> QED BY <2>1 DEF Accounted, Answered
<1> QED BY <1>1, AccountedAlways, PTL

(* query returns None, which is no answer, only once disconnect has woken  *)
(* it (disconnect, OpenSocketQuerier.py:80).                              *)
THEOREM NoneOnlyAfterDisconnect == Spec => []NoAnswerOnlyAfterClose
<1>1. Accounted => NoAnswerOnlyAfterClose
  BY DEF Accounted
<1> QED BY <1>1, AccountedAlways, PTL

-----------------------------------------------------------------------------
(* Without a timeout, query_async and disconnect every answer is the       *)
(* query's own.                                                            *)

(* Every query but the one in progress has ended.                          *)
OneByOne ==
    \A n \in Queries :
        n <= asked /\ outcome[n] = "none" => n = asked /\ caller # "idle"

LEMMA OneByOneNext == TypeOK /\ OneByOne /\ [Next]_vars => OneByOne'
<1> SUFFICES ASSUME TypeOK, OneByOne, [Next]_vars PROVE OneByOne'
  OBVIOUS
<1>0. /\ asked \in Nat /\ \A n \in Queries : n \in Nat
      /\ outcome \in [Queries -> {"none", "answer", "async", "timeout", "no_answer"}]
  BY OpenSocketQueryAssumption DEF TypeOK, Queries
<1>1. CASE Begin
  BY <1>0, <1>1 DEF Begin, CallerGoto, OneByOne
<1>2. CASE QueryAsync
  BY <1>0, <1>2 DEF QueryAsync, OneByOne
<1>3. CASE Return
  BY <1>0, <1>3 DEF Return, CallerGoto, OneByOne, None
<1>4. CASE Raise
  BY <1>0, <1>4 DEF Raise, CallerGoto, OneByOne
<1>5. CASE Send \/ Wake \/ TimeOut
  BY <1>5 DEF Send, Wake, TimeOut, CallerGoto, OneByOne
<1>6. CASE Receive \/ Lost \/ Close \/ Closed \/ CoreAnswers \/ Unserved
  BY <1>6 DEF Receive, Lost, Close, Closed, CoreAnswers, Unserved, calling, OneByOne
<1>7. CASE UNCHANGED vars
  BY <1>7 DEF vars, calling, OneByOne
<1> QED BY <1>1, <1>2, <1>3, <1>4, <1>5, <1>6, <1>7 DEF Next, ClientNext, CallerStep, Idle

(* A client whose queries all ended with an answer has the right ones.     *)
LEMMA OwnWhenAllAnswered ==
    ASSUME Accounted, OneByOne, \A n \in Queries : outcome[n] \in {"none", "answer"}
    PROVE  AnswersAreOwn
<1>1. SUFFICES ASSUME NEW n \in Queries, answer[n] # None PROVE answer[n] = n
  BY DEF AnswersAreOwn
<1>2. n \in Nat /\ asked \in Nat /\ MaxQueries \in Nat /\ n \in 1 .. MaxQueries
  BY OpenSocketQueryAssumption DEF Accounted, TypeOK, Queries
<1>3. outcome[n] = "answer" /\ n <= asked
  BY <1>1, <1>2 DEF Accounted, Answered
<1>4. \A k \in 1 .. n - 1 : outcome[k] = "answer"
  <2> TAKE k \in 1 .. n - 1
  <2>1. k \in Queries /\ k <= asked /\ k # asked
    BY <1>2, <1>3 DEF Queries
  <2> QED BY <2>1 DEF OneByOne
<1> QED BY <1>1, <1>4 DEF Accounted, Answered
=============================================================================
