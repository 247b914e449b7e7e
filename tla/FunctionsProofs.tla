---------------------------- MODULE FunctionsProofs ----------------------------
(***************************************************************************)
(* What TLAPS proves about the pure functions of the program, for every    *)
(* length of a file, every number of subworkers, every width of a word and *)
(* all headers.                                                            *)
(***************************************************************************)
EXTENDS MCFunctions, FiniteSetTheorems, SequenceTheorems, WellFoundedInduction, TLAPS

-----------------------------------------------------------------------------
(* The halves of an offset.                                                *)

LEMMA Division ==
    ASSUME NEW n \in Nat, NEW d \in Nat \ {0}
    PROVE  n \div d \in Nat /\ n % d \in 0 .. d - 1 /\ n = (n \div d) * d + (n % d)
  BY Z3

(* A quotient is below k when the number is below k times the divisor.     *)
LEMMA QuotientBelow ==
    ASSUME NEW n \in Nat, NEW d \in Nat \ {0}, NEW k \in Nat, n < k * d
    PROVE  n \div d < k
<1> DEFINE q == n \div d
<1>1. q \in Nat /\ n >= q * d
  <2>1. q \in Nat /\ n % d \in 0 .. d - 1 /\ n = q * d + (n % d)
    BY Division
  <2> HIDE DEF q
  <2>2. q * d \in Nat
    BY <2>1
  <2> QED BY <2>1, <2>2
<1>2. ASSUME q >= k PROVE q * d >= k * d
  BY <1>1, <1>2, Z3
<1>3. q * d \in Nat /\ k * d \in Nat
  BY <1>1
<1> HIDE DEF q
<1>4. ~ (q >= k)
  BY <1>1, <1>2, <1>3
<1> QED BY <1>1, <1>4 DEF q

(* An offset that fits in two words is put together again from its halves  *)
(* (pwrite, _io.py:49), whatever the width of a word.                      *)
LEMMA HalvesMeet ==
    ASSUME NEW d \in Nat \ {0}, NEW offset \in 0 .. d * d - 1
    PROVE  FileOffset(d, offset) = offset
<1>1. offset \in Nat /\ offset < d * d
  OBVIOUS
<1>2. /\ offset \div d \in Nat /\ offset = (offset \div d) * d + (offset % d)
      /\ offset \div d < d
  BY <1>1, Division, QuotientBelow
<1>3. ASSUME NEW q \in Nat, q < d PROVE q % d = q
  BY <1>3
<1>4. (offset \div d) % d = offset \div d
  BY <1>2, <1>3
<1> QED BY <1>2, <1>4 DEF FileOffset, OffsetHigh, OffsetLow, Dword

(* Every write on Windows goes to the offset it was given (pwrite,         *)
(* _io.py:49), for every offset of two words.                              *)
THEOREM OffsetAlwaysArrives == Spec => []OffsetArrives
<1>1. Init => OffsetArrives
  <2> SUFFICES ASSUME Init, kind = "offset" PROVE FileOffset(Dwords, input) = input
    BY DEF OffsetArrives
  <2>1. input \in 0 .. Dwords * Dwords - 1
    BY DEF Init
  <2> QED BY <2>1, HalvesMeet, MCFunctionsAssumption
<1>2. OffsetArrives /\ UNCHANGED vars => OffsetArrives'
  BY DEF OffsetArrives, vars
<1> QED BY <1>1, <1>2, PTL DEF Spec, Next

-----------------------------------------------------------------------------
(* The ranges of a fresh run.                                              *)

(* Chunks leaves no byte out, and none of its ranges ends after the file.  *)
LEMMA ChunksCover ==
    ASSUME NEW n \in Nat \ {0}, NEW count \in 1 .. n
    PROVE  LET subs == Chunks(n, count)
           IN  /\ DOMAIN subs = 1 .. count
               /\ \A i \in 1 .. count :
                     subs[i].start \in Nat /\ subs[i].end \in Int /\ subs[i].end <= n - 1
               /\ \A b \in 0 .. n - 1 : \E i \in 1 .. count : b \in subs[i].start .. subs[i].end
<1> DEFINE c == n \div count
           subs == Chunks(n, count)
<1>0. count \in Nat \ {0} /\ n \in Nat /\ count <= n
  OBVIOUS
<1>1. c \in Nat /\ c >= 1 /\ count * c <= n /\ c * count = count * c
  <2>1. c \in Nat /\ n % count \in 0 .. count - 1 /\ n = c * count + (n % count)
    BY <1>0, Division
  <2> HIDE DEF c
  <2>2. c * count = count * c /\ c * count \in Nat
    BY <1>0, <2>1
  <2>3. c # 0
    <3>1. c = 0 => c * count = 0
      BY <1>0
    <3> QED BY <1>0, <2>1, <3>1
  <2> QED BY <1>0, <2>1, <2>2, <2>3
<1>2. subs = [i \in 1 .. count |-> Subworker((i - 1) * c, IF i = count THEN n - 1 ELSE i * c - 1)]
  BY DEF Chunks
<1> HIDE DEF c, subs
<1>3. \A i \in 1 .. count :
        /\ subs[i].start = (i - 1) * c
        /\ subs[i].end = IF i = count THEN n - 1 ELSE i * c - 1
  BY <1>2 DEF Subworker
<1>4. \A i \in 1 .. count : (i - 1) * c \in Nat /\ i * c \in Nat /\ i * c <= count * c
  <2> TAKE i \in 1 .. count
  <2>1. i \in Nat /\ i - 1 \in Nat /\ i <= count
    BY <1>0
  <2>2. i * c <= count * c
    BY <1>0, <1>1, <2>1, Z3
  <2> QED BY <1>1, <2>1, <2>2
<1>5. \A i \in 1 .. count : subs[i].start \in Nat /\ subs[i].end \in Int /\ subs[i].end <= n - 1
  <2> TAKE i \in 1 .. count
  <2>1. /\ (i - 1) * c \in Nat /\ i * c \in Nat /\ i * c <= count * c /\ count * c <= n
        /\ count * c \in Nat
    BY <1>0, <1>1, <1>4
  <2>2. subs[i].start = (i - 1) * c /\ (subs[i].end = n - 1 \/ subs[i].end = i * c - 1)
    BY <1>3
  <2> QED BY <1>0, <2>1, <2>2
<1>6. ASSUME NEW b \in 0 .. n - 1 PROVE \E i \in 1 .. count : b \in subs[i].start .. subs[i].end
  <2>0. b \in Nat /\ b <= n - 1 /\ count \in 1 .. count
    BY <1>0
  <2>1. CASE b >= (count - 1) * c
    BY <1>0, <1>3, <1>4, <2>0, <2>1
  <2>2. CASE b < (count - 1) * c
    <3> DEFINE q == b \div c
    <3>1. /\ q \in Nat /\ b % c \in 0 .. c - 1 /\ b = q * c + (b % c)
      <4>1. c \in Nat \ {0} /\ b \in Nat
        BY <1>1, <2>0
      <4> QED BY <4>1, Division
    <3>2. q < count - 1
      BY <1>0, <1>1, <2>0, <2>2, QuotientBelow
    <3> HIDE DEF q
    <3>3. (q + 1) * c = q * c + c /\ q * c \in Nat
      BY <1>1, <3>1, Z3
    <3>4. q + 1 \in 1 .. count /\ q + 1 # count /\ (q + 1) - 1 = q
      BY <1>0, <3>1, <3>2
    <3>5. subs[q + 1].start = q * c /\ subs[q + 1].end = (q + 1) * c - 1
      BY <1>3, <3>4
    <3>6. q * c <= b /\ b <= (q + 1) * c - 1
      BY <1>1, <2>0, <3>1, <3>3
    <3>7. b \in q * c .. (q + 1) * c - 1
      BY <1>1, <2>0, <3>3, <3>6
    <3> QED BY <3>4, <3>5, <3>7
  <2> QED
    <3>1. (count - 1) * c \in Nat
      BY <1>0, <1>4
    <3> QED BY <2>0, <2>1, <2>2, <3>1
<1> QED BY <1>2, <1>5, <1>6 DEF subs

(* What is asked for when a file of n bytes is taken for one of `size`.    *)
LEMMA FreshCovers ==
    ASSUME NEW n \in Nat \ {0}, NEW size, NEW ranged \in BOOLEAN, NEW count \in Nat \ {0},
           ranged => size \in {n, 1, UNKNOWN}
    PROVE  LET subs == BuildSubworkers(size, ranged, count)
           IN  UNION {Asked(subs[i], n) : i \in DOMAIN subs} = 0 .. n - 1
<1> DEFINE subs == BuildSubworkers(size, ranged, count)
<1>1. ASSUME NEW e \in {NOT_SUPPORTED, UNKNOWN}, subs = << Subworker(0, e) >>
      PROVE  UNION {Asked(subs[i], n) : i \in DOMAIN subs} = 0 .. n - 1
  <2>1. DOMAIN subs = {1} /\ subs[1].start = 0 /\ subs[1].end = e
    BY <1>1 DEF Subworker
  <2> HIDE DEF subs
  <2>2. Asked(subs[1], n) = 0 .. n - 1
    BY <2>1 DEF Asked
  <2> QED BY <2>1, <2>2
<1>2. CASE ~ ranged
  <2>1. subs = << Subworker(0, NOT_SUPPORTED) >>
    BY <1>2 DEF BuildSubworkers
  <2> QED BY <1>1, <2>1
<1>3. CASE ranged /\ size = UNKNOWN
  <2>1. subs = << Subworker(0, UNKNOWN) >>
    BY <1>3 DEF BuildSubworkers
  <2> QED BY <1>1, <2>1
<1>4. CASE ranged /\ size # UNKNOWN
  <2> DEFINE k == MinOf(count, size)
  <2>1. size \in Nat \ {0} /\ size <= n /\ (size = n \/ size = 1) /\ k \in 1 .. size
    BY <1>4 DEF MinOf
  <2>2. subs = Chunks(size, k)
    BY <1>4 DEF BuildSubworkers
  <2>3. /\ DOMAIN subs = 1 .. k
        /\ \A i \in 1 .. k : subs[i].start \in Nat /\ subs[i].end \in Int /\ subs[i].end <= size - 1
        /\ \A b \in 0 .. size - 1 : \E i \in 1 .. k : b \in subs[i].start .. subs[i].end
    <3>1. size \in Nat \ {0} /\ k \in 1 .. size
      BY <2>1
    <3> HIDE DEF k
    <3>2. LET t == Chunks(size, k)
          IN  /\ DOMAIN t = 1 .. k
              /\ \A i \in 1 .. k : t[i].start \in Nat /\ t[i].end \in Int /\ t[i].end <= size - 1
              /\ \A b \in 0 .. size - 1 : \E i \in 1 .. k : b \in t[i].start .. t[i].end
      BY <3>1, ChunksCover
    <3> QED BY <2>2, <3>2
  <2> HIDE DEF subs, k
  <2>4. ASSUME NEW i \in 1 .. k
        PROVE  Asked(subs[i], n) \subseteq 0 .. n - 1
    BY <2>1, <2>3 DEF Asked
  <2>5. ASSUME NEW b \in 0 .. n - 1
        PROVE  \E i \in 1 .. k : b \in Asked(subs[i], n)
    <3>1. CASE size = n
      <4>1. PICK i \in 1 .. k : b \in subs[i].start .. subs[i].end
        BY <2>3, <3>1
      <4>2. b \in Asked(subs[i], n)
        BY <2>3, <4>1 DEF Asked
      <4> QED BY <4>2
    <3>2. CASE size = 1
      <4>1. PICK i \in 1 .. k : 0 \in subs[i].start .. subs[i].end
        BY <2>3, <3>2
      <4>2. subs[i].start = 0 /\ subs[i].end = 0
        BY <2>3, <3>2, <4>1
      <4>3. b \in Asked(subs[i], n)
        BY <4>2 DEF Asked, UNKNOWN
      <4> QED BY <4>3
    <3> QED BY <2>1, <3>1, <3>2
  <2>6. \A b : b \in UNION {Asked(subs[i], n) : i \in 1 .. k} <=> \E i \in 1 .. k : b \in Asked(subs[i], n)
    OBVIOUS
  <2>7. UNION {Asked(subs[i], n) : i \in DOMAIN subs} = 0 .. n - 1
    BY <2>3, <2>4, <2>5, <2>6
  <2> QED BY <2>7 DEF subs
<1> QED BY <1>2, <1>3, <1>4

(* What the probe takes for the size, if it is going to use ranges.        *)
LEMMA RangedSize ==
    ASSUME NEW n \in Nat \ {0}, NEW answer \in AnswersFor(n), ProbedRange(answer)
    PROVE  ProbedSize(answer) \in {n, 1, UNKNOWN}
<1>1. answer.status = 206 /\ answer.total # Absent
  BY DEF ProbedRange
<1>2. answer.total \in {n, Unstated} /\ answer.length \in {1, Absent}
  BY <1>1 DEF AnswersFor
<1> QED BY <1>1, <1>2 DEF ProbedSize, Absent, Unstated

(* Whatever the server says to the probe, ranges or none, a total, "*" or  *)
(* nothing (_probe, main.py:47; _download, __main__.py:38), the first      *)
(* subworkers (_buildSubworkers, _engine.py:170) ask for every byte of the *)
(* file and for none after its end: for every length of the file and every *)
(* number of subworkers, one byte and more subworkers than bytes included. *)
THEOREM ProbedFileAlwaysCovered == Spec => []ProbedFileIsCovered
<1>1. Init => ProbedFileIsCovered
  <2> SUFFICES ASSUME Init, kind = "probe",
                      NEW ranged \in {ProbedRange(input.answer), RangeOfCommandLine(input.answer)}
               PROVE  LET subs == BuildSubworkers(ProbedSize(input.answer), ranged, input.count)
                      IN  UNION {Asked(subs[i], input.length) : i \in DOMAIN subs} = 0 .. input.length - 1
    BY DEF ProbedFileIsCovered
  <2>1. input \in Probes
    BY DEF Init
  <2>2. PICK n \in 1 .. MaxFile :
            input \in [length : {n}, answer : AnswersFor(n), count : 1 .. MaxFile + 1]
    BY <2>1 DEF Probes
  <2>3. /\ input.length = n /\ input.answer \in AnswersFor(n) /\ input.count \in Nat \ {0}
        /\ n \in Nat \ {0}
    BY <2>2, MCFunctionsAssumption
  <2>4. ranged \in BOOLEAN /\ (ranged => ProbedRange(input.answer))
    BY DEF ProbedRange, RangeOfCommandLine
  <2>5. ranged => ProbedSize(input.answer) \in {n, 1, UNKNOWN}
    BY <2>3, <2>4, RangedSize
  <2> QED BY <2>3, <2>4, <2>5, FreshCovers
<1>2. ProbedFileIsCovered /\ UNCHANGED vars => ProbedFileIsCovered'
  BY DEF ProbedFileIsCovered, vars
<1> QED BY <1>1, <1>2, PTL DEF Spec, Next

-----------------------------------------------------------------------------
(* The headers of a client.                                                *)

(* What a client is given as headers, whatever those of its caller are.    *)
Follows(emulated, headers, userAgent, source, made) ==
    /\ emulated /\ (source = "" \/ userAgent # "") =>
          \A h \in DOMAIN made \cap IdentityHeaders : made[h] = userAgent
    /\ userAgent # "" => "user-agent" \in DOMAIN made /\ made["user-agent"] = userAgent
    /\ ~ emulated => (NamesBrowser(made) <=> DOMAIN headers # {} \/ userAgent # "")
    /\ \A h \in DOMAIN headers \ IdentityHeaders : h \in DOMAIN made /\ made[h] = headers[h]
    /\ \A h \in DOMAIN made \ DOMAIN headers : h = "user-agent"

(* buildClient (_client.py:166), for all headers a caller can give.        *)
LEMMA HeadersFollow ==
    ASSUME NEW emulated \in BOOLEAN, NEW S, NEW T, NEW headers \in [S -> T],
           NEW userAgent, NEW source
    PROVE  Follows(emulated, headers, userAgent, source,
                   ClientHeaders(emulated, headers, userAgent, source))
<1> DEFINE made == ClientHeaders(emulated, headers, userAgent, source)
           own == [h \in DOMAIN headers \ IdentityHeaders |-> headers[h]]
<1> USE DEF Follows
<1>0. DOMAIN headers = S /\ DOMAIN own = S \ IdentityHeaders /\ "user-agent" \in IdentityHeaders
  BY DEF IdentityHeaders
<1>1. CASE S = {} /\ userAgent = ""
  <2>1. made = headers
    BY <1>0, <1>1 DEF ClientHeaders
  <2> QED BY <1>0, <1>1, <2>1 DEF NamesBrowser
<1>2. CASE (S = {} \/ ~ emulated) /\ userAgent # ""
  <2>1. made = With(headers, userAgent)
    BY <1>0, <1>2 DEF ClientHeaders
  <2> QED BY <1>0, <1>2, <2>1 DEF With, NamesBrowser
<1>3. CASE S # {} /\ emulated /\ userAgent # ""
  <2>1. made = With(own, userAgent)
    BY <1>0, <1>3 DEF ClientHeaders
  <2> QED BY <1>0, <1>3, <2>1 DEF With
<1>4. CASE S # {} /\ emulated /\ userAgent = "" /\ source = ""
  <2>1. made = own
    BY <1>0, <1>4 DEF ClientHeaders
  <2> QED BY <1>0, <1>4, <2>1
<1>5. CASE S # {} /\ emulated /\ userAgent = "" /\ source # ""
  <2>1. made = headers
    BY <1>0, <1>5 DEF ClientHeaders
  <2> QED BY <1>0, <1>5, <2>1
<1>6. CASE S # {} /\ ~ emulated /\ userAgent = "" /\ NamesBrowser(headers)
  <2>1. made = headers
    BY <1>0, <1>6 DEF ClientHeaders
  <2> QED BY <1>0, <1>6, <2>1
<1>7. CASE S # {} /\ ~ emulated /\ userAgent = "" /\ ~ NamesBrowser(headers)
  <2>1. made = With(headers, "default")
    BY <1>0, <1>7 DEF ClientHeaders
  <2> QED BY <1>0, <1>7, <2>1 DEF With, NamesBrowser
<1> QED BY <1>1, <1>2, <1>3, <1>4, <1>5, <1>6, <1>7

(* The headers of a client name no other browser than the one it imitates; *)
(* one that imitates none names a browser if it was given any headers or a *)
(* userAgent, and only then; and the headers that say nothing of a browser *)
(* are the caller's own (buildClient, _client.py:166).                     *)
THEOREM HeadersAlwaysAgree == Spec => []HeadersAgree
<1>1. Init => HeadersAgree
  <2> DEFINE made == ClientHeaders(input.emulated, input.headers, input.userAgent, input.source)
  <2> SUFFICES ASSUME Init, kind = "client"
               PROVE  /\ input.emulated /\ (input.source = "" \/ input.userAgent # "") =>
                            {h \in DOMAIN made \cap IdentityHeaders : made[h] # input.userAgent} = {}
                      /\ input.userAgent # "" => made["user-agent"] = input.userAgent
                      /\ ~ input.emulated =>
                            (NamesBrowser(made) <=> DOMAIN input.headers # {} \/ input.userAgent # "")
                      /\ "accept" \in DOMAIN made <=> "accept" \in DOMAIN input.headers
    BY DEF HeadersAgree
  <2>1. input \in Clients
    BY DEF Init
  <2>2. PICK S \in SUBSET HeaderNames : input.headers \in [S -> {"caller"}]
    BY <2>1 DEF Clients
  <2>3. input.emulated \in BOOLEAN
    BY <2>1 DEF Clients
  <2> DEFINE emulated == input.emulated
             headers == input.headers
             userAgent == input.userAgent
             source == input.source
  <2>4. Follows(emulated, headers, userAgent, source, made)
    <3>1. emulated \in BOOLEAN /\ headers \in [S -> {"caller"}]
      BY <2>2, <2>3
    <3>2. made = ClientHeaders(emulated, headers, userAgent, source)
      OBVIOUS
    <3> HIDE DEF emulated, headers, userAgent, source, made
    <3> QED BY <3>1, <3>2, HeadersFollow
  <2>5. "accept" \notin IdentityHeaders
    BY DEF IdentityHeaders
  <2> HIDE DEF made
  <2> QED BY <2>4, <2>5 DEF Follows
<1>2. HeadersAgree /\ UNCHANGED vars => HeadersAgree'
  BY DEF HeadersAgree, vars
<1> QED BY <1>1, <1>2, PTL DEF Spec, Next

-----------------------------------------------------------------------------
(***************************************************************************)
(* A browser is imitated by itself.                                        *)
(*                                                                         *)
(* The argument.  The versions of the profiles of one family are           *)
(* different and in order (NewerOrders), so that each profile has its      *)
(* place in the registry (Sorted); the first of those that are not newer   *)
(* than the browser is then the newest of them (ClosestFound).             *)
(***************************************************************************)

(* Newer orders a finite set of profiles.                                  *)
Ordered(S) ==
    /\ IsFiniteSet(S)
    /\ \A p \in S : ~ Newer(p, p)
    /\ \A p, q \in S : p # q => Newer(p, q) \/ Newer(q, p)
    /\ \A p, q, r \in S : Newer(p, q) /\ Newer(q, r) => Newer(p, r)

Before(S, p) == {q \in S : Newer(q, p)}

LEMMA BeforeCounts ==
    ASSUME NEW S, Ordered(S), NEW p \in S
    PROVE  /\ Cardinality(S) \in Nat
           /\ Cardinality(Before(S, p)) \in 0 .. Cardinality(S) - 1
<1>1. IsFiniteSet(S) /\ Cardinality(S) \in Nat
  BY FS_CardinalityType DEF Ordered
<1>2. Before(S, p) \subseteq S /\ p \notin Before(S, p)
  BY DEF Before, Ordered
<1>3. /\ IsFiniteSet(Before(S, p))
      /\ Cardinality(Before(S, p)) <= Cardinality(S)
      /\ Cardinality(Before(S, p)) # Cardinality(S)
  BY <1>1, <1>2, FS_Subset
<1>4. Cardinality(Before(S, p)) \in Nat
  BY <1>3, FS_CardinalityType
<1> QED BY <1>1, <1>3, <1>4

LEMMA BeforeGrows ==
    ASSUME NEW S, Ordered(S), NEW p \in S, NEW q \in S, Newer(p, q)
    PROVE  Cardinality(Before(S, p)) < Cardinality(Before(S, q))
<1>1. Before(S, p) \subseteq Before(S, q)
  BY DEF Before, Ordered
<1>2. p \in Before(S, q) /\ p \notin Before(S, p)
  BY DEF Before, Ordered
<1>3. IsFiniteSet(Before(S, q))
  BY FS_Subset DEF Before, Ordered
<1>4. /\ Cardinality(Before(S, p)) <= Cardinality(Before(S, q))
      /\ Cardinality(Before(S, p)) # Cardinality(Before(S, q))
  BY <1>1, <1>2, <1>3, FS_Subset
<1>5. Cardinality(Before(S, p)) \in Nat /\ Cardinality(Before(S, q)) \in Nat
  BY BeforeCounts
<1> QED BY <1>4, <1>5

(* Every place is taken.                                                   *)
LEMMA PlacesTaken ==
    ASSUME NEW S, Ordered(S), NEW k \in 0 .. Cardinality(S) - 1
    PROVE  \E p \in S : Cardinality(Before(S, p)) = k
<1> DEFINE n == Cardinality(S)
           rank == [p \in S |-> Cardinality(Before(S, p))]
<1>1. n \in Nat
  BY FS_CardinalityType DEF Ordered
<1>2. rank \in [S -> 0 .. n - 1]
  BY BeforeCounts
<1>3. \A p, q \in S : rank[p] = rank[q] => p = q
  <2> SUFFICES ASSUME NEW p \in S, NEW q \in S, p # q PROVE rank[p] # rank[q]
    OBVIOUS
  <2>1. Newer(p, q) \/ Newer(q, p)
    BY DEF Ordered
  <2>2. rank[p] < rank[q] \/ rank[q] < rank[p]
    BY <2>1, BeforeGrows
  <2>3. rank[p] \in Nat /\ rank[q] \in Nat
    BY <1>1, BeforeCounts
  <2> QED BY <2>2, <2>3
<1>4. rank \in Injection(S, 0 .. n - 1)
  BY <1>2, <1>3 DEF Injection, IsInjective
<1>5. IsFiniteSet(0 .. n - 1) /\ Cardinality(0 .. n - 1) = n
  BY <1>1, FS_Interval
<1>6. rank \in Surjection(S, 0 .. n - 1)
  BY <1>4, <1>5, FS_Injection
<1>7. \E p \in S : rank[p] = k
  BY <1>6 DEF Surjection
<1> QED BY <1>7

(* A list of all of S, the newest first.                                   *)
Sorted(S, list) ==
    /\ list \in Seq(S) /\ Len(list) = Cardinality(S)
    /\ \A p \in S : \E i \in DOMAIN list : list[i] = p
    /\ \A i, j \in DOMAIN list : i < j => Newer(list[i], list[j])

LEMMA NewestFirstSorts ==
    ASSUME NEW S, Ordered(S)
    PROVE  Sorted(S, NewestFirst(S))
<1> DEFINE n == Cardinality(S)
           list == NewestFirst(S)
<1>1. n \in Nat
  BY FS_CardinalityType DEF Ordered
<1>2. ASSUME NEW i \in 1 .. n
      PROVE  list[i] \in S /\ Cardinality(Before(S, list[i])) = i - 1
  <2>1. \E p \in S : Cardinality(Before(S, p)) = i - 1
    BY <1>1, PlacesTaken
  <2>2. list[i] = CHOOSE p \in S : Cardinality(Before(S, p)) = i - 1
    BY DEF NewestFirst, Before
  <2> HIDE DEF list
  <2> QED BY <2>1, <2>2
<1>3. list \in [1 .. n -> S]
  BY <1>2 DEF NewestFirst
<1> HIDE DEF list
<1>4. list \in Seq(S) /\ Len(list) = n /\ DOMAIN list = 1 .. n
  BY <1>1, <1>3
<1>5. ASSUME NEW p \in S PROVE \E i \in 1 .. n : list[i] = p
  <2> DEFINE i == Cardinality(Before(S, p)) + 1
  <2>1. i \in 1 .. n /\ Cardinality(Before(S, p)) = i - 1
    BY <1>1, BeforeCounts
  <2>2. list[i] \in S /\ Cardinality(Before(S, list[i])) = Cardinality(Before(S, p))
    BY <1>2, <2>1
  <2>3. ~ Newer(p, list[i]) /\ ~ Newer(list[i], p)
    <3>1. Cardinality(Before(S, p)) \in Nat
      BY <1>1, BeforeCounts
    <3> QED BY <2>2, <3>1, BeforeGrows
  <2>4. list[i] = p
    BY <2>2, <2>3 DEF Ordered
  <2> QED BY <2>1, <2>4
<1>6. ASSUME NEW i \in 1 .. n, NEW j \in 1 .. n, i < j PROVE Newer(list[i], list[j])
  <2>1. list[i] # list[j] /\ list[i] \in S /\ list[j] \in S
    BY <1>2, <1>6
  <2>2. ~ Newer(list[j], list[i])
    <3> SUFFICES ASSUME Newer(list[j], list[i]) PROVE FALSE
      OBVIOUS
    <3>1. Cardinality(Before(S, list[j])) < Cardinality(Before(S, list[i]))
      BY <2>1, BeforeGrows
    <3>2. j - 1 < i - 1
      BY <1>2, <3>1
    <3> QED BY <1>6, <3>2
  <2> QED BY <2>1, <2>2 DEF Ordered
<1> QED BY <1>4, <1>5, <1>6 DEF Sorted, list

-----------------------------------------------------------------------------
(* The profiles of a family.                                               *)

Version == {<< m >> : m \in Nat} \cup {<< m, k >> : m, k \in Nat}

(* The order of versions, spelt out.                                       *)
LEMMA NewerCases ==
    ASSUME NEW p, NEW q, p.version \in Version, q.version \in Version
    PROVE  Newer(p, q) <=>
              \/ p.version[1] > q.version[1]
              \/ /\ p.version[1] = q.version[1]
                 /\ Len(p.version) = 2
                 /\ Len(q.version) = 2 => p.version[2] > q.version[2]
<1> DEFINE v == p.version
           w == q.version
<1>1. /\ Len(v) \in {1, 2} /\ Len(w) \in {1, 2}
      /\ v[1] \in Nat /\ w[1] \in Nat
      /\ Len(v) = 2 => v[2] \in Nat
      /\ Len(w) = 2 => w[2] \in Nat
  BY DEF Version
<1>2. Newer(p, q) <=>
          \E n \in 0 .. Len(w) :
              /\ n < Len(v)
              /\ \A i \in 1 .. n : v[i] = w[i]
              /\ n < Len(w) => v[n + 1] > w[n + 1]
  BY DEF Newer
<1> HIDE DEF v, w
<1>3. Newer(p, q) <=>
          \/ v[1] > w[1]
          \/ Len(v) = 2 /\ v[1] = w[1] /\ (Len(w) = 2 => v[2] > w[2])
  <2>1. ASSUME v[1] > w[1] PROVE Newer(p, q)
    <3>1. 0 \in 0 .. Len(w) /\ 0 < Len(v) /\ \A i \in 1 .. 0 : v[i] = w[i]
      BY <1>1
    <3>2. v[0 + 1] > w[0 + 1]
      BY <2>1
    <3> QED BY <1>2, <3>1, <3>2
  <2>2. ASSUME Len(v) = 2, v[1] = w[1], Len(w) = 2 => v[2] > w[2] PROVE Newer(p, q)
    <3>1. 1 \in 0 .. Len(w) /\ 1 < Len(v) /\ \A i \in 1 .. 1 : v[i] = w[i]
      BY <1>1, <2>2
    <3>2. 1 < Len(w) => v[1 + 1] > w[1 + 1]
      BY <1>1, <2>2
    <3> QED BY <1>2, <3>1, <3>2
  <2>3. ASSUME Newer(p, q), ~ (v[1] > w[1])
        PROVE  Len(v) = 2 /\ v[1] = w[1] /\ (Len(w) = 2 => v[2] > w[2])
    <3>1. PICK n \in 0 .. Len(w) :
              /\ n < Len(v)
              /\ \A i \in 1 .. n : v[i] = w[i]
              /\ n < Len(w) => v[n + 1] > w[n + 1]
      BY <1>2, <2>3
    <3>2. n # 0
      BY <1>1, <2>3, <3>1
    <3>3. n = 1 /\ Len(v) = 2
      BY <1>1, <3>1, <3>2
    <3> QED BY <1>1, <3>1, <3>3
  <2> QED BY <2>1, <2>2, <2>3
<1> QED BY <1>3 DEF v, w

(* All the profiles there are.                                             *)
Numbered == (Majors \X {0}) \cup {<< 1, 1 >>}
AllProfiles == {Profile(prefix, v[1], v[2]) : prefix \in KnownPrefixes, v \in Numbered}

LEMMA AllProfilesFinite == IsFiniteSet(AllProfiles)
<1>1. IsFiniteSet(Numbered)
  <2>1. IsFiniteSet({0}) /\ IsFiniteSet({<< 1, 1 >>})
    BY FS_Singleton
  <2>2. IsFiniteSet(Majors \X {0})
    BY <2>1, MCFunctionsAssumption, FS_Product
  <2> QED BY <2>1, <2>2, FS_Union DEF Numbered
<1>2. IsFiniteSet(KnownPrefixes)
  <2>1. KnownPrefixes =
            {"Chrome"} \cup {"Edge"} \cup {"Firefox"} \cup {"FirefoxAndroid"} \cup {"Safari"}
                \cup {"SafariIos"} \cup {"SafariIPad"} \cup {"Other"}
    BY DEF KnownPrefixes
  <2> QED BY <2>1, FS_Singleton, FS_Union
<1>3. IsFiniteSet(KnownPrefixes \X Numbered)
  BY <1>1, <1>2, FS_Product
<1> DEFINE made == [x \in KnownPrefixes \X Numbered |-> Profile(x[1], x[2][1], x[2][2])]
<1>4. made \in Surjection(KnownPrefixes \X Numbered, AllProfiles)
  <2>1. \A x \in KnownPrefixes \X Numbered : made[x] \in AllProfiles
    BY DEF AllProfiles
  <2>2. \A p \in AllProfiles : \E x \in KnownPrefixes \X Numbered : made[x] = p
    <3> SUFFICES ASSUME NEW prefix \in KnownPrefixes, NEW v \in Numbered
                 PROVE  \E x \in KnownPrefixes \X Numbered : made[x] = Profile(prefix, v[1], v[2])
      BY DEF AllProfiles
    <3>1. << prefix, v >> \in KnownPrefixes \X Numbered
      OBVIOUS
    <3>2. made[<< prefix, v >>] = Profile(prefix, v[1], v[2])
      BY <3>1
    <3> QED BY <3>1, <3>2
  <2> QED BY <2>1, <2>2 DEF Surjection
<1> QED BY <1>3, <1>4, FS_Surjection

LEMMA OffersKnown ==
    ASSUME NEW offer \in Offers
    PROVE  offer \subseteq AllProfiles
<1>1. PICK prefixes \in {{}, {"Firefox", "Edge"}, KnownPrefixes}, majors \in SUBSET Majors :
          offer = {Profile("Chrome", m, 0) : m \in Majors}
              \cup {Profile(q, v[1], v[2]) : q \in prefixes, v \in (majors \X {0}) \cup {<< 1, 1 >>}}
  BY DEF Offers
<1>2. prefixes \subseteq KnownPrefixes /\ "Chrome" \in KnownPrefixes
  BY DEF KnownPrefixes
<1>3. \A m \in Majors : Profile("Chrome", m, 0) \in AllProfiles
  <2> SUFFICES ASSUME NEW m \in Majors PROVE Profile("Chrome", m, 0) \in AllProfiles
    OBVIOUS
  <2> DEFINE v == << m, 0 >>
  <2>1. v \in Numbered /\ v[1] = m /\ v[2] = 0
    BY DEF Numbered
  <2> QED BY <1>2, <2>1 DEF AllProfiles
<1>4. (majors \X {0}) \cup {<< 1, 1 >>} \subseteq Numbered
  BY DEF Numbered
<1> QED BY <1>1, <1>2, <1>3, <1>4 DEF AllProfiles

LEMMA FamilyOrdered ==
    ASSUME NEW offer \in Offers, NEW family
    PROVE  Ordered(OfFamily(offer, family))
<1> DEFINE S == OfFamily(offer, family)
<1>1. S \subseteq AllProfiles /\ IsFiniteSet(S)
  BY OffersKnown, AllProfilesFinite, FS_Subset DEF OfFamily
<1>2. \A p \in AllProfiles : \E prefix \in KnownPrefixes, m, k \in Nat : p = Profile(prefix, m, k)
  BY MCFunctionsAssumption DEF AllProfiles, Numbered
<1>3. ASSUME NEW p \in S, NEW q \in S PROVE p.prefix = q.prefix
  <2>1. PICK prefix \in KnownPrefixes, m \in Nat, k \in Nat : p = Profile(prefix, m, k)
    BY <1>1, <1>2
  <2>2. PICK prefix2 \in KnownPrefixes, m2 \in Nat, k2 \in Nat : q = Profile(prefix2, m2, k2)
    BY <1>1, <1>2
  <2>3. p.prefix = prefix /\ q.prefix = prefix2
    BY <2>1, <2>2 DEF Profile
  <2>4. /\ prefix \in DOMAIN FAMILY_BY_PREFIX /\ prefix2 \in DOMAIN FAMILY_BY_PREFIX
        /\ FAMILY_BY_PREFIX[prefix] = FAMILY_BY_PREFIX[prefix2]
    BY <2>3 DEF OfFamily
  <2> QED BY <2>3, <2>4 DEF KnownPrefixes, FAMILY_BY_PREFIX
<1>4. ASSUME NEW p \in S PROVE p.version \in Version
  <2>1. PICK prefix \in KnownPrefixes, m \in Nat, k \in Nat : p = Profile(prefix, m, k)
    BY <1>1, <1>2
  <2>2. p.version = (IF k = 0 THEN << m >> ELSE << m, k >>)
    BY <2>1 DEF Profile
  <2> QED BY <2>2 DEF Version
<1>5. ASSUME NEW p \in S, NEW q \in S, p # q PROVE p.version # q.version
  <2>1. PICK prefix \in KnownPrefixes, m \in Nat, k \in Nat : p = Profile(prefix, m, k)
    BY <1>1, <1>2
  <2>2. PICK m2 \in Nat, k2 \in Nat : q = Profile(prefix, m2, k2)
    <3>1. PICK prefix2 \in KnownPrefixes, m2 \in Nat, k2 \in Nat : q = Profile(prefix2, m2, k2)
      BY <1>1, <1>2
    <3>2. p.prefix = prefix /\ q.prefix = prefix2
      BY <2>1, <3>1 DEF Profile
    <3> QED BY <1>3, <3>1, <3>2
  <2>3. p.version = (IF k = 0 THEN << m >> ELSE << m, k >>)
    BY <2>1 DEF Profile
  <2>4. q.version = (IF k2 = 0 THEN << m2 >> ELSE << m2, k2 >>)
    BY <2>2 DEF Profile
  <2>5. SUFFICES ASSUME p.version = q.version PROVE m = m2 /\ k = k2
    BY <1>5, <2>1, <2>2
  <2>6. << m >> # << m2, k2 >> /\ << m2 >> # << m, k >>
    OBVIOUS
  <2> QED BY <2>3, <2>4, <2>5, <2>6
<1> HIDE DEF S
<1>6. \A p \in S : ~ Newer(p, p)
  BY <1>4, NewerCases DEF Version
<1>7. ASSUME NEW p \in S, NEW q \in S, p # q PROVE Newer(p, q) \/ Newer(q, p)
  <2>1. p.version \in Version /\ q.version \in Version /\ p.version # q.version
    BY <1>4, <1>5, <1>7
  <2>2. \/ p.version[1] # q.version[1]
        \/ Len(p.version) # Len(q.version)
        \/ Len(p.version) = 2 /\ Len(q.version) = 2 /\ p.version[2] # q.version[2]
    BY <2>1 DEF Version
  <2> DEFINE v == p.version
             w == q.version
  <2>3. /\ Len(v) \in {1, 2} /\ Len(w) \in {1, 2}
        /\ v[1] \in Nat /\ w[1] \in Nat
        /\ Len(v) = 2 => v[2] \in Nat
        /\ Len(w) = 2 => w[2] \in Nat
    BY <2>1 DEF Version
  <2>4. Newer(p, q) <=> \/ v[1] > w[1]
                        \/ v[1] = w[1] /\ Len(v) = 2 /\ (Len(w) = 2 => v[2] > w[2])
    BY <2>1, NewerCases
  <2>5. Newer(q, p) <=> \/ w[1] > v[1]
                        \/ w[1] = v[1] /\ Len(w) = 2 /\ (Len(v) = 2 => w[2] > v[2])
    BY <2>1, NewerCases
  <2> HIDE DEF v, w
  <2> QED BY <2>2, <2>3, <2>4, <2>5 DEF v, w
<1>8. ASSUME NEW p \in S, NEW q \in S, NEW r \in S, Newer(p, q), Newer(q, r) PROVE Newer(p, r)
  <2> DEFINE u == p.version
             v == q.version
             w == r.version
  <2>1. u \in Version /\ v \in Version /\ w \in Version
    BY <1>4
  <2>2. /\ Len(u) \in {1, 2} /\ Len(v) \in {1, 2} /\ Len(w) \in {1, 2}
        /\ u[1] \in Nat /\ v[1] \in Nat /\ w[1] \in Nat
        /\ Len(u) = 2 => u[2] \in Nat
        /\ Len(v) = 2 => v[2] \in Nat
        /\ Len(w) = 2 => w[2] \in Nat
    BY <2>1 DEF Version
  <2>3. u[1] > v[1] \/ (u[1] = v[1] /\ Len(u) = 2 /\ (Len(v) = 2 => u[2] > v[2]))
    BY <1>8, <2>1, NewerCases
  <2>4. v[1] > w[1] \/ (v[1] = w[1] /\ Len(v) = 2 /\ (Len(w) = 2 => v[2] > w[2]))
    BY <1>8, <2>1, NewerCases
  <2>5. Newer(p, r) <=> \/ u[1] > w[1]
                        \/ u[1] = w[1] /\ Len(u) = 2 /\ (Len(w) = 2 => u[2] > w[2])
    BY <2>1, NewerCases
  <2> HIDE DEF u, v, w
  <2> QED BY <2>2, <2>3, <2>4, <2>5
<1> QED BY <1>1, <1>6, <1>7, <1>8 DEF Ordered, S

-----------------------------------------------------------------------------
(* The choice of a profile.                                                *)

(* The newest of S that is not newer than `major`, or the oldest of all.   *)
Nearest(S, major, c) ==
    LET older == {p \in S : p.version[1] <= major}
    IN  IF older = {} THEN c \in S /\ \A p \in S \ {c} : Newer(p, c)
        ELSE c \in older /\ \A p \in older \ {c} : Newer(c, p)

LEMMA ClosestFound ==
    ASSUME NEW S, Ordered(S), S # {}, NEW list, Sorted(S, list), NEW major
    PROVE  Nearest(S, major, Closest(list, major))
<1> DEFINE older == {p \in S : p.version[1] <= major}
           fit == {i \in DOMAIN list : list[i].version[1] <= major}
<1>1. /\ list \in Seq(S) /\ Len(list) \in Nat /\ DOMAIN list = 1 .. Len(list)
      /\ \A i \in DOMAIN list : list[i] \in S
      /\ \A p \in S : \E i \in DOMAIN list : list[i] = p
      /\ \A i, j \in DOMAIN list : i < j => Newer(list[i], list[j])
  BY DEF Sorted
<1>2. CASE older = {}
  <2>1. fit = {}
    BY <1>1, <1>2
  <2>2. Closest(list, major) = list[Len(list)]
    BY <2>1 DEF Closest
  <2>3. Len(list) \in DOMAIN list
    BY <1>1
  <2>4. ASSUME NEW p \in S, p # list[Len(list)] PROVE Newer(p, list[Len(list)])
    <3>1. PICK i \in DOMAIN list : list[i] = p
      BY <1>1
    <3>2. i < Len(list)
      BY <1>1, <2>4, <3>1
    <3> QED BY <1>1, <2>3, <3>1, <3>2
  <2>5. list[Len(list)] \in S
    BY <1>1, <2>3
  <2> QED BY <1>2, <2>2, <2>4, <2>5 DEF Nearest
<1>3. CASE older # {}
  <2>1. Ordered(older)
    <3>1. older \subseteq S
      OBVIOUS
    <3>2. IsFiniteSet(older)
      BY <3>1, FS_Subset DEF Ordered
    <3> HIDE DEF older
    <3> QED BY <3>1, <3>2 DEF Ordered
  <2>2. PICK p \in older : Cardinality(Before(older, p)) = 0
    <3>1. IsFiniteSet(older) /\ Cardinality(older) \in Nat /\ Cardinality(older) # 0
      BY <1>3, <2>1, FS_CardinalityType, FS_EmptySet DEF Ordered
    <3> HIDE DEF older
    <3> QED BY <2>1, <3>1, PlacesTaken
  <2>3. Before(older, p) = {}
    <3>1. IsFiniteSet(Before(older, p))
      <4>1. IsFiniteSet(older) /\ Before(older, p) \subseteq older
        BY <2>1 DEF Ordered, Before
      <4> HIDE DEF older
      <4> QED BY <4>1, FS_Subset
    <3> QED BY <2>2, <3>1, FS_EmptySet
  <2>4. PICK i \in DOMAIN list : list[i] = p
    BY <1>1, <2>2
  <2>5. i \in fit /\ \A j \in fit : i <= j
    <3> SUFFICES ASSUME NEW j \in fit, j < i PROVE FALSE
      BY <1>1, <2>2, <2>4
    <3>1. Newer(list[j], p) /\ list[j] \in older
      BY <1>1, <2>4
    <3> QED BY <2>3, <3>1 DEF Before
  <2>6. (CHOOSE k \in fit : \A j \in fit : k <= j) = i
    <3> DEFINE k == CHOOSE k \in fit : \A j \in fit : k <= j
    <3>1. k \in fit /\ \A j \in fit : k <= j
      BY <2>5
    <3>2. k <= i /\ i <= k /\ i \in Nat /\ k \in Nat
      BY <1>1, <2>5, <3>1
    <3> QED BY <3>2
  <2>7. Closest(list, major) = p
    BY <2>4, <2>5, <2>6 DEF Closest
  <2>8. \A q \in older \ {p} : Newer(p, q)
    BY <2>1, <2>2, <2>3 DEF Ordered, Before
  <2> QED BY <1>3, <2>2, <2>7, <2>8 DEF Nearest
<1> QED BY <1>2, <1>3

(* The first place in a set of places.                                     *)
LEMMA FirstPlace ==
    ASSUME NEW I, NEW n \in I, I \subseteq Nat, \A i \in I : n <= i
    PROVE  Min(I) = n
<1> DEFINE m == CHOOSE x \in I : \A y \in I : x <= y
<1>1. m \in I /\ \A y \in I : m <= y
  OBVIOUS
<1>2. m = n
  <2>1. m \in Nat /\ n \in Nat /\ m <= n /\ n <= m
    BY <1>1
  <2> QED BY <2>1
<1> QED BY <1>2 DEF Min

(* The product a User-Agent is taken for, although some name others too.   *)
LEMMA ProductFound ==
    ASSUME NEW ua, NEW browser \in {"chrome", "edge", "firefox", "safari"},
           DOMAIN ua.major = ProductsOf(browser)
    PROVE  LET n == SelectInSeq(Products, LAMBDA p : p \in DOMAIN ua.major)
           IN  n # 0 /\ Products[n] = browser
<1> DEFINE I == {i \in 1 .. Len(Products) : Products[i] \in DOMAIN ua.major}
           n == SelectInSeq(Products, LAMBDA p : p \in DOMAIN ua.major)
<1>1. n = IF I # {} THEN Min(I) ELSE 0
  BY DEF SelectInSeq
<1>2. CASE browser = "edge"
  <2>1. I = {1, 5}
    BY <1>2 DEF Products, ProductsOf
  <2> HIDE DEF I
  <2>2. Min(I) = 1
    BY <2>1, FirstPlace
  <2> QED BY <1>1, <1>2, <2>1, <2>2 DEF Products
<1>3. CASE browser = "firefox"
  <2>1. I = {4}
    BY <1>3 DEF Products, ProductsOf
  <2> HIDE DEF I
  <2>2. Min(I) = 4
    BY <2>1, FirstPlace
  <2> QED BY <1>1, <1>3, <2>1, <2>2 DEF Products
<1>4. CASE browser = "chrome"
  <2>1. I = {5}
    BY <1>4 DEF Products, ProductsOf
  <2> HIDE DEF I
  <2>2. Min(I) = 5
    BY <2>1, FirstPlace
  <2> QED BY <1>1, <1>4, <2>1, <2>2 DEF Products
<1>5. CASE browser = "safari"
  <2>1. I = {6}
    BY <1>5 DEF Products, ProductsOf
  <2> HIDE DEF I
  <2>2. Min(I) = 6
    BY <2>1, FirstPlace
  <2> QED BY <1>1, <1>5, <2>1, <2>2 DEF Products
<1> QED BY <1>2, <1>3, <1>4, <1>5

(* The platform whose marks it bears: an Android names Linux too, an       *)
(* iPhone macOS.                                                           *)
LEMMA PlatformFound ==
    ASSUME NEW ua, NEW b \in Browsers, ua.marks = MarksOf(b.platform), NEW host
    PROVE  PlatformIn(ua, host) = PlatformName(b)
<1> DEFINE I == {i \in 1 .. Len(PlatformMarks) : PlatformMarks[i][2] \cap ua.marks # {}}
<1>1. ASSUME NEW n \in I, \A i \in I : n <= i PROVE PlatformIn(ua, host) = PlatformMarks[n][1]
  <2>1. Min(I) = n
    <3>1. I \subseteq Nat
      OBVIOUS
    <3> HIDE DEF I
    <3> QED BY <1>1, <3>1, FirstPlace
  <2>2. SelectInSeq(PlatformMarks, LAMBDA m : m[2] \cap ua.marks # {}) = Min(I)
    BY <1>1 DEF SelectInSeq
  <2>3. n # 0
    OBVIOUS
  <2> QED BY <2>1, <2>2, <2>3 DEF PlatformIn
<1>2. /\ Len(PlatformMarks) = 5
      /\ PlatformMarks[1][1] = "Android"
      /\ PlatformMarks[2][1] = "IOS"
      /\ PlatformMarks[3][1] = "Windows"
      /\ PlatformMarks[4][1] = "MacOS"
      /\ PlatformMarks[5][1] = "Linux"
  BY DEF PlatformMarks
<1>3. /\ I \subseteq 1 .. 5
      /\ 1 \in I <=> "Android" \in ua.marks
      /\ 2 \in I <=> ("iPhone" \in ua.marks \/ "iPad" \in ua.marks \/ "iPod" \in ua.marks)
      /\ 3 \in I <=> "Windows" \in ua.marks
      /\ 4 \in I <=> ("MacOSX" \in ua.marks \/ "Macintosh" \in ua.marks)
      /\ 5 \in I <=> "Linux" \in ua.marks
  <2>1. I \subseteq 1 .. 5
    BY <1>2
  <2>2. ASSUME NEW i \in 1 .. 5, NEW T, PlatformMarks[i][2] = T PROVE i \in I <=> T \cap ua.marks # {}
    BY <1>2, <2>2
  <2>3. PlatformMarks[1][2] = {"Android"}
    BY DEF PlatformMarks
  <2>4. PlatformMarks[2][2] = {"iPhone", "iPad", "iPod"}
    BY DEF PlatformMarks
  <2>5. PlatformMarks[3][2] = {"Windows"}
    BY DEF PlatformMarks
  <2>6. PlatformMarks[4][2] = {"MacOSX", "Macintosh"}
    BY DEF PlatformMarks
  <2>7. PlatformMarks[5][2] = {"Linux"}
    BY DEF PlatformMarks
  <2> HIDE DEF I
  <2>8. 1 \in I <=> {"Android"} \cap ua.marks # {}
    BY <2>2, <2>3
  <2>9. 2 \in I <=> {"iPhone", "iPad", "iPod"} \cap ua.marks # {}
    BY <2>2, <2>4
  <2>10. 3 \in I <=> {"Windows"} \cap ua.marks # {}
    BY <2>2, <2>5
  <2>11. 4 \in I <=> {"MacOSX", "Macintosh"} \cap ua.marks # {}
    BY <2>2, <2>6
  <2>12. 5 \in I <=> {"Linux"} \cap ua.marks # {}
    BY <2>2, <2>7
  <2> QED BY <2>1, <2>8, <2>9, <2>10, <2>11, <2>12
<1> HIDE DEF I
<1>4. b.platform \in {"Windows", "MacOS", "Linux", "Android", "IPhone", "IPad"}
  BY DEF Browsers
<1>5. CASE b.platform = "Windows"
  <2>1. ua.marks = {"Windows"}
    BY <1>5 DEF MarksOf
  <2>2. /\ "Windows" \in ua.marks /\ "Android" \notin ua.marks
        /\ "iPhone" \notin ua.marks /\ "iPad" \notin ua.marks /\ "iPod" \notin ua.marks
    BY <2>1
  <2>3. 3 \in I /\ 1 \notin I /\ 2 \notin I
    BY <1>3, <2>2
  <2>4. 3 \in I /\ \A i \in I : 3 <= i
    BY <1>3, <2>3
  <2> QED BY <1>1, <1>2, <1>5, <2>4 DEF PlatformName
<1>6. CASE b.platform = "MacOS"
  <2>1. ua.marks = {"Macintosh", "MacOSX"}
    BY <1>6 DEF MarksOf
  <2>2. /\ "MacOSX" \in ua.marks /\ "Android" \notin ua.marks /\ "Windows" \notin ua.marks
        /\ "iPhone" \notin ua.marks /\ "iPad" \notin ua.marks /\ "iPod" \notin ua.marks
    BY <2>1
  <2>3. 4 \in I /\ 1 \notin I /\ 2 \notin I /\ 3 \notin I
    BY <1>3, <2>2
  <2>4. 4 \in I /\ \A i \in I : 4 <= i
    BY <1>3, <2>3
  <2> QED BY <1>1, <1>2, <1>6, <2>4 DEF PlatformName
<1>7. CASE b.platform = "Linux"
  <2>1. ua.marks = {"Linux"}
    BY <1>7 DEF MarksOf
  <2>2. /\ "Linux" \in ua.marks /\ "Android" \notin ua.marks /\ "Windows" \notin ua.marks
        /\ "iPhone" \notin ua.marks /\ "iPad" \notin ua.marks /\ "iPod" \notin ua.marks
        /\ "MacOSX" \notin ua.marks /\ "Macintosh" \notin ua.marks
    BY <2>1
  <2>3. 5 \in I /\ 1 \notin I /\ 2 \notin I /\ 3 \notin I /\ 4 \notin I
    BY <1>3, <2>2
  <2>4. 5 \in I /\ \A i \in I : 5 <= i
    BY <1>3, <2>3
  <2> QED BY <1>1, <1>2, <1>7, <2>4 DEF PlatformName
<1>8. CASE b.platform = "Android"
  <2>1. ua.marks = {"Linux", "Android"}
    BY <1>8 DEF MarksOf
  <2>2. "Android" \in ua.marks
    BY <2>1
  <2>3. 1 \in I
    BY <1>3, <2>2
  <2>4. 1 \in I /\ \A i \in I : 1 <= i
    BY <1>3, <2>3
  <2> QED BY <1>1, <1>2, <1>8, <2>4 DEF PlatformName
<1>9. CASE b.platform \in {"IPhone", "IPad"}
  <2>1. ua.marks \in {{"iPhone", "MacOSX"}, {"iPad", "MacOSX"}}
    BY <1>9 DEF MarksOf
  <2>2. ("iPhone" \in ua.marks \/ "iPad" \in ua.marks) /\ "Android" \notin ua.marks
    BY <2>1
  <2>3. 2 \in I /\ 1 \notin I
    BY <1>3, <2>2
  <2>4. 2 \in I /\ \A i \in I : 2 <= i
    BY <1>3, <2>3
  <2> QED BY <1>1, <1>2, <1>9, <2>4 DEF PlatformName
<1> QED BY <1>4, <1>5, <1>6, <1>7, <1>8, <1>9

LEMMA RegistryFacts ==
    ASSUME NEW offer \in Offers
    PROVE  LET registry == BuildRegistry(offer)
           IN  \A family :
                 /\ Candidates(offer, family) = OfFamily(offer, family)
                 /\ family \in DOMAIN registry <=> Candidates(offer, family) # {}
                 /\ family \in DOMAIN registry => Sorted(Candidates(offer, family), registry[family])
<1> DEFINE registry == BuildRegistry(offer)
<1> SUFFICES ASSUME NEW family
             PROVE  /\ Candidates(offer, family) = OfFamily(offer, family)
                    /\ family \in DOMAIN registry <=> Candidates(offer, family) # {}
                    /\ family \in DOMAIN registry => Sorted(Candidates(offer, family), registry[family])
  OBVIOUS
<1>1. Candidates(offer, family) = OfFamily(offer, family)
  BY DEF Candidates, OfFamily
<1>2. DOMAIN registry = Families(offer)
  BY DEF BuildRegistry
<1>3. family \in Families(offer) <=> OfFamily(offer, family) # {}
  BY DEF Families, OfFamily
<1>4. family \in DOMAIN registry => registry[family] = NewestFirst(OfFamily(offer, family))
  BY DEF BuildRegistry
<1> HIDE DEF registry
<1> QED BY <1>1, <1>2, <1>3, <1>4, FamilyOrdered, NewestFirstSorts

(* The families that are asked for a profile are asked in their order.     *)
FamilyFor(b, registry) == Resolved(b.browser, PlatformName(b), MarksOf(b.platform), registry)

LEMMA FirstFamily ==
    ASSUME NEW offer, NEW b, NEW k \in DOMAIN FamiliesFor(b),
           DOMAIN FamiliesFor(b) \subseteq Nat \ {0}, Len(FamiliesFor(b)) \in Nat,
           DOMAIN FamiliesFor(b) = 1 .. Len(FamiliesFor(b)),
           Candidates(offer, FamiliesFor(b)[k]) # {},
           \A i \in DOMAIN FamiliesFor(b) : Candidates(offer, FamiliesFor(b)[i]) # {} => k <= i
    PROVE  PlaceOf(offer, b) = k
<1> DEFINE I == {i \in 1 .. Len(FamiliesFor(b)) : Candidates(offer, FamiliesFor(b)[i]) # {}}
<1>1. k \in I /\ I \subseteq Nat /\ \A i \in I : k <= i
  OBVIOUS
<1>2. PlaceOf(offer, b) = IF I # {} THEN Min(I) ELSE 0
  BY DEF PlaceOf, SelectInSeq
<1> HIDE DEF I
<1> QED BY <1>1, <1>2, FirstPlace

LEMMA NoFamily ==
    ASSUME NEW offer, NEW b, DOMAIN FamiliesFor(b) = 1 .. Len(FamiliesFor(b)),
           \A i \in DOMAIN FamiliesFor(b) : Candidates(offer, FamiliesFor(b)[i]) = {}
    PROVE  PlaceOf(offer, b) = 0
  BY DEF PlaceOf, SelectInSeq

LEMMA FamilyFound ==
    ASSUME NEW offer \in Offers, NEW b \in Browsers
    PROVE  LET n == PlaceOf(offer, b)
               family == FamilyFor(b, BuildRegistry(offer))
           IN  /\ n # 0 => FamiliesFor(b)[n] = family /\ Candidates(offer, family) # {}
               /\ n = 0 => Candidates(offer, family) = {}
<1> DEFINE families == FamiliesFor(b)
           registry == BuildRegistry(offer)
           Found(f) == Candidates(offer, f) # {}
           family == FamilyFor(b, registry)
<1>2. \A f : f \in DOMAIN registry <=> Found(f)
  BY RegistryFacts
<1> DEFINE Names == {"chrome", "edge", "firefox", "safari", "safari-ipad", "safari-ios", "firefox-android"}
<1>3. families \in Seq(Names)
  <2>1. families \in {<< "safari-ipad", "safari-ios", "safari" >>, << "safari-ios", "safari" >>,
                      << "firefox-android", "firefox" >>, << b.browser >>}
    BY DEF FamiliesFor
  <2>2. b.browser \in Names
    BY DEF Browsers
  <2>3. /\ "safari-ipad" \in Names /\ "safari-ios" \in Names /\ "safari" \in Names
        /\ "firefox-android" \in Names /\ "firefox" \in Names
    OBVIOUS
  <2> HIDE DEF families, Names
  <2>4. \A x, y, z \in Names :
            << x >> \in Seq(Names) /\ << x, y >> \in Seq(Names) /\ << x, y, z >> \in Seq(Names)
    OBVIOUS
  <2> QED BY <2>1, <2>2, <2>3, <2>4
<1>4. /\ Len(families) \in Nat /\ DOMAIN families = 1 .. Len(families)
      /\ DOMAIN families \subseteq Nat \ {0}
  <2> HIDE DEF families
  <2> QED BY <1>3
<1>5. SUFFICES \/ \E k \in DOMAIN families :
                     /\ families[k] = family /\ Found(families[k])
                     /\ \A i \in DOMAIN families : Found(families[i]) => k <= i
               \/ ~ Found(family) /\ \A i \in DOMAIN families : ~ Found(families[i])
  <2>1. ASSUME NEW k \in DOMAIN families, families[k] = family, Found(families[k]),
               \A i \in DOMAIN families : Found(families[i]) => k <= i
        PROVE  PlaceOf(offer, b) = k /\ k # 0
    BY <1>4, <2>1, FirstFamily
  <2>2. ASSUME \A i \in DOMAIN families : ~ Found(families[i])
        PROVE  PlaceOf(offer, b) = 0
    BY <1>4, <2>2, NoFamily
  <2> HIDE DEF family
  <2>3. CASE \E k \in DOMAIN families :
                 /\ families[k] = family /\ Found(families[k])
                 /\ \A i \in DOMAIN families : Found(families[i]) => k <= i
    BY <2>1, <2>3 DEF family
  <2>4. CASE ~ Found(family) /\ \A i \in DOMAIN families : ~ Found(families[i])
    BY <2>2, <2>4 DEF family
  <2> QED BY <1>5, <2>3, <2>4
<1> HIDE DEF registry, Found
<1>6. CASE b.browser = "safari" /\ b.platform = "IPad"
  <2>1. families = << "safari-ipad", "safari-ios", "safari" >>
    BY <1>6 DEF FamiliesFor
  <2>2. PlatformName(b) = "IOS" /\ "iPad" \in MarksOf(b.platform)
    BY <1>6 DEF PlatformName, MarksOf
  <2>3. family = IF Found("safari-ipad") THEN "safari-ipad"
                 ELSE IF Found("safari-ios") THEN "safari-ios" ELSE "safari"
    BY <1>2, <1>6, <2>2 DEF FamilyFor, Resolved
  <2>4. /\ Len(families) = 3
        /\ families[1] = "safari-ipad" /\ families[2] = "safari-ios" /\ families[3] = "safari"
    BY <2>1
  <2> HIDE DEF families, family
  <2> QED BY <1>4, <2>3, <2>4
<1>7. CASE b.browser = "safari" /\ b.platform = "IPhone"
  <2>1. families = << "safari-ios", "safari" >>
    BY <1>7 DEF FamiliesFor
  <2>2. PlatformName(b) = "IOS" /\ "iPad" \notin MarksOf(b.platform)
    BY <1>7 DEF PlatformName, MarksOf
  <2>3. family = IF Found("safari-ios") THEN "safari-ios" ELSE "safari"
    BY <1>2, <1>7, <2>2 DEF FamilyFor, Resolved
  <2>4. Len(families) = 2 /\ families[1] = "safari-ios" /\ families[2] = "safari"
    BY <2>1
  <2> HIDE DEF families, family
  <2> QED BY <1>4, <2>3, <2>4
<1>8. CASE b.browser = "firefox" /\ b.platform = "Android"
  <2>1. families = << "firefox-android", "firefox" >>
    BY <1>8 DEF FamiliesFor
  <2>2. PlatformName(b) = "Android"
    BY <1>8 DEF PlatformName
  <2>3. family = IF Found("firefox-android") THEN "firefox-android" ELSE "firefox"
    BY <1>2, <1>8, <2>2 DEF FamilyFor, Resolved
  <2>4. Len(families) = 2 /\ families[1] = "firefox-android" /\ families[2] = "firefox"
    BY <2>1
  <2> HIDE DEF families, family
  <2> QED BY <1>4, <2>3, <2>4
<1>9. CASE /\ b.browser = "safari" => b.platform \notin {"IPad", "IPhone"}
           /\ b.browser = "firefox" => b.platform # "Android"
  <2>1. families = << b.browser >>
    BY <1>9 DEF FamiliesFor
  <2>2. /\ b.browser = "safari" => PlatformName(b) # "IOS"
        /\ b.browser = "firefox" => PlatformName(b) # "Android"
    BY <1>9 DEF PlatformName, Browsers
  <2>3. family = b.browser
    BY <2>2 DEF FamilyFor, Resolved
  <2>4. Len(families) = 1 /\ families[1] = b.browser
    BY <2>1
  <2> HIDE DEF families, family
  <2> QED BY <1>4, <2>3, <2>4
<1> QED BY <1>6, <1>7, <1>8, <1>9

(* What matchEmulation makes of a browser.                                 *)
LEMMA BrowserMatched ==
    ASSUME NEW b \in Browsers, NEW major, NEW registry
    PROVE  LET family == FamilyFor(b, registry)
           IN  MatchEmulation(UserAgent(b, major), "Windows", registry) =
                   IF family \in DOMAIN registry
                   THEN Emulating(Closest(registry[family], major), PlatformName(b))
                   ELSE None
<1> DEFINE ua == UserAgent(b, major)
           n == SelectInSeq(Products, LAMBDA p : p \in DOMAIN ua.major)
<1>1. /\ ua.major = [p \in ProductsOf(b.browser) |-> major]
      /\ ua.marks = MarksOf(b.platform)
  BY DEF UserAgent
<1> HIDE DEF ua
<1>2. b.browser \in {"chrome", "edge", "firefox", "safari"}
  BY DEF Browsers
<1>3. n # 0 /\ Products[n] = b.browser
  BY <1>1, <1>2, ProductFound
<1>4. PlatformIn(ua, "Windows") = PlatformName(b)
  BY <1>1, PlatformFound
<1>5. PlatformOf(b.browser, PlatformName(b)) = PlatformName(b)
  BY <1>2 DEF PlatformOf, PLATFORM_BY_FAMILY
<1>6. ua.major[b.browser] = major
  <2>1. b.browser \in ProductsOf(b.browser)
    BY <1>2 DEF ProductsOf
  <2> QED BY <1>1, <2>1
<1>7. MatchEmulation(ua, "Windows", registry) =
        LET product == Products[n]
            platform == PlatformOf(product, PlatformIn(ua, "Windows"))
            family == Resolved(product, platform, ua.marks, registry)
        IN  IF n # 0 /\ family \in DOMAIN registry
            THEN Emulating(Closest(registry[family], ua.major[product]), platform)
            ELSE None
  BY DEF MatchEmulation
<1> HIDE DEF n
<1> QED BY <1>1, <1>3, <1>4, <1>5, <1>6, <1>7 DEF ua, FamilyFor

LEMMA AutoEmulates ==
    ASSUME NEW ua, NEW registry, "auto" \notin DOMAIN registry
    PROVE  ToEmulation("auto", ua, "Windows", registry) =
               IF MatchEmulation(ua, "Windows", registry) # None
               THEN MatchEmulation(ua, "Windows", registry)
               ELSE Emulating(registry["chrome"][1], "Windows")
  BY DEF ToEmulation

LEMMA ChromeEmulates ==
    ASSUME NEW registry, "chrome" \in DOMAIN registry
    PROVE  ToEmulation("chrome", "", "Windows", registry) = Emulating(registry["chrome"][1], "Windows")
  BY DEF ToEmulation, PlatformOf, PLATFORM_BY_FAMILY

LEMMA ImitationHolds ==
    ASSUME NEW i, i.offer \in Offers, i.browser \in Browsers, i.major \in Majors
    PROVE  Imitated(i)
<1> DEFINE registry == BuildRegistry(i.offer)
           n == PlaceOf(i.offer, i.browser)
           family == FamilyFor(i.browser, registry)
           S == Candidates(i.offer, family)
           c == Closest(registry[family], i.major)
           default == Emulating(registry["chrome"][1], "Windows")
           matched == MatchEmulation(UserAgent(i.browser, i.major), "Windows", registry)
           emulation == AutoEmulation(i)
<1>1. /\ n # 0 => FamiliesFor(i.browser)[n] = family /\ S # {}
      /\ n = 0 => S = {}
  BY FamilyFound
<1>2. matched = IF family \in DOMAIN registry THEN Emulating(c, PlatformName(i.browser)) ELSE None
  BY BrowserMatched
<1>3. emulation = IF matched # None THEN matched ELSE default
  <2>1. "auto" \notin Families(i.offer)
    BY DEF Families, FAMILY_BY_PREFIX
  <2>2. "auto" \notin DOMAIN registry
    BY <2>1 DEF BuildRegistry
  <2> HIDE DEF registry
  <2> QED BY <2>2, AutoEmulates DEF AutoEmulation, registry
<1>4. ToEmulation("chrome", "", "Windows", registry) = default
  <2>1. Profile("Chrome", i.major, 0) \in i.offer
    BY DEF Offers
  <2>2. Profile("Chrome", i.major, 0).prefix = "Chrome"
    BY DEF Profile
  <2>3. Candidates(i.offer, "chrome") # {}
    <3>1. "Chrome" \in DOMAIN FAMILY_BY_PREFIX /\ FAMILY_BY_PREFIX["Chrome"] = "chrome"
      BY DEF FAMILY_BY_PREFIX
    <3> QED BY <2>1, <2>2, <3>1 DEF Candidates
  <2> QED BY <2>3, RegistryFacts, ChromeEmulates
<1>5. family \in DOMAIN registry <=> S # {}
  BY RegistryFacts
<1>6. family \in DOMAIN registry => Ordered(S) /\ Sorted(S, registry[family])
  BY RegistryFacts, FamilyOrdered
<1>7. S # {} => Nearest(S, i.major, c)
  <2> HIDE DEF S, registry, family
  <2> QED BY <1>5, <1>6, ClosestFound
<1>8. CASE n # 0
  <2>1. PlatformName(i.browser) # "none"
    BY DEF PlatformName, Browsers
  <2>2. Emulating(c, PlatformName(i.browser)) # None
    <3> HIDE DEF c
    <3>1. Emulating(c, PlatformName(i.browser)).platform = PlatformName(i.browser) /\ None.platform = "none"
      BY DEF Emulating, None
    <3> QED BY <2>1, <3>1
  <2> HIDE DEF registry, family, S, c, matched, emulation, n
  <2>3. emulation = Emulating(c, PlatformName(i.browser))
    BY <1>1, <1>2, <1>3, <1>5, <1>8, <2>2
  <2>4. emulation.profile = c /\ emulation.platform = PlatformName(i.browser)
    BY <2>3 DEF Emulating
  <2>5. Candidates(i.offer, FamiliesFor(i.browser)[n]) = S
    BY <1>1, <1>8 DEF S
  <2>6. Nearest(S, i.major, c)
    BY <1>1, <1>7, <1>8
  <2> QED BY <1>8, <2>4, <2>5, <2>6 DEF Imitated, Nearest, emulation, n
<1>9. CASE n = 0
  <2>1. emulation = default
    BY <1>1, <1>2, <1>3, <1>5, <1>9
  <2> HIDE DEF family, S, c, matched, emulation, n, default
  <2> QED BY <1>4, <1>9, <2>1 DEF Imitated, emulation, n
<1> QED BY <1>8, <1>9

(* A browser is imitated by a profile of its own family, the nearest to    *)
(* its version, on its own platform, and one of an unknown family by the   *)
(* newest Chrome (matchEmulation and toEmulation, _client.py): for every   *)
(* set of versions that the library offers.                                *)
THEOREM BrowserAlwaysImitated == Spec => []BrowserIsImitated
<1>1. Init => BrowserIsImitated
  BY ImitationHolds DEF Init, Imitations, BrowserIsImitated
<1>2. BrowserIsImitated /\ UNCHANGED vars => BrowserIsImitated'
  BY DEF BrowserIsImitated, vars
<1> QED BY <1>1, <1>2, PTL DEF Spec, Next

-----------------------------------------------------------------------------
(***************************************************************************)
(* A map arrives as it was sent.                                           *)
(*                                                                         *)
(* The argument.  FlattenSeq meets its equation (JoinGrows), so that a     *)
(* text joined from pieces has its separators where the pieces end         *)
(* (JoinIsLaidOut); Split finds these places again by counting those       *)
(* before each (SplitFinds), and the first "=" of a piece ends its key     *)
(* (PairIsRead).  The inductions are over sets of numbers: a set that is   *)
(* not empty has a least number (LeastNumber).                             *)
(***************************************************************************)

LEMMA LeastNumber ==
    ASSUME NEW T, T \subseteq Nat, T # {}
    PROVE  \E x \in T : \A y \in T : x <= y
<1> DEFINE R == OpToRel(<, Nat)
<1>1. IsWellFoundedOn(R, Nat)
  BY NatLessThanWellFounded
<1>2. \A x, y \in Nat : <<y, x>> \in R <=> y < x
  BY DEF OpToRel
<1> HIDE DEF R
<1>3. PICK x \in T : \A y \in T : ~ (<<y, x>> \in R)
  BY <1>1, WFMin
<1>4. \A y \in T : ~ (y < x)
  BY <1>2, <1>3
<1> QED BY <1>3, <1>4

(* Induction in the form the provers can use: about a set of numbers.      *)
LEMMA Induction ==
    ASSUME NEW m \in Nat, NEW n \in Nat, NEW S, m \in S,
           \A i \in m .. n - 1 : i \in S => i + 1 \in S
    PROVE  \A i \in m .. n : i \in S
<1> DEFINE T == {i \in m .. n : i \notin S}
<1>1. SUFFICES ASSUME T # {} PROVE FALSE
  OBVIOUS
<1>2. PICK x \in T : \A y \in T : x <= y
  <2>1. T \subseteq Nat
    OBVIOUS
  <2> HIDE DEF T
  <2> QED BY <1>1, <2>1, LeastNumber
<1>3. x \in m + 1 .. n /\ x - 1 \in m .. n - 1 /\ x - 1 \notin T /\ (x - 1) + 1 = x
  BY <1>2
<1> QED BY <1>2, <1>3

(* f holds the sequence of the first i of seqs at i, up to n.              *)
Joins(f, C, seqs, n) ==
    /\ f \in [1 .. n -> Seq(C)]
    /\ f[1] = seqs[1]
    /\ \A i \in 2 .. n : f[i] = f[i - 1] \o seqs[i]

LEMMA Concatenation ==
    ASSUME NEW C, NEW s \in Seq(C), NEW t \in Seq(C)
    PROVE  /\ s \o t \in Seq(C)
           /\ Len(s) \in Nat /\ Len(t) \in Nat /\ Len(s \o t) = Len(s) + Len(t)
           /\ \A k \in 1 .. Len(s) : (s \o t)[k] = s[k]
           /\ \A k \in 1 .. Len(t) : (s \o t)[Len(s) + k] = t[k]
  OBVIOUS

LEMMA JoinExists ==
    ASSUME NEW C, NEW seqs \in Seq(Seq(C)), NEW n \in 1 .. Len(seqs)
    PROVE  \E f : Joins(f, C, seqs, n)
<1> DEFINE N == Len(seqs)
           S == {k \in Nat : \E f : Joins(f, C, seqs, k)}
<1>0. N \in Nat \ {0} /\ n \in 1 .. N /\ \A i \in 1 .. N : seqs[i] \in Seq(C)
  OBVIOUS
<1> HIDE DEF N
<1>1. 1 \in S
  <2>1. Joins([i \in 1 .. 1 |-> seqs[i]], C, seqs, 1)
    BY <1>0 DEF Joins
  <2> QED BY <2>1
<1>2. ASSUME NEW k \in 1 .. N - 1, k \in S PROVE k + 1 \in S
  <2>1. PICK f : Joins(f, C, seqs, k)
    BY <1>2
  <2> DEFINE s == f[k] \o seqs[k + 1]
             g == [i \in 1 .. k + 1 |-> IF i = k + 1 THEN s ELSE f[i]]
  <2>2. k \in Nat \ {0} /\ k + 1 \in 1 .. N /\ k \in 1 .. k
    BY <1>0
  <2>3. s \in Seq(C) /\ s = f[k] \o seqs[k + 1]
    <3>1. f[k] \in Seq(C) /\ seqs[k + 1] \in Seq(C)
      BY <1>0, <2>1, <2>2 DEF Joins
    <3> QED BY <3>1
  <2> HIDE DEF s
  <2>4. g \in [1 .. k + 1 -> Seq(C)]
    BY <2>1, <2>2, <2>3 DEF Joins
  <2>5. ASSUME NEW i \in 2 .. k + 1
        PROVE  g[i] = g[i - 1] \o seqs[i]
    <3>1. CASE i = k + 1
      <4>1. i # 1 /\ i - 1 = k /\ k \in 1 .. k + 1 /\ k # k + 1
        BY <2>2, <3>1
      <4>2. g[i] = s /\ g[i - 1] = f[k]
        BY <2>2, <3>1, <4>1
      <4> QED BY <2>3, <3>1, <4>2
    <3>2. CASE i # k + 1
      <4>1. i \in 2 .. k /\ i - 1 \in 1 .. k
        BY <2>2, <3>2
      <4>2. g[i] = f[i] /\ g[i - 1] = f[i - 1]
        BY <2>2, <3>2, <4>1
      <4> QED BY <2>1, <4>1, <4>2 DEF Joins
    <3> QED BY <3>1, <3>2
  <2>6. g[1] = seqs[1]
    BY <2>1, <2>2 DEF Joins
  <2>7. Joins(g, C, seqs, k + 1)
    BY <2>4, <2>5, <2>6 DEF Joins
  <2> QED BY <2>2, <2>7
<1> HIDE DEF S
<1>3. n \in S
  <2>1. \A i \in 1 .. N : i \in S
    BY <1>0, <1>1, <1>2, Induction
  <2> QED BY <1>0, <2>1
<1> QED BY <1>3 DEF S

(* FlattenSeq meets its equation.                                          *)
LEMMA JoinGrows ==
    ASSUME NEW C, NEW seqs \in Seq(Seq(C)), Len(seqs) # 0
    PROVE  \E f : Joins(f, C, seqs, Len(seqs)) /\ FlattenSeq(seqs) = f[Len(seqs)]
<1> DEFINE N == Len(seqs)
           Step(f) == [i \in 1 .. N |-> IF i = 1 THEN seqs[i] ELSE f[i - 1] \o seqs[i]]
           flatten == CHOOSE f : f = Step(f)
<1>0. N \in Nat \ {0} /\ N \in 1 .. N /\ \A i \in 1 .. N : seqs[i] \in Seq(C)
  OBVIOUS
<1>1. FlattenSeq(seqs) = flatten[N]
  BY DEF FlattenSeq
<1>2. PICK g : Joins(g, C, seqs, N)
  BY <1>0, JoinExists
<1>3. g = Step(g)
  <2>0. g[1] = seqs[1] /\ \A i \in 2 .. N : g[i] = g[i - 1] \o seqs[i]
    BY <1>2 DEF Joins
  <2>1. ASSUME NEW i \in 1 .. N
        PROVE  g[i] = IF i = 1 THEN seqs[i] ELSE g[i - 1] \o seqs[i]
    <3>1. CASE i = 1
      BY <2>0, <3>1
    <3>2. CASE i # 1
      <4>1. i \in 2 .. N
        BY <1>0, <3>2
      <4>2. g[i] = g[i - 1] \o seqs[i]
        BY <2>0, <4>1
      <4> QED BY <3>2, <4>2
    <3> QED BY <3>1, <3>2
  <2>2. g \in [1 .. N -> Seq(C)]
    BY <1>2 DEF Joins
  <2> HIDE DEF N
  <2> QED BY <2>1, <2>2
<1>4. flatten = Step(flatten)
  <2> HIDE DEF Step
  <2> QED BY <1>3
<1> HIDE DEF flatten, N
<1>5. \A i \in 1 .. N : flatten[i] = IF i = 1 THEN seqs[i] ELSE flatten[i - 1] \o seqs[i]
  BY <1>4
<1>6. flatten[1] = seqs[1] /\ flatten = [i \in 1 .. N |-> flatten[i]]
  <2>1. 1 \in 1 .. N
    BY <1>0
  <2>2. flatten[1] = seqs[1]
    BY <1>5, <2>1
  <2>3. flatten = [i \in 1 .. N |-> flatten[i]]
    BY <1>4
  <2> QED BY <2>2, <2>3
<1>7. ASSUME NEW i \in 2 .. N PROVE flatten[i] = flatten[i - 1] \o seqs[i]
  <2>1. i \in 1 .. N /\ i # 1
    BY <1>0
  <2> QED BY <1>5, <2>1
<1> HIDE DEF Step
<1> DEFINE S == {i \in 1 .. N : flatten[i] \in Seq(C)}
<1>8. 1 \in S
  <2>1. seqs[1] \in Seq(C) /\ 1 \in 1 .. N
    BY <1>0
  <2> QED BY <1>6, <2>1
<1>9. ASSUME NEW i \in 1 .. N - 1, i \in S PROVE i + 1 \in S
  <2>1. i + 1 \in 2 .. N /\ i + 1 \in 1 .. N /\ (i + 1) - 1 = i /\ flatten[i] \in Seq(C)
    BY <1>0, <1>9
  <2>2. flatten[i + 1] = flatten[(i + 1) - 1] \o seqs[i + 1]
    BY <1>7, <2>1
  <2>3. seqs[i + 1] \in Seq(C)
    BY <1>0, <2>1
  <2>4. flatten[i] \o seqs[i + 1] \in Seq(C)
    BY <2>1, <2>3
  <2>5. flatten[i + 1] \in Seq(C)
    BY <2>1, <2>2, <2>4
  <2> QED BY <2>1, <2>5
<1> HIDE DEF S
<1>10. \A i \in 1 .. N : i \in S
  BY <1>0, <1>8, <1>9, Induction
<1>11. flatten \in [1 .. N -> Seq(C)]
  <2>1. \A i \in 1 .. N : flatten[i] \in Seq(C)
    BY <1>10 DEF S
  <2> QED BY <1>6, <2>1
<1>12. Joins(flatten, C, seqs, N)
  BY <1>6, <1>7, <1>11 DEF Joins
<1> QED BY <1>1, <1>12 DEF N

(* What is joined stays as it is.                                          *)
LEMMA JoinKeeps ==
    ASSUME NEW C, NEW seqs \in Seq(Seq(C)), NEW n \in 1 .. Len(seqs), NEW f, Joins(f, C, seqs, n),
           NEW i \in 1 .. n
    PROVE  Len(f[i]) <= Len(f[n]) /\ \A k \in 1 .. Len(f[i]) : f[n][k] = f[i][k]
<1> DEFINE Keeps(s, t) == Len(s) <= Len(t) /\ \A k \in 1 .. Len(s) : t[k] = s[k]
           S == {j \in Nat : Keeps(f[i], f[j])}
<1>1. n \in Nat /\ i \in Nat /\ i <= n /\ i >= 1 /\ n <= Len(seqs) /\ Len(seqs) \in Nat
  OBVIOUS
<1>2. \A j \in 1 .. n : f[j] \in Seq(C)
  BY DEF Joins
<1>3. ASSUME NEW s \in Seq(C), NEW t \in Seq(C), NEW u \in Seq(C), Keeps(s, t)
      PROVE  Keeps(s, t \o u)
  <2>1. /\ Len(s) \in Nat /\ Len(t) \in Nat /\ Len(u) \in Nat /\ Len(t \o u) = Len(t) + Len(u)
        /\ \A k \in 1 .. Len(t) : (t \o u)[k] = t[k]
    BY Concatenation
  <2> QED BY <1>3, <2>1
<1>4. i \in S
  <2>1. Len(f[i]) \in Nat
    BY <1>2
  <2> QED BY <1>1, <2>1
<1> HIDE DEF Keeps
<1>5. ASSUME NEW j \in i .. n - 1, j \in S PROVE j + 1 \in S
  <2>1. j \in 1 .. n /\ j + 1 \in 2 .. n /\ (j + 1) - 1 = j /\ j + 1 \in 1 .. Len(seqs) /\ j + 1 \in Nat
    BY <1>1
  <2>2. f[j + 1] = f[(j + 1) - 1] \o seqs[j + 1]
    BY <2>1 DEF Joins
  <2>3. f[i] \in Seq(C) /\ f[j] \in Seq(C) /\ seqs[j + 1] \in Seq(C)
    BY <1>2, <2>1
  <2>4. Keeps(f[i], f[j])
    BY <1>5
  <2>5. Keeps(f[i], f[j] \o seqs[j + 1])
    BY <1>3, <2>3, <2>4
  <2> QED BY <2>1, <2>2, <2>5
<1> HIDE DEF S
<1>6. \A j \in i .. n : j \in S
  BY <1>1, <1>4, <1>5, Induction
<1>7. n \in S
  BY <1>1, <1>6
<1> QED BY <1>7 DEF S, Keeps

(* A text is laid out in pieces: the i-th ends before end[i], where there  *)
(* is a separator, unless it is the last.                                  *)
LaidOut(text, separator, pieces, end) ==
    /\ end \in [0 .. Len(pieces) -> Nat]
    /\ end[0] = 0
    /\ end[Len(pieces)] = Len(text) + 1
    /\ \A i \in 1 .. Len(pieces) :
          /\ end[i] = end[i - 1] + Len(pieces[i]) + 1
          /\ i # Len(pieces) => text[end[i]] = separator
          /\ \A k \in 1 .. Len(pieces[i]) : text[end[i - 1] + k] = pieces[i][k]

LEMMA JoinIsLaidOut ==
    ASSUME NEW C, NEW separator \in C, NEW pieces \in Seq(Seq(C)), Len(pieces) # 0
    PROVE  LET text == FlattenSeq(Separated(separator, pieces))
           IN  text \in Seq(C) /\ \E end : LaidOut(text, separator, pieces, end)
<1> DEFINE N == Len(pieces)
           seqs == Separated(separator, pieces)
           text == FlattenSeq(seqs)
<1>1. N \in Nat \ {0} /\ N \in 1 .. N /\ 1 \in 1 .. N /\ DOMAIN pieces = 1 .. N
  OBVIOUS
<1>2. \A i \in 1 .. N : pieces[i] \in Seq(C) /\ Len(pieces[i]) \in Nat
  OBVIOUS
<1>3. seqs = [i \in 1 .. N |-> (IF i = 1 THEN << >> ELSE << separator >>) \o pieces[i]]
  BY <1>1 DEF Separated
<1> HIDE DEF N, seqs
<1>4. /\ seqs[1] \in Seq(C) /\ Len(seqs[1]) = Len(pieces[1])
      /\ \A k \in 1 .. Len(pieces[1]) : seqs[1][k] = pieces[1][k]
  <2>1. seqs[1] = << >> \o pieces[1] /\ pieces[1] \in Seq(C)
    BY <1>1, <1>2, <1>3
  <2>2. Len(<< >>) = 0 /\ << >> \in Seq(C)
    OBVIOUS
  <2> QED BY <2>1, <2>2
<1>5. ASSUME NEW i \in 2 .. N
      PROVE  /\ seqs[i] \in Seq(C) /\ Len(seqs[i]) = Len(pieces[i]) + 1
             /\ seqs[i][1] = separator
             /\ \A k \in 1 .. Len(pieces[i]) : seqs[i][k + 1] = pieces[i][k]
  <2>1. i \in 1 .. N /\ i # 1
    BY <1>1
  <2>2. seqs[i] = << separator >> \o pieces[i] /\ pieces[i] \in Seq(C)
    BY <1>2, <1>3, <2>1
  <2>3. Len(<< separator >>) = 1 /\ << separator >> \in Seq(C) /\ << separator >>[1] = separator
    OBVIOUS
  <2> QED BY <2>2, <2>3
<1>6. seqs \in Seq(Seq(C)) /\ Len(seqs) = N
  <2>1. \A i \in 1 .. N : seqs[i] \in Seq(C)
    <3> TAKE i \in 1 .. N
    <3>1. CASE i = 1
      BY <1>4, <3>1
    <3>2. CASE i # 1
      <4>1. i \in 2 .. N
        BY <1>1, <3>2
      <4> QED BY <1>5, <4>1
    <3> QED BY <3>1, <3>2
  <2>2. seqs = [i \in 1 .. N |-> seqs[i]]
    BY <1>3
  <2>3. seqs \in [1 .. N -> Seq(C)]
    BY <2>1, <2>2
  <2> QED BY <1>1, <2>3
<1>7. PICK f : Joins(f, C, seqs, N) /\ text = f[N]
  BY <1>1, <1>6, JoinGrows
<1> DEFINE len == [i \in 1 .. N |-> Len(f[i])]
           size == [i \in 1 .. N |-> Len(pieces[i])]
<1>8. \A i \in 1 .. N : f[i] \in Seq(C) /\ Len(f[i]) = len[i] /\ len[i] \in Nat
  <2>1. \A i \in 1 .. N : f[i] \in Seq(C)
    <3> HIDE DEF text
    <3> QED BY <1>7 DEF Joins
  <2> QED BY <2>1
<1>9. \A i \in 1 .. N : Len(pieces[i]) = size[i] /\ size[i] \in Nat
  BY <1>2
<1> HIDE DEF text, len, size
<1>10. f[1] = seqs[1] /\ \A i \in 2 .. N : f[i] = f[i - 1] \o seqs[i]
  BY <1>7 DEF Joins
<1>11. text \in Seq(C) /\ Len(text) = len[N] /\ len[N] \in Nat
  BY <1>1, <1>7, <1>8
<1>12. ASSUME NEW i \in 1 .. N
       PROVE  len[i] <= len[N] /\ \A k \in 1 .. len[i] : text[k] = f[i][k]
  <2>1. Len(f[i]) <= Len(f[N]) /\ \A k \in 1 .. Len(f[i]) : f[N][k] = f[i][k]
    <3>1. N \in 1 .. Len(seqs)
      BY <1>1, <1>6
    <3> QED BY <1>6, <1>7, <3>1, JoinKeeps
  <2> QED BY <1>1, <1>7, <1>8, <2>1
<1>13. /\ len[1] = size[1]
       /\ \A k \in 1 .. size[1] : text[k] = pieces[1][k]
  BY <1>1, <1>4, <1>8, <1>9, <1>10, <1>12
<1>14. ASSUME NEW i \in 2 .. N
       PROVE  /\ i \in 1 .. N /\ i - 1 \in 1 .. N
              /\ len[i] = len[i - 1] + size[i] + 1
              /\ text[len[i - 1] + 1] = separator
              /\ \A k \in 1 .. size[i] : text[len[i - 1] + 1 + k] = pieces[i][k]
  <2>1. i \in 1 .. N /\ i - 1 \in 1 .. N
    BY <1>1
  <2>2. f[i] = f[i - 1] \o seqs[i] /\ f[i - 1] \in Seq(C) /\ seqs[i] \in Seq(C)
    BY <1>5, <1>8, <1>10, <2>1
  <2>3. /\ Len(f[i - 1]) = len[i - 1] /\ len[i - 1] \in Nat
        /\ Len(seqs[i]) = size[i] + 1 /\ size[i] \in Nat
    BY <1>5, <1>8, <1>9, <2>1
  <2>4. /\ Len(f[i]) = len[i - 1] + (size[i] + 1)
        /\ \A m \in 1 .. (size[i] + 1) : f[i][len[i - 1] + m] = seqs[i][m]
    <3>1. /\ Len(f[i - 1] \o seqs[i]) = Len(f[i - 1]) + Len(seqs[i])
          /\ \A m \in 1 .. Len(seqs[i]) : (f[i - 1] \o seqs[i])[Len(f[i - 1]) + m] = seqs[i][m]
      <4> DEFINE s == f[i - 1]
                 t == seqs[i]
      <4>1. s \in Seq(C) /\ t \in Seq(C)
        BY <2>2
      <4> HIDE DEF s, t
      <4>2. /\ Len(s \o t) = Len(s) + Len(t)
            /\ \A m \in 1 .. Len(t) : (s \o t)[Len(s) + m] = t[m]
        BY <4>1, Concatenation
      <4> QED BY <4>2 DEF s, t
    <3> QED BY <2>2, <2>3, <3>1, Zenon
  <2>5. len[i] = len[i - 1] + size[i] + 1
    <3>1. Len(f[i]) = len[i]
      BY <1>8, <2>1
    <3>2. len[i] = len[i - 1] + (size[i] + 1)
      BY <2>4, <3>1
    <3> QED BY <2>3, <3>2
  <2>6. ASSUME NEW m \in 1 .. (size[i] + 1) PROVE text[len[i - 1] + m] = seqs[i][m]
    <3>1. len[i - 1] + m \in 1 .. len[i]
      BY <2>3, <2>5
    <3> QED BY <1>12, <2>1, <2>4, <3>1
  <2>7. text[len[i - 1] + 1] = separator
    <3>1. 1 \in 1 .. (size[i] + 1)
      BY <2>3
    <3>2. seqs[i][1] = separator
      BY <1>5
    <3> QED BY <2>6, <3>1, <3>2
  <2>8. ASSUME NEW k \in 1 .. size[i]
        PROVE  text[len[i - 1] + 1 + k] = pieces[i][k]
    <3>1. k + 1 \in 1 .. (size[i] + 1) /\ len[i - 1] + (k + 1) = len[i - 1] + 1 + k
      BY <2>3
    <3>2. text[len[i - 1] + (k + 1)] = seqs[i][k + 1]
      BY <2>6, <3>1
    <3>3. seqs[i][k + 1] = pieces[i][k]
      BY <1>5, <1>9, <2>1
    <3> QED BY <3>1, <3>2, <3>3
  <2> QED BY <2>1, <2>5, <2>7, <2>8
<1> DEFINE end == [i \in 0 .. N |-> IF i = 0 THEN 0 ELSE len[i] + 1]
<1>15. end \in [0 .. N -> Nat]
  <2>1. \A i \in 0 .. N : i # 0 => i \in 1 .. N
    BY <1>1
  <2> QED BY <1>8, <2>1
<1>16. end[0] = 0 /\ \A i \in 1 .. N : end[i] = len[i] + 1
  BY <1>1
<1> HIDE DEF end
<1>17. end[N] = Len(text) + 1
  BY <1>1, <1>11, <1>16
<1>18. ASSUME NEW i \in 1 .. N
       PROVE  /\ end[i] = end[i - 1] + size[i] + 1
              /\ \A k \in 1 .. size[i] : text[end[i - 1] + k] = pieces[i][k]
  <2>1. CASE i = 1
    <3>1. end[i] = size[1] + 1 /\ end[i - 1] = 0 /\ size[1] \in Nat
      BY <1>1, <1>9, <1>13, <1>16, <2>1
    <3>2. ASSUME NEW k \in 1 .. size[1] PROVE text[end[i - 1] + k] = pieces[1][k]
      <4>1. end[i - 1] + k = k
        BY <3>1
      <4> QED BY <1>13, <4>1
    <3> QED BY <2>1, <3>1, <3>2
  <2>2. CASE i # 1
    <3>1. i \in 2 .. N
      BY <1>1, <2>2
    <3>2. /\ i - 1 \in 1 .. N
          /\ len[i] = len[i - 1] + size[i] + 1
          /\ \A k \in 1 .. size[i] : text[len[i - 1] + 1 + k] = pieces[i][k]
      BY <1>14, <3>1
    <3>3. end[i] = len[i] + 1 /\ end[i - 1] = len[i - 1] + 1
      BY <1>16, <3>2
    <3>4. len[i] \in Nat /\ len[i - 1] \in Nat /\ size[i] \in Nat
      BY <1>8, <1>9, <3>2
    <3> QED BY <3>2, <3>3, <3>4
  <2> QED BY <2>1, <2>2
<1>19. ASSUME NEW i \in 1 .. N, i # N PROVE text[end[i]] = separator
  <2>1. i + 1 \in 2 .. N /\ (i + 1) - 1 = i
    BY <1>1, <1>19
  <2>2. text[len[(i + 1) - 1] + 1] = separator
    BY <1>14, <2>1
  <2> QED BY <1>16, <2>1, <2>2
<1>20. \A i \in 1 .. N :
         /\ end[i] = end[i - 1] + Len(pieces[i]) + 1
         /\ i # N => text[end[i]] = separator
         /\ \A k \in 1 .. Len(pieces[i]) : text[end[i - 1] + k] = pieces[i][k]
  BY <1>9, <1>18, <1>19
<1>21. LaidOut(text, separator, pieces, end)
  BY <1>15, <1>16, <1>17, <1>20 DEF LaidOut, N
<1> QED BY <1>11, <1>21 DEF text, seqs

(* The separators of a text laid out in pieces are where they end.         *)
LEMMA EndsGrow ==
    ASSUME NEW text, NEW separator, NEW C, NEW pieces \in Seq(Seq(C)), NEW end,
           LaidOut(text, separator, pieces, end),
           NEW j \in 0 .. Len(pieces), NEW i \in 0 .. j, i # j
    PROVE  end[i] < end[j]
<1> DEFINE N == Len(pieces)
           S == {k \in Nat : end[i] < end[k]}
<1>1. N \in Nat /\ j \in Nat /\ i \in Nat /\ i + 1 <= j /\ j <= N
  OBVIOUS
<1>2. /\ \A k \in 0 .. N : end[k] \in Nat
      /\ \A k \in 1 .. N : end[k] = end[k - 1] + Len(pieces[k]) + 1
  BY DEF LaidOut
<1>3. \A k \in 1 .. N : Len(pieces[k]) \in Nat
  OBVIOUS
<1> HIDE DEF N
<1>4. ASSUME NEW k \in 1 .. N PROVE end[k - 1] < end[k]
  <2>1. k \in 0 .. N /\ k - 1 \in 0 .. N
    BY <1>1
  <2>2. end[k] \in Nat /\ end[k - 1] \in Nat /\ Len(pieces[k]) \in Nat
    BY <1>2, <1>3, <2>1
  <2>3. end[k] = end[k - 1] + Len(pieces[k]) + 1
    BY <1>2
  <2> QED BY <2>2, <2>3
<1>5. i + 1 \in S
  <2>1. i + 1 \in 1 .. N /\ (i + 1) - 1 = i /\ i + 1 \in Nat
    BY <1>1
  <2> QED BY <1>4, <2>1
<1>6. ASSUME NEW k \in i + 1 .. j - 1, k \in S PROVE k + 1 \in S
  <2>1. k + 1 \in 1 .. N /\ (k + 1) - 1 = k /\ k + 1 \in Nat /\ k \in 0 .. N /\ k + 1 \in 0 .. N
    BY <1>1
  <2>2. end[k] < end[k + 1]
    BY <1>4, <2>1
  <2>3. end[i] \in Nat /\ end[k] \in Nat /\ end[k + 1] \in Nat
    BY <1>1, <1>2, <2>1
  <2>4. end[i] < end[k]
    BY <1>6
  <2> QED BY <2>1, <2>2, <2>3, <2>4
<1> HIDE DEF S
<1>7. \A k \in i + 1 .. j : k \in S
  <2> DEFINE a == i + 1
  <2>1. a \in Nat /\ j \in Nat /\ a \in S /\ \A k \in a .. j - 1 : k \in S => k + 1 \in S
    BY <1>1, <1>5, <1>6
  <2> HIDE DEF a
  <2>2. \A k \in a .. j : k \in S
    BY <2>1, Induction
  <2> QED BY <2>2 DEF a
<1>8. j \in S
  BY <1>1, <1>7
<1> QED BY <1>8 DEF S

LEMMA EndsAre ==
    ASSUME NEW C, NEW text \in Seq(C), NEW separator, NEW pieces \in Seq(Seq(C)), Len(pieces) # 0,
           \A i \in 1 .. Len(pieces) : \A k \in 1 .. Len(pieces[i]) : pieces[i][k] # separator,
           NEW end, LaidOut(text, separator, pieces, end)
    PROVE  Ends(text, separator) = {end[i] : i \in 0 .. Len(pieces)}
<1> DEFINE N == Len(pieces)
           size == [i \in 1 .. N |-> Len(pieces[i])]
           L == Len(text)
<1>1. N \in Nat \ {0} /\ L \in Nat /\ 0 \in 0 .. N /\ N \in 0 .. N
  OBVIOUS
<1>2. /\ \A k \in 0 .. N : end[k] \in Nat
      /\ end[0] = 0 /\ end[N] = L + 1
  BY DEF LaidOut
<1>3. ASSUME NEW i \in 1 .. N
      PROVE  /\ size[i] \in Nat
             /\ end[i] = end[i - 1] + size[i] + 1
             /\ i # N => text[end[i]] = separator
             /\ \A k \in 1 .. size[i] : text[end[i - 1] + k] # separator
  <2>1. size[i] = Len(pieces[i]) /\ size[i] \in Nat
    OBVIOUS
  <2>2. /\ end[i] = end[i - 1] + Len(pieces[i]) + 1
        /\ i # N => text[end[i]] = separator
        /\ \A k \in 1 .. Len(pieces[i]) : text[end[i - 1] + k] = pieces[i][k]
    BY DEF LaidOut
  <2>3. \A k \in 1 .. Len(pieces[i]) : pieces[i][k] # separator
    OBVIOUS
  <2> HIDE DEF size, N
  <2> QED BY <2>1, <2>2, <2>3
<1>4. \A j \in 0 .. N : \A i \in 0 .. j : i # j => end[i] < end[j]
  BY EndsGrow
<1>5. Ends(text, separator) = {p \in 1 .. L : text[p] = separator} \cup {0, L + 1}
  BY DEF Ends
<1> HIDE DEF N, size, L
<1>6. ASSUME NEW p \in 1 .. L, text[p] = separator PROVE \E i \in 0 .. N : p = end[i]
  <2> DEFINE T == {i \in 0 .. N : p <= end[i]}
  <2>1. N \in T /\ T \subseteq Nat
    BY <1>1, <1>2
  <2> HIDE DEF T
  <2>2. PICK i \in T : \A k \in T : i <= k
    BY <2>1, LeastNumber
  <2> USE DEF T
  <2>3. i \in 1 .. N /\ i - 1 \in 0 .. N
    <3>1. i \in 0 .. N /\ p <= end[i]
      OBVIOUS
    <3>2. i # 0
      BY <1>1, <1>2, <3>1
    <3> QED BY <1>1, <3>1, <3>2
  <2>4. ~ (p <= end[i - 1])
    <3>1. i - 1 \notin T
      <4> HIDE DEF T
      <4>1. ~ (i <= i - 1)
        BY <1>1, <2>3
      <4> QED BY <2>2, <4>1
    <3> QED BY <2>3, <3>1
  <2>5. p <= end[i]
    OBVIOUS
  <2> HIDE DEF T
  <2>6. end[i] \in Nat /\ end[i - 1] \in Nat /\ size[i] \in Nat /\ p \in Nat
    BY <1>1, <1>2, <1>3, <2>3
  <2>7. p = end[i]
    <3> SUFFICES ASSUME p # end[i] PROVE FALSE
      OBVIOUS
    <3> DEFINE k == p - end[i - 1]
    <3>1. end[i] = end[i - 1] + size[i] + 1
      BY <1>3, <2>3
    <3>2. k \in 1 .. size[i] /\ end[i - 1] + k = p
      BY <2>4, <2>5, <2>6, <3>1
    <3>3. text[end[i - 1] + k] # separator
      BY <1>3, <2>3, <3>2
    <3> QED BY <1>6, <3>2, <3>3
  <2>8. i \in 0 .. N
    BY <1>1, <2>3
  <2> QED BY <2>7, <2>8
<1>7. ASSUME NEW i \in 0 .. N PROVE end[i] \in Ends(text, separator)
  <2>1. CASE i = 0
    BY <1>2, <1>5, <2>1
  <2>2. CASE i = N
    BY <1>2, <1>5, <2>2
  <2>3. CASE i # 0 /\ i # N
    <3>1. i \in 1 .. N /\ 0 \in 0 .. i /\ i \in 0 .. N
      BY <1>1, <2>3
    <3>2. end[0] < end[i] /\ end[i] < end[N]
      BY <1>1, <1>4, <2>3, <3>1
    <3>3. end[i] \in 1 .. L
      BY <1>1, <1>2, <3>1, <3>2
    <3>4. text[end[i]] = separator
      BY <1>3, <2>3, <3>1
    <3> QED BY <1>5, <3>3, <3>4
  <2> QED BY <2>1, <2>2, <2>3
<1>8. ASSUME NEW p \in Ends(text, separator) PROVE \E i \in 0 .. N : p = end[i]
  <2>1. CASE p \in 1 .. L /\ text[p] = separator
    BY <1>6, <2>1
  <2>2. CASE p = 0
    BY <1>1, <1>2, <2>2
  <2>3. CASE p = L + 1
    BY <1>1, <1>2, <2>3
  <2> QED BY <1>5, <2>1, <2>2, <2>3
<1>9. Ends(text, separator) = {end[i] : i \in 0 .. N}
  BY <1>7, <1>8
<1> QED BY <1>9 DEF N

(* A growing sequence of numbers is found again by counting.               *)
LEMMA CountBelow ==
    ASSUME NEW N \in Nat, NEW end, \A i \in 0 .. N : end[i] \in Nat,
           \A j \in 0 .. N : \A i \in 0 .. j : i # j => end[i] < end[j],
           NEW n \in 0 .. N + 1, NEW T, \A x : x \in T <=> \E i \in 0 .. n - 1 : x = end[i]
    PROVE  Cardinality(T) = n
<1> DEFINE f == [k \in 1 .. n |-> end[k - 1]]
<1>1. \A k \in 1 .. n : k - 1 \in 0 .. n - 1 /\ k - 1 \in 0 .. N
  OBVIOUS
<1>2. \A i \in 0 .. n - 1 : i + 1 \in 1 .. n /\ (i + 1) - 1 = i
  OBVIOUS
<1>3. f \in [1 .. n -> T]
  BY <1>1
<1>4. ASSUME NEW k \in 1 .. n, NEW m \in 1 .. n, f[k] = f[m] PROVE k = m
  <2>1. end[k - 1] = end[m - 1] /\ end[k - 1] \in Nat
    BY <1>1, <1>4
  <2>2. k - 1 < m - 1 => end[k - 1] < end[m - 1]
    <3>1. k - 1 < m - 1 => k - 1 \in 0 .. m - 1 /\ k - 1 # m - 1
      OBVIOUS
    <3> QED BY <1>1, <3>1
  <2>3. m - 1 < k - 1 => end[m - 1] < end[k - 1]
    <3>1. m - 1 < k - 1 => m - 1 \in 0 .. k - 1 /\ m - 1 # k - 1
      OBVIOUS
    <3> QED BY <1>1, <3>1
  <2> QED BY <2>1, <2>2, <2>3
<1>5. ASSUME NEW t \in T PROVE \E k \in 1 .. n : f[k] = t
  <2>1. PICK i \in 0 .. n - 1 : t = end[i]
    OBVIOUS
  <2>2. f[i + 1] = t
    BY <1>2, <2>1
  <2> QED BY <1>2, <2>2
<1> HIDE DEF f
<1>6. f \in Bijection(1 .. n, T)
  BY <1>3, <1>4, <1>5 DEF Bijection, Injection, Surjection, IsInjective
<1>7. ExistsBijection(1 .. n, T)
  BY <1>6 DEF ExistsBijection
<1> QED BY <1>7, FS_CountingElements

-----------------------------------------------------------------------------
LEMMA PartOf ==
    ASSUME NEW C, NEW text, NEW a \in Nat, NEW b \in Nat, NEW piece \in Seq(C),
           b = a + Len(piece) + 1, \A k \in 1 .. Len(piece) : text[a + k] = piece[k]
    PROVE  SubSeq(text, a + 1, b - 1) = piece
<1> DEFINE part == SubSeq(text, a + 1, b - 1)
           size == Len(piece)
<1>1. size \in Nat /\ \A k \in 1 .. size : piece[k] \in C
  OBVIOUS
<1>2. piece = [k \in 1 .. size |-> piece[k]]
  OBVIOUS
<1> HIDE DEF size
<1>3. a + 1 \in Int /\ b - 1 \in Int /\ (b - 1) - (a + 1) + 1 = size /\ b - 1 = a + size
  BY <1>1 DEF size
<1>4. \A i \in a + 1 .. b - 1 : text[i] \in C
  <2> TAKE i \in a + 1 .. b - 1
  <2>1. i - a \in 1 .. size /\ a + (i - a) = i
    BY <1>1, <1>3
  <2>2. text[a + (i - a)] = piece[i - a]
    BY <2>1 DEF size
  <2> QED BY <1>1, <2>1, <2>2
<1>5. /\ part \in Seq(C)
      /\ Len(part) = IF a + 1 <= b - 1 THEN (b - 1) - (a + 1) + 1 ELSE 0
      /\ \A k \in 1 .. (b - 1) - (a + 1) + 1 : part[k] = text[(a + 1) + k - 1]
  BY <1>3, <1>4, SubSeqProperties
<1>6. Len(part) = size
  BY <1>1, <1>3, <1>5
<1>7. ASSUME NEW k \in 1 .. size PROVE part[k] = piece[k]
  <2>1. (a + 1) + k - 1 = a + k
    BY <1>1
  <2>2. part[k] = text[a + k]
    BY <1>3, <1>5, <2>1
  <2> QED BY <2>2 DEF size
<1> HIDE DEF part
<1>8. part = [k \in 1 .. size |-> part[k]]
  BY <1>5, <1>6
<1>9. part = piece
  BY <1>2, <1>7, <1>8
<1> QED BY <1>9 DEF part

(* A text laid out in pieces is split into them.                           *)
LEMMA SplitFinds ==
    ASSUME NEW C, NEW text \in Seq(C), NEW separator, NEW pieces \in Seq(Seq(C)), Len(pieces) # 0,
           \A i \in 1 .. Len(pieces) : \A k \in 1 .. Len(pieces[i]) : pieces[i][k] # separator,
           NEW end, LaidOut(text, separator, pieces, end)
    PROVE  Split(text, separator) = pieces
<1> DEFINE N == Len(pieces)
           ends == Ends(text, separator)
           End(n) == CHOOSE i \in ends : Cardinality({j \in ends : j < i}) = n
<1>1. N \in Nat \ {0} /\ DOMAIN pieces = 1 .. N /\ Len(text) \in Nat
  OBVIOUS
<1>2. Split(text, separator) =
        [n \in 1 .. Cardinality(ends) - 1 |-> SubSeq(text, End(n - 1) + 1, End(n) - 1)]
  BY DEF Split
<1>3. ends = {end[i] : i \in 0 .. N}
  BY EndsAre
<1>4. \A k \in 0 .. N : end[k] \in Nat
  BY DEF LaidOut
<1>5. \A j \in 0 .. N : \A i \in 0 .. j : i # j => end[i] < end[j]
  BY EndsGrow
<1> HIDE DEF ends
<1>6. Cardinality(ends) = N + 1
  <2> HIDE DEF N
  <2>1. N + 1 \in 0 .. N + 1 /\ (N + 1) - 1 = N /\ N \in Nat
    BY <1>1
  <2> DEFINE m == N + 1
  <2>2. \A x : x \in ends <=> \E i \in 0 .. m - 1 : x = end[i]
    BY <1>3, <2>1
  <2>3. m \in 0 .. N + 1
    BY <2>1
  <2> HIDE DEF m
  <2>4. Cardinality(ends) = m
    BY <1>4, <1>5, <2>1, <2>2, <2>3, CountBelow
  <2> QED BY <2>4 DEF m
<1> HIDE DEF N
<1>7. ASSUME NEW n \in 0 .. N PROVE Cardinality({j \in ends : j < end[n]}) = n
  <2>1. n - 1 \in Int /\ \A i \in 0 .. n - 1 : i \in 0 .. N /\ i \in 0 .. n /\ i # n
    BY <1>1
  <2>2. \A i \in 0 .. N : end[i] < end[n] => i \in 0 .. n - 1
    <3> TAKE i \in 0 .. N
    <3>1. i \in Nat /\ n \in Nat /\ end[i] \in Nat /\ end[n] \in Nat
      BY <1>1, <1>4
    <3>2. n < i => end[n] < end[i]
      <4>1. n < i => n \in 0 .. i /\ n # i
        BY <3>1
      <4> QED BY <1>5, <4>1
    <3> QED BY <3>1, <3>2
  <2>3. {j \in ends : j < end[n]} = {end[i] : i \in 0 .. n - 1}
    BY <1>3, <1>5, <2>1, <2>2
  <2>4. n \in 0 .. N + 1
    BY <1>1
  <2> DEFINE T == {j \in ends : j < end[n]}
  <2>5. \A x : x \in T <=> \E i \in 0 .. n - 1 : x = end[i]
    BY <2>3
  <2> HIDE DEF T
  <2>6. Cardinality(T) = n
    BY <1>1, <1>4, <1>5, <2>4, <2>5, CountBelow
  <2> QED BY <2>6 DEF T
<1>8. ASSUME NEW n \in 0 .. N PROVE End(n) = end[n]
  <2>1. end[n] \in ends /\ Cardinality({j \in ends : j < end[n]}) = n
    BY <1>3, <1>7
  <2>2. End(n) \in ends /\ Cardinality({j \in ends : j < End(n)}) = n
    BY <2>1
  <2> HIDE DEF End
  <2>3. PICK m \in 0 .. N : End(n) = end[m]
    BY <1>3, <2>2
  <2>4. m = n
    BY <1>7, <2>2, <2>3
  <2> QED BY <2>3, <2>4
<1> HIDE DEF End
<1>9. ASSUME NEW n \in 1 .. N PROVE SubSeq(text, End(n - 1) + 1, End(n) - 1) = pieces[n]
  <2> DEFINE a == end[n - 1]
             b == end[n]
             piece == pieces[n]
  <2>1. n - 1 \in 0 .. N /\ n \in 0 .. N
    BY <1>1
  <2>2. End(n - 1) = a /\ End(n) = b /\ a \in Nat /\ b \in Nat
    BY <1>4, <1>8, <2>1
  <2>3. piece \in Seq(C)
    BY <1>1
  <2>4. /\ b = a + Len(piece) + 1
        /\ \A k \in 1 .. Len(piece) : text[a + k] = piece[k]
    <3>1. n \in 1 .. Len(pieces)
      BY DEF N
    <3> QED BY <3>1 DEF LaidOut
  <2> HIDE DEF a, b, piece
  <2>5. SubSeq(text, a + 1, b - 1) = piece
    BY <2>2, <2>3, <2>4, PartOf
  <2> QED BY <2>2, <2>5 DEF piece
<1>10. Split(text, separator) = [n \in 1 .. N |-> pieces[n]]
  <2>1. (N + 1) - 1 = N
    BY <1>1
  <2> QED BY <1>2, <1>6, <1>9, <2>1
<1>11. pieces = [n \in 1 .. N |-> pieces[n]]
  BY <1>1
<1> QED BY <1>10, <1>11

-----------------------------------------------------------------------------
LEMMA EndsDiffer == PairEnd # KeyEnd
  BY Zenon DEF PairEnd, KeyEnd

LEMMA ThreeParts ==
    ASSUME NEW C, NEW key \in Seq(C), NEW equals \in C, NEW value \in Seq(C)
    PROVE  LET text == (key \o << equals >>) \o value
           IN  /\ text \in Seq(C) /\ Len(key) \in Nat /\ Len(value) \in Nat
               /\ Len(text) = (Len(key) + 1) + Len(value)
               /\ \A k \in 1 .. Len(key) : text[k] = key[k]
               /\ text[Len(key) + 1] = equals
               /\ \A k \in 1 .. Len(value) : text[(Len(key) + 1) + k] = value[k]
<1> DEFINE front == key \o << equals >>
           a == Len(key)
           text == front \o value
<1>1. /\ front \in Seq(C) /\ a \in Nat /\ Len(front) = a + 1
      /\ \A k \in 1 .. a : front[k] = key[k]
      /\ front[a + 1] = equals
  OBVIOUS
<1> HIDE DEF front, a
<1>2. /\ text \in Seq(C) /\ Len(value) \in Nat
      /\ Len(text) = Len(front) + Len(value)
      /\ \A k \in 1 .. Len(front) : text[k] = front[k]
      /\ \A k \in 1 .. Len(value) : text[Len(front) + k] = value[k]
  <2>1. front \in Seq(C)
    BY <1>1
  <2> QED BY <2>1, Concatenation
<1> HIDE DEF text
<1>3. /\ Len(text) = (a + 1) + Len(value)
      /\ \A k \in 1 .. a + 1 : text[k] = front[k]
      /\ \A k \in 1 .. Len(value) : text[(a + 1) + k] = value[k]
  BY <1>1, <1>2
<1>4. /\ \A k \in 1 .. a : text[k] = key[k]
      /\ text[a + 1] = equals
  BY <1>1, <1>3
<1> QED BY <1>1, <1>2, <1>3, <1>4 DEF a, text, front

(* The first "=" of a pair ends its key.                                   *)
LEMMA PairIsRead ==
    ASSUME NEW C, KeyEnd \in C, NEW item \in Seq(C) \X Seq(C), KeyEnd \notin Range(item[1])
    PROVE  /\ Written(item) \in Seq(C)
           /\ Pair(Written(item)) = << item[1], item[2] >>
<1> DEFINE key == item[1]
           value == item[2]
           text == Written(item)
           a == Len(key)
<1>1. key \in Seq(C) /\ value \in Seq(C)
  OBVIOUS
<1>2. \A k \in 1 .. a : key[k] # KeyEnd
  BY <1>1 DEF Range
<1>3. text = (key \o << KeyEnd >>) \o value
  BY DEF Written
<1> HIDE DEF key, value, text
<1>4. /\ text \in Seq(C) /\ Len(key) \in Nat /\ Len(value) \in Nat
      /\ Len(text) = (Len(key) + 1) + Len(value)
      /\ \A k \in 1 .. Len(key) : text[k] = key[k]
      /\ text[Len(key) + 1] = KeyEnd
      /\ \A k \in 1 .. Len(value) : text[(Len(key) + 1) + k] = value[k]
  BY <1>1, <1>3, ThreeParts
<1> HIDE DEF a
<1>5. a \in Nat /\ a = Len(key)
  BY <1>4 DEF a
<1>6. Len(text) \in Nat /\ Len(text) >= a + 1
  BY <1>4, <1>5
<1>7. text[a + 1] = KeyEnd /\ \A k \in 1 .. a : text[k] = key[k]
  BY <1>4, <1>5
<1> DEFINE I == {i \in 1 .. Len(text) : text[i] = KeyEnd}
<1>8. a + 1 \in I /\ \A i \in I : a + 1 <= i
  BY <1>2, <1>5, <1>6, <1>7
<1>9. SelectInSeq(text, LAMBDA c : c = KeyEnd) = a + 1
  <2>1. SelectInSeq(text, LAMBDA c : c = KeyEnd) = IF I # {} THEN Min(I) ELSE 0
    BY DEF SelectInSeq
  <2>2. \A i \in I : i \in Nat
    OBVIOUS
  <2> HIDE DEF I
  <2>3. Min(I) = CHOOSE x \in I : \A y \in I : x <= y
    BY DEF Min
  <2>4. \A x \in I : (\A y \in I : x <= y) => x = a + 1
    BY <1>8, <2>2
  <2>5. Min(I) = a + 1
    BY <1>8, <2>3, <2>4
  <2> QED BY <1>8, <2>1, <2>5
<1>10. Pair(text) = << SubSeq(text, 1, (a + 1) - 1), SubSeq(text, (a + 1) + 1, Len(text)) >>
  <2>1. a + 1 # 0
    BY <1>5
  <2> QED BY <1>9, <2>1 DEF Pair
<1>11. SubSeq(text, 0 + 1, (a + 1) - 1) = key
  <2>1. a + 1 = 0 + Len(key) + 1 /\ \A k \in 1 .. Len(key) : text[0 + k] = key[k]
    BY <1>4, <1>5
  <2>2. 0 \in Nat /\ a + 1 \in Nat
    BY <1>5
  <2> QED BY <1>1, <2>1, <2>2, PartOf
<1>12. SubSeq(text, (a + 1) + 1, (Len(text) + 1) - 1) = value
  <2> DEFINE m == a + 1
             n == Len(text) + 1
  <2>1. /\ n = m + Len(value) + 1 /\ m \in Nat /\ n \in Nat
        /\ \A k \in 1 .. Len(value) : text[m + k] = value[k]
    BY <1>4, <1>5, <1>6
  <2> HIDE DEF m, n
  <2>2. SubSeq(text, m + 1, n - 1) = value
    BY <1>1, <2>1, PartOf
  <2> QED BY <2>2 DEF m, n
<1>13. 0 + 1 = 1 /\ (Len(text) + 1) - 1 = Len(text)
  BY <1>6
<1>14. Pair(text) = << key, value >>
  BY <1>10, <1>11, <1>12, <1>13
<1> QED BY <1>4, <1>14 DEF key, value, text

(* A text without a separator, the empty one, has one piece.               *)
LEMMA NothingIsSplit ==
    ASSUME NEW C, NEW text \in Seq(C), Len(text) = 0
    PROVE  Split(text, PairEnd) = << text >>
<1>1. PICK pieces : pieces = << text >>
  OBVIOUS
<1>2. PICK end : end = [i \in 0 .. 1 |-> i]
  OBVIOUS
<1>3. pieces \in Seq(Seq(C)) /\ Len(pieces) = 1 /\ pieces[1] = text
  BY <1>1
<1>4. LaidOut(text, PairEnd, pieces, end)
  <2>1. end \in [0 .. 1 -> Nat] /\ end[0] = 0 /\ end[1] = 1
    BY <1>2
  <2> QED BY <1>3, <2>1 DEF LaidOut
<1>5. ASSUME NEW i \in 1 .. Len(pieces), NEW k \in 1 .. Len(pieces[i]) PROVE pieces[i][k] # PairEnd
  <2>1. i = 1
    BY <1>3
  <2>2. k \in 1 .. 0
    BY <1>3, <2>1
  <2> QED BY <2>2
<1>6. Split(text, PairEnd) = pieces
  BY <1>3, <1>4, <1>5, SplitFinds
<1> QED BY <1>1, <1>6

LEMMA WrittenIsWhole ==
    ASSUME NEW C, KeyEnd \in C, NEW item \in Seq(C) \X Seq(C),
           PairEnd \notin Range(item[1]), PairEnd \notin Range(item[2])
    PROVE  \A k \in 1 .. Len(Written(item)) : Written(item)[k] # PairEnd
<1> DEFINE key == item[1]
           value == item[2]
           text == Written(item)
<1>1. key \in Seq(C) /\ value \in Seq(C)
  OBVIOUS
<1>2. (\A k \in 1 .. Len(key) : key[k] # PairEnd) /\ \A k \in 1 .. Len(value) : value[k] # PairEnd
  BY <1>1 DEF Range
<1>3. text = (key \o << KeyEnd >>) \o value
  BY DEF Written
<1> HIDE DEF key, value, text
<1>4. /\ text \in Seq(C) /\ Len(key) \in Nat /\ Len(value) \in Nat
      /\ Len(text) = (Len(key) + 1) + Len(value)
      /\ \A k \in 1 .. Len(key) : text[k] = key[k]
      /\ text[Len(key) + 1] = KeyEnd
      /\ \A k \in 1 .. Len(value) : text[(Len(key) + 1) + k] = value[k]
  BY <1>1, <1>3, ThreeParts
<1>5. ASSUME NEW k \in 1 .. Len(text) PROVE text[k] # PairEnd
  <2>1. CASE k <= Len(key)
    <3>1. k \in 1 .. Len(key)
      BY <1>4, <2>1
    <3> QED BY <1>2, <1>4, <3>1
  <2>2. CASE k = Len(key) + 1
    BY <1>4, <2>2, EndsDiffer
  <2>3. CASE k > Len(key) + 1
    <3> DEFINE m == k - (Len(key) + 1)
    <3>1. m \in 1 .. Len(value) /\ (Len(key) + 1) + m = k
      BY <1>4, <2>3
    <3>2. text[(Len(key) + 1) + m] = value[m] /\ value[m] # PairEnd
      BY <1>2, <1>4, <3>1
    <3> QED BY <3>1, <3>2
  <2> QED BY <1>4, <2>1, <2>2, <2>3
<1> QED BY <1>5 DEF text

-----------------------------------------------------------------------------
(* Each piece is a pair of the map, and no two of them have one key.       *)
ReadAs(pieces, items) ==
    /\ DOMAIN pieces = DOMAIN items
    /\ \A n \in DOMAIN items :
          /\ Pair(pieces[n]) # << >>
          /\ Pair(pieces[n])[1] = items[n][1]
          /\ Pair(pieces[n])[2] = items[n][2]
    /\ \A m, n \in DOMAIN items : items[m][1] = items[n][1] => m = n

LEMMA PiecesAreRead ==
    ASSUME NEW items, NEW N \in Nat, DOMAIN items = 1 .. N,
           NEW text, ReadAs(Split(text, PairEnd), items)
    PROVE  Deserialize(text) = AsMap(items)
<1> DEFINE pieces == Split(text, PairEnd)
           P(n) == Pair(pieces[n])
           pairs == {n \in DOMAIN pieces : P(n) # << >>}
           Key(n) == P(n)[1]
           Latest(key) == CHOOSE n \in pairs : Key(n) = key /\ \A m \in pairs : Key(m) = key => m <= n
           read == [key \in {Key(n) : n \in pairs} |-> P(Latest(key))[2]]
           K(n) == items[n][1]
           V(n) == items[n][2]
<1>1. Deserialize(text) = read
  BY DEF Deserialize
<1>2. \A n \in 1 .. N : P(n) # << >> /\ P(n)[1] = K(n) /\ P(n)[2] = V(n)
  BY DEF ReadAs
<1>3. \A m, n \in 1 .. N : K(m) = K(n) => m = n
  BY DEF ReadAs
<1>4. DOMAIN pieces = 1 .. N
  BY DEF ReadAs
<1>5. Range(items) = {items[n] : n \in 1 .. N}
  BY DEF Range
<1>6. \A n \in 1 .. N : \A item \in Range(items) : item[1] = K(n) => item = items[n]
  BY <1>3, <1>5
<1>7. AsMap(items) = [key \in {item[1] : item \in Range(items)} |->
                        (CHOOSE item \in Range(items) : item[1] = key)[2]]
  BY DEF AsMap
<1> HIDE DEF pieces, P
<1>8. pairs = 1 .. N
  BY <1>2, <1>4
<1>9. \A n \in 1 .. N : Key(n) = K(n)
  BY <1>2
<1> HIDE DEF Key, pairs
<1>10. {item[1] : item \in Range(items)} = {K(n) : n \in 1 .. N}
  BY <1>5
<1>11. ASSUME NEW n \in 1 .. N
       PROVE  (CHOOSE item \in Range(items) : item[1] = K(n))[2] = V(n)
  <2>1. items[n] \in Range(items) /\ items[n][1] = K(n)
    BY <1>5
  <2>2. (CHOOSE item \in Range(items) : item[1] = K(n)) = items[n]
    BY <1>6, <2>1
  <2> QED BY <2>2
<1> DEFINE Of(key) == (CHOOSE item \in Range(items) : item[1] = key)[2]
<1>12. AsMap(items) = [key \in {K(n) : n \in 1 .. N} |-> Of(key)] /\ \A n \in 1 .. N : Of(K(n)) = V(n)
  BY <1>7, <1>10, <1>11
<1> HIDE DEF K, V, Of
<1>13. ASSUME NEW n \in 1 .. N PROVE Latest(K(n)) = n
  <2>1. \A m \in 1 .. N : Key(m) = K(n) <=> m = n
    BY <1>3, <1>9
  <2>2. n <= n
    OBVIOUS
  <2> DEFINE Is(k) == Key(k) = K(n) /\ \A m \in pairs : Key(m) = K(n) => m <= k
  <2>3. \A k \in pairs : Is(k) <=> k = n
    BY <1>8, <2>1, <2>2
  <2>4. n \in pairs
    BY <1>8
  <2>5. Latest(K(n)) = CHOOSE k \in pairs : Is(k)
    OBVIOUS
  <2> HIDE DEF Is, Latest
  <2> QED BY <2>3, <2>4, <2>5
<1> HIDE DEF Latest
<1> DEFINE Value(key) == P(Latest(key))[2]
           keys == {Key(n) : n \in pairs}
           names == {K(n) : n \in 1 .. N}
<1>14. \A n \in 1 .. N : Value(K(n)) = V(n)
  BY <1>2, <1>13
<1>15. read = [key \in keys |-> Value(key)]
  OBVIOUS
<1>16. AsMap(items) = [key \in names |-> Of(key)]
  BY <1>12
<1> HIDE DEF Value, read
<1>17. keys = names
  BY <1>8, <1>9, Zenon
<1>18. ASSUME NEW key \in names PROVE Value(key) = Of(key)
  <2>1. PICK n \in 1 .. N : key = K(n)
    OBVIOUS
  <2> QED BY <1>12, <1>14, <2>1
<1> HIDE DEF keys, names
<1>19. read = AsMap(items)
  BY <1>15, <1>16, <1>17, <1>18
<1> QED BY <1>1, <1>19 DEF read

LEMMA TwoAreSome ==
    ASSUME NEW p, NEW a, NEW b, p = << a, b >>
    PROVE  p # << >> /\ p[1] = a /\ p[2] = b
  OBVIOUS

(* The empty map is the empty text, which has one piece, and no pair.      *)
LEMMA EmptyIsRead ==
    ASSUME NEW C, NEW items \in Seq(C), Len(items) = 0
    PROVE  Deserialize(Serialize(items)) = AsMap(items)
<1> DEFINE text == Serialize(items)
           pieces == Split(text, PairEnd)
           P(n) == Pair(pieces[n])
           pairs == {n \in DOMAIN pieces : P(n) # << >>}
           Key(n) == P(n)[1]
           Latest(key) == CHOOSE n \in pairs : Key(n) = key /\ \A m \in pairs : Key(m) = key => m <= n
           Value(key) == P(Latest(key))[2]
           read == [key \in {Key(n) : n \in pairs} |-> Value(key)]
<1>1. Deserialize(text) = read
  BY DEF Deserialize
<1>2. DOMAIN items = {}
  OBVIOUS
<1>3. Len(text) = 0 /\ text \in Seq({})
  <2>1. Serialize(items) = FlattenSeq(Separated(PairEnd, [i \in DOMAIN items |-> Written(items[i])]))
    BY DEF Serialize
  <2>2. PICK none : none = Separated(PairEnd, [i \in DOMAIN items |-> Written(items[i])])
    OBVIOUS
  <2>3. none \in [{} -> {}]
    BY <1>2, <2>2 DEF Separated
  <2>4. none \in Seq({}) /\ Len(none) = 0
    <3>1. none \in [1 .. 0 -> {}]
      BY <2>3
    <3> QED BY <3>1
  <2>5. FlattenSeq(none) = none
    BY <2>4 DEF FlattenSeq
  <2> QED BY <2>1, <2>2, <2>4, <2>5
<1>4. pieces = << text >>
  <2> HIDE DEF text
  <2> QED BY <1>3, NothingIsSplit
<1>5. Pair(text) = << >>
  <2> HIDE DEF text
  <2>1. {i \in 1 .. Len(text) : text[i] = KeyEnd} = {}
    BY <1>3
  <2>2. SelectInSeq(text, LAMBDA c : c = KeyEnd) = 0
    BY <2>1 DEF SelectInSeq
  <2> QED BY <2>2 DEF Pair
<1> HIDE DEF text
<1>6. DOMAIN pieces = {1} /\ pieces[1] = text
  <2> HIDE DEF pieces
  <2> QED BY <1>4
<1> HIDE DEF pieces
<1>7. pairs = {}
  BY <1>5, <1>6
<1> HIDE DEF pairs, Value, Key
<1>8. DOMAIN read = {}
  BY <1>7
<1>9. DOMAIN AsMap(items) = {}
  BY <1>2 DEF AsMap, Range
<1>10. read = [key \in {} |-> Value(key)]
  BY <1>7
<1>11. AsMap(items) = [key \in {} |-> Value(key)]
  BY <1>9 DEF AsMap
<1>12. read = AsMap(items)
  BY <1>10, <1>11
<1> QED BY <1>1, <1>12 DEF text

(* For all maps: whatever their size and their characters.                 *)
LEMMA MapIsRead ==
    ASSUME NEW C, PairEnd \in C, KeyEnd \in C, NEW items \in Seq(Seq(C) \X Seq(C)), Clean(items)
    PROVE  Deserialize(Serialize(items)) = AsMap(items)
<1> DEFINE pieces == [i \in DOMAIN items |-> Written(items[i])]
           text == Serialize(items)
<1>1. PICK N \in Nat : N = Len(items)
  OBVIOUS
<1>2. DOMAIN items = 1 .. N
  BY <1>1
<1>3. \A i \in 1 .. N : items[i] \in Seq(C) \X Seq(C)
  BY <1>1
<1>4. \A i \in 1 .. N : /\ KeyEnd \notin Range(items[i][1])
                        /\ PairEnd \notin Range(items[i][1])
                        /\ PairEnd \notin Range(items[i][2])
  BY <1>2 DEF Clean
<1>5. \A i, j \in DOMAIN items : items[i][1] = items[j][1] => i = j
  BY DEF Clean
<1>6. text = FlattenSeq(Separated(PairEnd, pieces))
  BY DEF Serialize
<1>7. pieces = [i \in 1 .. N |-> Written(items[i])]
  BY <1>2
<1> HIDE DEF pieces, text
<1>8. ASSUME NEW i \in 1 .. N
      PROVE  /\ Written(items[i]) \in Seq(C)
             /\ \A k \in 1 .. Len(Written(items[i])) : Written(items[i])[k] # PairEnd
             /\ Pair(Written(items[i])) = << items[i][1], items[i][2] >>
  <2>1. items[i] \in Seq(C) \X Seq(C)
    BY <1>3
  <2>2. KeyEnd \notin Range(items[i][1]) /\ PairEnd \notin Range(items[i][1]) /\ PairEnd \notin Range(items[i][2])
    BY <1>4
  <2>3. Written(items[i]) \in Seq(C) /\ Pair(Written(items[i])) = << items[i][1], items[i][2] >>
    BY <2>1, <2>2, PairIsRead
  <2>4. \A k \in 1 .. Len(Written(items[i])) : Written(items[i])[k] # PairEnd
    BY <2>1, <2>2, WrittenIsWhole
  <2> QED BY <2>3, <2>4
<1>9. ReadAs(pieces, items)
  <2>1. ASSUME NEW n \in 1 .. N
        PROVE  /\ Pair(pieces[n]) # << >>
               /\ Pair(pieces[n])[1] = items[n][1]
               /\ Pair(pieces[n])[2] = items[n][2]
    <3>1. Pair(pieces[n]) = << items[n][1], items[n][2] >>
      BY <1>7, <1>8
    <3> QED BY <3>1, TwoAreSome
  <2>2. DOMAIN pieces = 1 .. N
    BY <1>7
  <2> QED BY <1>2, <1>5, <2>1, <2>2 DEF ReadAs
<1>10. pieces \in Seq(Seq(C)) /\ Len(pieces) = N
  <2>1. pieces \in [1 .. N -> Seq(C)]
    BY <1>7, <1>8
  <2> QED BY <2>1
<1>11. \A i \in 1 .. Len(pieces) : \A k \in 1 .. Len(pieces[i]) : pieces[i][k] # PairEnd
  <2>1. \A i \in 1 .. N : \A k \in 1 .. Len(pieces[i]) : pieces[i][k] # PairEnd
    <3> TAKE i \in 1 .. N
    <3>1. pieces[i] = Written(items[i])
      BY <1>7
    <3> QED BY <1>8, <3>1
  <2> QED BY <1>10, <2>1
<1>12. CASE N = 0
  BY <1>1, <1>12, EmptyIsRead
<1>13. CASE N # 0
  <2>1. text \in Seq(C) /\ \E end : LaidOut(text, PairEnd, pieces, end)
    BY <1>6, <1>10, <1>13, JoinIsLaidOut
  <2>2. Split(text, PairEnd) = pieces
    BY <1>10, <1>11, <1>13, <2>1, SplitFinds
  <2>3. Deserialize(text) = AsMap(items)
    BY <1>2, <1>9, <2>2, PiecesAreRead
  <2> QED BY <2>3 DEF text
<1> QED BY <1>12, <1>13

(* A map reads as it was written (serialize and deserialize, kludf.py:11), *)
(* whatever its keys and values are and however many it has, if no key     *)
(* holds a separator and no value the one between pairs.                   *)
THEOREM EveryMapIsRead ==
    ASSUME NEW C, PairEnd \in C, KeyEnd \in C, NEW items \in Seq(Seq(C) \X Seq(C)), Clean(items)
    PROVE  Deserialize(Serialize(items)) = AsMap(items)
  BY MapIsRead

LEMMA TextsAreTexts ==
    ASSUME NEW A, NEW C, A \subseteq C, NEW text \in Texts(A)
    PROVE  text \in Seq(C)
<1>1. PICK n \in 0 .. MaxText : text \in [1 .. n -> A]
  BY DEF Texts
<1>2. n \in Nat /\ text \in [1 .. n -> C]
  BY <1>1
<1> QED BY <1>2

(* What the run sends arrives, and so does every other map.                *)
THEOREM MapAlwaysArrives == Spec => []MapArrives
<1>1. Init => MapArrives
  <2> SUFFICES ASSUME Init, kind = "items", Clean(input)
               PROVE  Deserialize(Serialize(input)) = AsMap(input)
    BY DEF MapArrives
  <2> DEFINE C == {"a", KeyEnd, PairEnd}
             D == {"a", PairEnd}
             B == {"a"}
  <2>1. input \in Items
    BY DEF Init
  <2>2. PairEnd \in C /\ KeyEnd \in C /\ C \subseteq C /\ D \subseteq C /\ B \subseteq C
    OBVIOUS
  <2>3. input = << >> \/ input \in [1 .. 1 -> Item(D, C)] \/ input \in [1 .. 2 -> Item(B, C)]
    BY <2>1 DEF Items
  <2> HIDE DEF B, C, D
  <2>4. Item(D, C) \subseteq Seq(C) \X Seq(C) /\ Item(B, C) \subseteq Seq(C) \X Seq(C)
    <3>1. /\ \A k \in Texts(B) : k \in Seq(C)
          /\ \A k \in Texts(D) : k \in Seq(C)
          /\ \A k \in Texts(C) : k \in Seq(C)
      BY <2>2, TextsAreTexts
    <3> QED BY <3>1 DEF Item
  <2>5. input \in Seq(Seq(C) \X Seq(C))
    <3> DEFINE pairs == Seq(C) \X Seq(C)
    <3>1. Item(D, C) \subseteq pairs /\ Item(B, C) \subseteq pairs
      BY <2>4
    <3> HIDE DEF pairs
    <3>2. input = << >> \/ input \in [1 .. 1 -> pairs] \/ input \in [1 .. 2 -> pairs]
      BY <2>3, <3>1
    <3>3. input \in Seq(pairs)
      <4>1. << >> \in Seq(pairs)
        OBVIOUS
      <4>2. ASSUME NEW n \in Nat, input \in [1 .. n -> pairs] PROVE input \in Seq(pairs)
        BY <4>2
      <4> QED BY <3>2, <4>1, <4>2
    <3> QED BY <3>3 DEF pairs
  <2> QED BY <2>2, <2>5, EveryMapIsRead
<1>2. MapArrives /\ UNCHANGED vars => MapArrives'
  BY DEF MapArrives, vars
<1> QED BY <1>1, <1>2, PTL DEF Spec, Next
=============================================================================
