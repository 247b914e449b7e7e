----------------------------- MODULE MCFunctions -----------------------------
(***************************************************************************)
(* The pure functions of the program, checked against what they are for,   *)
(* over all small inputs: each state is one input of one of them.          *)
(***************************************************************************)
EXTENDS Emulation, KeyValues, Probe

CONSTANTS
    Majors,         \* major versions of browsers and of profiles
    MaxFile,        \* bound on the length of a file
    Dwords,         \* how many values half of a file offset has
    MaxText         \* bound on the length of a key or a value

ASSUME MCFunctionsAssumption ==
    /\ Majors \subseteq Nat /\ IsFiniteSet(Majors)
    /\ MaxFile \in Nat
    /\ Dwords \in Nat \ {0}

VARIABLES kind, input
vars == << kind, input >>

-----------------------------------------------------------------------------
(* Emulation.                                                              *)

KnownPrefixes == {"Chrome", "Edge", "Firefox", "FirefoxAndroid", "Safari", "SafariIos", "SafariIPad", "Other"}

Profile(prefix, major, minor) ==
    [name |-> prefix \o ToString(<< major, minor >>), prefix |-> prefix,
     version |-> IF minor = 0 THEN << major >> ELSE << major, minor >>]

(* What wreq offers: Chrome always, and of others what there is.           *)
Offers ==
    {{Profile("Chrome", m, 0) : m \in Majors}
        \cup {Profile(p, v[1], v[2]) : p \in prefixes, v \in (majors \X {0}) \cup {<< 1, 1 >>}} :
            prefixes \in {{}, {"Firefox", "Edge"}, KnownPrefixes}, majors \in SUBSET Majors}

(* How the browsers identify themselves on the platforms they exist for.   *)
MarksOf(platform) ==
    CASE platform = "Windows" -> {"Windows"}
      [] platform = "MacOS"   -> {"Macintosh", "MacOSX"}
      [] platform = "Linux"   -> {"Linux"}
      [] platform = "Android" -> {"Linux", "Android"}
      [] platform = "IPhone"  -> {"iPhone", "MacOSX"}
      [] platform = "IPad"    -> {"iPad", "MacOSX"}

ProductsOf(browser) ==
    CASE browser = "chrome"  -> {"chrome"}
      [] browser = "edge"    -> {"edge", "chrome"}
      [] browser = "firefox" -> {"firefox"}
      [] browser = "safari"  -> {"safari"}

Browsers ==
    [browser : {"chrome", "edge", "firefox"}, platform : {"Windows", "MacOS", "Linux", "Android"}]
        \cup [browser : {"safari"}, platform : {"MacOS", "IPhone", "IPad"}]

UserAgent(b, major) ==
    [major |-> [p \in ProductsOf(b.browser) |-> major], marks |-> MarksOf(b.platform)]

Imitations == [offer : Offers, browser : Browsers, major : Majors]

(* The emulation on a Windows host.                                        *)
AutoEmulation(i) == ToEmulation("auto", UserAgent(i.browser, i.major), "Windows", BuildRegistry(i.offer))

-----------------------------------------------------------------------------
Texts(alphabet) == UNION {[1 .. n -> alphabet] : n \in 0 .. MaxText}

Item(inKey, inValue) == Texts(inKey) \X Texts(inValue)

Items ==
    {<< >>} \cup [1 .. 1 -> Item({"a", PairEnd}, {"a", KeyEnd, PairEnd})]
            \cup [1 .. 2 -> Item({"a"}, {"a", KeyEnd, PairEnd})]

HeaderNames == {"accept", "user-agent", "User-Agent", "sec-ch-ua"}
Clients ==
    [emulated : BOOLEAN,
     headers : UNION {[names -> {"caller"}] : names \in SUBSET HeaderNames},
     userAgent : {"", "given"}, source : {"", "browser"}]

Probes == UNION {[length : {n}, answer : AnswersFor(n), count : 1 .. MaxFile + 1] : n \in 1 .. MaxFile}

-----------------------------------------------------------------------------
Init ==
    \/ kind = "imitation" /\ input \in Imitations
    \/ kind = "client"    /\ input \in Clients
    \/ kind = "items"     /\ input \in Items
    \/ kind = "probe"     /\ input \in Probes
    \/ kind = "offset"    /\ input \in 0 .. Dwords * Dwords - 1

Next == UNCHANGED vars

Spec == Init /\ [][Next]_vars

-----------------------------------------------------------------------------
PlatformName(b) == IF b.platform \in {"IPhone", "IPad"} THEN "IOS" ELSE b.platform

FamiliesFor(b) ==
    CASE b.browser = "safari" /\ b.platform = "IPad"     -> << "safari-ipad", "safari-ios", "safari" >>
      [] b.browser = "safari" /\ b.platform = "IPhone"   -> << "safari-ios", "safari" >>
      [] b.browser = "firefox" /\ b.platform = "Android" -> << "firefox-android", "firefox" >>
      [] OTHER                                           -> << b.browser >>

Candidates(offer, family) ==
    {p \in offer : p.prefix \in DOMAIN FAMILY_BY_PREFIX /\ FAMILY_BY_PREFIX[p.prefix] = family}

PlaceOf(offer, browser) ==
    SelectInSeq(FamiliesFor(browser), LAMBDA f : Candidates(offer, f) # {})

Imitated(i) ==
    LET n == PlaceOf(i.offer, i.browser)
        candidates == Candidates(i.offer, FamiliesFor(i.browser)[n])
        older == {p \in candidates : p.version[1] <= i.major}
        emulation == AutoEmulation(i)
    IN  IF n = 0 THEN emulation = ToEmulation("chrome", "", "Windows", BuildRegistry(i.offer))
        ELSE /\ emulation.platform = PlatformName(i.browser)
             /\ IF older = {}
                THEN emulation.profile \in candidates
                       /\ \A p \in candidates \ {emulation.profile} : Newer(p, emulation.profile)
                ELSE emulation.profile \in older
                       /\ \A p \in older \ {emulation.profile} : Newer(emulation.profile, p)

(* A browser is imitated by itself, on its own platform, and by the newest *)
(* profile that is not newer, or else by the oldest there is; one without  *)
(* a profile by the newest Chrome.                                         *)
BrowserIsImitated == kind = "imitation" => Imitated(input)

(* The headers of a client do not contradict the browser it emulates: they *)
(* name another only if the caller gives one, or imitates a request.  A    *)
(* client that emulates none names a browser exactly if it was given       *)
(* headers or a userAgent; the clients of HttpStep.run with profile "raw"  *)
(* (_engine.py:300, 476) are given no headers, and name none.              *)
HeadersAgree ==
    kind = "client" =>
        LET headers == ClientHeaders(input.emulated, input.headers, input.userAgent, input.source)
        IN  /\ input.emulated /\ (input.source = "" \/ input.userAgent # "") =>
                  {h \in DOMAIN headers \cap IdentityHeaders : headers[h] # input.userAgent} = {}
            /\ input.userAgent # "" => headers["user-agent"] = input.userAgent
            /\ ~ input.emulated =>
                  (NamesBrowser(headers) <=> DOMAIN input.headers # {} \/ input.userAgent # "")
            /\ "accept" \in DOMAIN headers <=> "accept" \in DOMAIN input.headers

(* A map arrives as it was sent, unless a key holds a separator or a value *)
(* holds the one between pairs: the "=" of a URL does no harm.             *)
Clean(items) ==
    \A i \in DOMAIN items :
        /\ {PairEnd, KeyEnd} \cap Range(items[i][1]) = {}
        /\ PairEnd \notin Range(items[i][2])
        /\ \A j \in DOMAIN items : items[i][1] = items[j][1] => i = j

AsMap(items) ==
    [key \in {item[1] : item \in Range(items)} |->
        (CHOOSE item \in Range(items) : item[1] = key)[2]]

MapArrives ==
    kind = "items" /\ Clean(input) => Deserialize(Serialize(input)) = AsMap(input)

(* Whatever the server answers to the probe, the first subworkers ask for  *)
(* every byte of the file and for none after its end; one whose end reads  *)
(* as UNKNOWN or NOT_SUPPORTED asks for the rest of the file.              *)
Asked(sw, n) == sw.start .. IF sw.end \in {UNKNOWN, NOT_SUPPORTED} THEN n - 1 ELSE sw.end

ProbedFileIsCovered ==
    kind = "probe" =>
        \A ranged \in {ProbedRange(input.answer), RangeOfCommandLine(input.answer)} :
            LET subs == BuildSubworkers(ProbedSize(input.answer), ranged, input.count)
            IN  UNION {Asked(subs[i], input.length) : i \in DOMAIN subs} = 0 .. input.length - 1

(* The two halves of an offset are put together again, up to the largest.  *)
OffsetArrives == kind = "offset" => FileOffset(Dwords, input) = input
=============================================================================
