------------------------------ MODULE Emulation ------------------------------
(***************************************************************************)
(* Which browser a client passes itself off as (_client.py): the registry  *)
(* of the profiles the library wreq offers, the choice of one by name or   *)
(* by the User-Agent that is to be imitated, and the headers that go with  *)
(* the choice.                                                             *)
(*                                                                         *)
(* A profile is its name, its prefix and its version, a User-Agent the     *)
(* products it names, with their major versions, and the marks of          *)
(* platforms in it; the regular expressions that find them are left out.   *)
(***************************************************************************)
EXTENDS Naturals, Sequences, FiniteSets, SequencesExt

FAMILY_BY_PREFIX == [
    Chrome |-> "chrome", Edge |-> "edge", Firefox |-> "firefox", Opera |-> "opera",
    Safari |-> "safari", OkHttp |-> "okhttp", FirefoxAndroid |-> "firefox-android",
    SafariIos |-> "safari-ios", SafariIPad |-> "safari-ipad", SafariIpad |-> "safari-ipad"]

PLATFORM_BY_FAMILY == [
    f \in {"okhttp", "firefox-android", "safari-ios", "safari-ipad"} |->
        IF f \in {"okhttp", "firefox-android"} THEN "Android" ELSE "IOS"]

None == [platform |-> "none"]
Emulating(profile, platform) == [profile |-> profile, platform |-> platform]

PlatformOf(family, host) ==
    IF family \in DOMAIN PLATFORM_BY_FAMILY THEN PLATFORM_BY_FAMILY[family] ELSE host

-----------------------------------------------------------------------------
(* Python's order of the tuples of a version, from the newest down.        *)
Newer(p, q) ==
    \E n \in 0 .. Len(q.version) :
        /\ n < Len(p.version)
        /\ \A i \in 1 .. n : p.version[i] = q.version[i]
        /\ n < Len(q.version) => p.version[n + 1] > q.version[n + 1]

(* The profiles in their order: as many are newer as stand before it.      *)
NewestFirst(profiles) ==
    [i \in 1 .. Cardinality(profiles) |->
        CHOOSE p \in profiles : Cardinality({q \in profiles : Newer(q, p)}) = i - 1]

OfFamily(profiles, family) ==
    {p \in profiles : p.prefix \in DOMAIN FAMILY_BY_PREFIX /\ FAMILY_BY_PREFIX[p.prefix] = family}

Families(profiles) ==
    {FAMILY_BY_PREFIX[p.prefix] : p \in {q \in profiles : q.prefix \in DOMAIN FAMILY_BY_PREFIX}}

BuildRegistry(profiles) ==
    [f \in Families(profiles) |-> NewestFirst(OfFamily(profiles, f))]

-----------------------------------------------------------------------------
(* matchEmulation.                                                         *)

(* Mutant: Chrome is looked for before those that are built on it.         *)
ProductsChromeFirst == << "chrome", "edge", "opera", "okhttp", "firefox", "safari" >>

(* Edge and Opera also name Chrome, and Chrome also names Safari.          *)
Products == << "edge", "opera", "okhttp", "firefox", "chrome", "safari" >>

PlatformMarks == <<
    << "Android", {"Android"} >>, << "IOS", {"iPhone", "iPad", "iPod"} >>,
    << "Windows", {"Windows"} >>, << "MacOS", {"MacOSX", "Macintosh"} >>,
    << "Linux", {"Linux"} >> >>

PlatformIn(ua, host) ==
    LET n == SelectInSeq(PlatformMarks, LAMBDA m : m[2] \cap ua.marks # {})
    IN  IF n = 0 THEN host ELSE PlatformMarks[n][1]

(* The family whose profiles are used for a product on a platform.         *)
Resolved(product, platform, marks, registry) ==
    CASE product = "safari" /\ platform = "IOS"
             /\ "iPad" \in marks /\ "safari-ipad" \in DOMAIN registry  -> "safari-ipad"
      [] product = "safari" /\ platform = "IOS"
             /\ ~ ("iPad" \in marks /\ "safari-ipad" \in DOMAIN registry)
             /\ "safari-ios" \in DOMAIN registry                       -> "safari-ios"
      [] product = "firefox" /\ platform = "Android"
             /\ "firefox-android" \in DOMAIN registry                  -> "firefox-android"
      [] OTHER                                                         -> product

(* The newest of the entries that is not newer than the browser, else the  *)
(* oldest.                                                                 *)
Closest(entries, major) ==
    LET fit == {i \in DOMAIN entries : entries[i].version[1] <= major}
    IN  IF fit = {} THEN entries[Len(entries)]
        ELSE entries[CHOOSE i \in fit : \A j \in fit : i <= j]

MatchEmulation(ua, host, registry) ==
    LET n == SelectInSeq(Products, LAMBDA p : p \in DOMAIN ua.major)
        product == Products[n]
        platform == PlatformOf(product, PlatformIn(ua, host))
        family == Resolved(product, platform, ua.marks, registry)
    IN  IF n # 0 /\ family \in DOMAIN registry
        THEN Emulating(Closest(registry[family], ua.major[product]), platform)
        ELSE None

-----------------------------------------------------------------------------
(* toEmulation: `wanted` is "raw", "auto", a family or one profile.        *)
Pinned(name, registry) == {p \in UNION {Range(registry[f]) : f \in DOMAIN registry} : p.name = name}

ToEmulation(wanted, ua, host, registry) ==
    LET default == Emulating(registry["chrome"][1], host)
        matched == MatchEmulation(ua, host, registry)
        pinned == Pinned(wanted, registry)
    IN  CASE wanted = "raw"                 -> None
          [] wanted = "auto"                -> IF matched # None THEN matched ELSE default
          [] wanted \in DOMAIN registry     -> Emulating(registry[wanted][1], PlatformOf(wanted, host))
          [] wanted \notin {"raw", "auto"} \cup DOMAIN registry /\ pinned # {} ->
                 LET p == CHOOSE p \in pinned : TRUE
                 IN  Emulating(p, PlatformOf(FAMILY_BY_PREFIX[p.prefix], host))
          [] OTHER -> default

(* The headers of buildClient, as a function from their names.  "" is an   *)
(* argument that is not given; headers that are not given are empty.       *)
IdentityHeaders == {"user-agent", "User-Agent", "sec-ch-ua"}

With(headers, userAgent) ==
    [h \in DOMAIN headers \cup {"user-agent"} |->
        IF h = "user-agent" THEN userAgent ELSE headers[h]]

NamesBrowser(headers) == {"user-agent", "User-Agent"} \cap DOMAIN headers # {}

(* Mutant: the client hints of the caller are kept.                        *)
ClientHeadersKeepHints(emulated, headers, userAgent, sourceUserAgent) ==
    LET own == [h \in DOMAIN headers \ {"user-agent", "User-Agent"} |-> headers[h]]
    IN  IF userAgent # "" THEN With(own, userAgent) ELSE own

(* Without headers only a userAgent is set; an emulated browser brings its *)
(* own, and with headers one that is not emulated is named all the same.   *)
ClientHeaders(emulated, headers, userAgent, sourceUserAgent) ==
    LET own == [h \in DOMAIN headers \ IdentityHeaders |-> headers[h]]
    IN  CASE DOMAIN headers = {}   ->
                 IF userAgent # "" THEN With(headers, userAgent) ELSE headers
          [] DOMAIN headers # {} /\ emulated   ->
                 IF sourceUserAgent # "" /\ userAgent = "" THEN headers
                 ELSE IF userAgent # "" THEN With(own, userAgent) ELSE own
          [] DOMAIN headers # {} /\ ~ emulated ->
                 IF userAgent # "" THEN With(headers, userAgent)
                 ELSE IF NamesBrowser(headers) THEN headers ELSE With(headers, "default")
=============================================================================
