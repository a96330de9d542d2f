------------------------------- MODULE Unlock -------------------------------
(***************************************************************************)
(* The probes of the unlock page (internal/unlock): each asks one service  *)
(* a few pages, one after another, and reads a verdict out of the marks it *)
(* finds in them.  The service serves this address or it does not; what    *)
(* arrives may be its own page, one cut short, somebody else's page in its *)
(* place, or nothing.                                                      *)
(*                                                                         *)
(* A page is the sequence of the marks the probes look for, in the order   *)
(* of the document.                                                        *)
(***************************************************************************)
EXTENDS Sequences, Naturals, FiniteSets

Catalogue == {"netflix", "disney", "youtube", "primevideo", "dazn",
              "tvbanywhere", "spotify", "reddit", "tiktok", "chatgpt",
              "gemini", "claude", "steam", "bilibili", "bahamut"}

CONSTANT Services      \* the services probed
ASSUME ServicesAreKnown == Services \subseteq Catalogue

VARIABLES
    service,    \* the service of this probe
    world,      \* what it does for this address: "served", "refused", or
                \* served in part: "originals", "web", "app"
    got,        \* the replies, by request
    spent,      \* the probe's time is up, or its run was cancelled
    source,     \* of each reply: "own", "strange", "capped" or "stopped"
    result     \* of the probe, "none" while it runs

unlockVars == <<service, world, got, spent, source, result>>

Verdicts == {"unlocked", "partial", "blocked", "failed"}

-----------------------------------------------------------------------------
(* Reading a reply. *)
Asked(q) == q \in DOMAIN got
Lost(q) == Asked(q) /\ got[q].status = "lost"
Answered(q) == Asked(q) /\ got[q].status # "lost"
OK(q) == Answered(q) /\ got[q].status = "ok"
Status(q, s) == Answered(q) /\ got[q].status = s
Has(q, mark) == Answered(q) /\ mark \in got[q].marks

(* A probe names the request to make next, or its verdict: each question   *)
(* is settled before the next one is asked.                                *)
Get(q, then) ==
    IF ~Asked(q) THEN q ELSE IF Lost(q) THEN "failed" ELSE then

GetOK(q, then) == Get(q, IF OK(q) THEN then ELSE "failed")

NetflixTitles == {"originals", "licensed"}
NetflixRefused(q) == Status(q, "404") \/ Has(q, "Oh-no")
NetflixPage(q) == (OK(q) /\ Has(q, "netflix")) \/ Status(q, "404")

\* Mutant: any page is taken for a title page.
NetflixAnyPage ==
    Get("originals", Get("licensed",
      IF \E q \in NetflixTitles : ~OK(q) /\ ~Status(q, "404") THEN "failed"
      ELSE IF \A q \in NetflixTitles : NetflixRefused(q) THEN "partial"
      ELSE "unlocked"))

Netflix ==
    Get("originals", Get("licensed",
      IF \E q \in NetflixTitles : ~NetflixPage(q) THEN "failed"
      ELSE IF \A q \in NetflixTitles : NetflixRefused(q) THEN "partial"
      ELSE "unlocked"))

Disney ==
    Get("devices",
      IF Has("devices", "403-ERROR") THEN "blocked"
      ELSE IF ~Has("devices", "assertion") THEN "failed"
      ELSE Get("token",
        IF Has("token", "forbidden") THEN "blocked"
        ELSE IF ~Has("token", "refresh") THEN "failed"
        ELSE Get("graph",
          IF ~Has("graph", "country") THEN "failed"
          ELSE IF Has("graph", "supported") THEN "unlocked"
          ELSE IF Has("graph", "unsupported") THEN "blocked"
          ELSE "failed")))

YouTubePremium ==
    GetOK("premium",
      IF Has("premium", "google.cn") \/ Has("premium", "not-available")
      THEN "blocked"
      ELSE IF Has("premium", "country") /\ Has("premium", "ad-free")
      THEN "unlocked" ELSE "failed")

(* The storefront is asked up to three times, until a page says something. *)
Tells(q) == OK(q) /\ (Has(q, "restricted") \/ Has(q, "country"))

Home(q, otherwise) ==
    IF ~Asked(q) THEN q
    ELSE IF ~Tells(q) THEN otherwise
    ELSE IF Has(q, "restricted") THEN "blocked" ELSE "unlocked"

HomeAgain(q, otherwise) ==
    IF spent /\ ~Asked(q) THEN "failed" ELSE Home(q, otherwise)

PrimeVideo ==
    Home("home1", HomeAgain("home2", HomeAgain("home3", "failed")))

DAZN ==
    Get("startup",
      IF Has("startup", "breached") THEN "blocked"
      ELSE IF ~OK("startup") THEN "failed"
      ELSE IF Has("startup", "allowed") THEN "unlocked"
      ELSE IF Has("startup", "disallowed") THEN "blocked" ELSE "failed")

TVBAnywhere ==
    GetOK("geoip",
      IF Has("geoip", "allowed") THEN "unlocked"
      ELSE IF Has("geoip", "disallowed") THEN "blocked" ELSE "failed")

Steam ==
    GetOK("store",
      IF Has("store", "currency") \/ Has("store", "cookie")
      THEN "unlocked" ELSE "failed")

TikTok ==
    Get("bare",
      IF Has("bare", "country") THEN "unlocked"
      ELSE IF ~OK("bare") THEN "failed"
      ELSE Get("browser",
        IF Has("browser", "country") THEN "partial" ELSE "failed"))

Spotify ==
    GetOK("signup",
      IF ~Has("signup", "status") THEN "failed"
      ELSE IF Has("signup", "320") \/ Has("signup", "unlaunched") THEN "blocked"
      ELSE IF Has("signup", "311") /\ Has("signup", "country")
      THEN "unlocked" ELSE "failed")

Reddit ==
    Get("front",
      IF Status("front", "403") THEN "blocked"
      ELSE IF OK("front") /\ Has("front", "reddit") THEN "unlocked" ELSE "failed")

Bahamut ==
    Get("device",
      IF Status("device", "403") \/ Status("device", "451") THEN "blocked"
      ELSE IF ~OK("device") \/ ~Has("device", "deviceid") THEN "failed"
      ELSE Get("ticket",
        IF ~Has("ticket", "animeSn") THEN "blocked"
        ELSE Get("landing",
          IF Has("landing", "country") THEN "unlocked" ELSE "failed")))

Bilibili ==
    GetOK("playurl",
      IF Has("playurl", "code0") THEN "unlocked"
      ELSE IF Has("playurl", "code-10403") THEN "blocked" ELSE "failed")

(* Cloudflare's trace, asked at two addresses for the country. *)
Located == \E q \in {"trace1", "trace2"} : OK(q) /\ Has(q, "country")
Trace2(then) ==
    IF ~Asked("trace1") THEN "trace1"
    ELSE IF ~Located /\ ~Asked("trace2") THEN "trace2" ELSE then

(* Each of the two surfaces is read for its refusal before its status. *)
Surface(q, then) ==
    Get(q, IF OK(q) \/ Has(q, "refusal") THEN then ELSE "failed")

ChatGPT ==
    Trace2(IF ~Located THEN "failed"
      ELSE Surface("compliance", Surface("ios",
        IF Has("compliance", "refusal") /\ Has("ios", "refusal") THEN "blocked"
        ELSE IF Has("compliance", "refusal") \/ Has("ios", "refusal")
        THEN "partial" ELSE "unlocked")))

Gemini ==
    GetOK("app",
      IF ~Has("app", "gemini") THEN "failed"
      ELSE IF Has("app", "offered") THEN "unlocked" ELSE "blocked")

Claude ==
    Get("claude", Trace2(
      IF Has("claude", "redirected") THEN "blocked"
      ELSE IF OK("claude") /\ Has("claude", "claude") THEN "unlocked"
      ELSE "failed"))

Probe ==
    CASE service = "netflix" -> Netflix
      [] service = "disney" -> Disney
      [] service = "youtube" -> YouTubePremium
      [] service = "primevideo" -> PrimeVideo
      [] service = "dazn" -> DAZN
      [] service = "tvbanywhere" -> TVBAnywhere
      [] service = "spotify" -> Spotify
      [] service = "reddit" -> Reddit
      [] service = "tiktok" -> TikTok
      [] service = "chatgpt" -> ChatGPT
      [] service = "gemini" -> Gemini
      [] service = "claude" -> Claude
      [] service = "steam" -> Steam
      [] service = "bilibili" -> Bilibili
      [] service = "bahamut" -> Bahamut

-----------------------------------------------------------------------------
(* The services, as far as the probes know them. *)
Worlds(s) ==
    CASE s = "netflix" -> {"served", "originals", "refused"}
      [] s = "chatgpt" -> {"served", "web", "app", "refused"}
      [] s = "steam" -> {"served"}
      [] OTHER -> {"served", "refused"}

Document(status, marks) == [status |-> status, marks |-> marks]
Plain(marks) == Document("ok", marks)
Refusing == world = "refused"

(* The pages a service itself sends. *)
Pages(q) ==
    CASE q \in NetflixTitles ->
           IF Refusing \/ (world = "originals" /\ q = "licensed")
           THEN {Document("404", <<>>), Plain(<<"netflix", "Oh-no">>)}
           ELSE {Plain(<<"netflix">>)}
      [] q = "devices" ->
           {Plain(<<"assertion">>)}
           \cup (IF Refusing THEN {Document("403", <<"403-ERROR">>)} ELSE {})
      [] q = "token" ->
           {Plain(<<"refresh">>)}
           \cup (IF Refusing THEN {Document("403", <<"forbidden">>)} ELSE {})
      [] q = "graph" ->
           LET flag == IF Refusing THEN "unsupported" ELSE "supported"
           IN {Plain(<<flag, "country">>), Plain(<<flag>>)}
      [] q = "premium" ->
           IF Refusing
           THEN {Plain(<<"google.cn">>), Plain(<<"country", "not-available">>),
                 Plain(<<"country", "ad-free", "not-available">>)}
           ELSE {Plain(<<"country", "ad-free">>), Plain(<<"country">>)}
      [] q \in {"home1", "home2", "home3"} ->
           {Plain(<<>>), Document("503", <<>>)}
           \cup (IF Refusing
                 THEN {Plain(<<"restricted", "territory", "country">>),
                       Plain(<<"territory", "country", "restricted">>)}
                 ELSE {Plain(<<"territory", "country">>)})
      [] q = "startup" ->
           IF Refusing THEN {Plain(<<"disallowed">>),
                             Document("403", <<"breached">>)}
                       ELSE {Plain(<<"allowed">>)}
      [] q = "geoip" ->
           {Plain(<<IF Refusing THEN "disallowed" ELSE "allowed">>)}
      [] q = "store" ->
           {Plain(<<"currency">>), Plain(<<"cookie">>), Plain(<<>>)}
      [] q \in {"bare", "browser"} ->
           {Plain(<<>>)} \cup (IF Refusing THEN {} ELSE {Plain(<<"country">>)})
      [] q = "signup" ->
           IF Refusing
           THEN {Plain(<<"status", "320">>),
                 Plain(<<"status", "311", "country", "unlaunched">>)}
           ELSE {Plain(<<"status", "311", "country">>),
                 Plain(<<"status", "311">>), Plain(<<"status">>)}
      [] q = "front" ->
           {IF Refusing THEN Document("403", <<>>) ELSE Plain(<<"reddit">>)}
      [] q = "device" ->
           {Plain(<<"deviceid">>)}
           \cup (IF Refusing THEN {Document("403", <<>>), Document("451", <<>>)}
                             ELSE {})
      [] q = "ticket" -> {Plain(IF Refusing THEN <<>> ELSE <<"animeSn">>)}
      [] q = "landing" -> {Plain(<<"country">>), Plain(<<>>)}
      [] q = "playurl" ->
           {Plain(<<IF Refusing THEN "code-10403" ELSE "code0">>),
            Plain(<<"code-404">>)}
      [] q \in {"trace1", "trace2"} -> {Plain(<<"country">>), Plain(<<>>)}
      [] q = "compliance" ->
           {IF world \in {"served", "web"} THEN Plain(<<>>)
                                           ELSE Document("403", <<"refusal">>)}
      [] q = "ios" ->
           {IF world \in {"served", "app"} THEN Plain(<<>>)
                                           ELSE Document("403", <<"refusal">>)}
      [] q = "app" ->
           {Plain(IF Refusing THEN <<"gemini">> ELSE <<"gemini", "offered">>)}
      [] q = "claude" ->
           IF Refusing THEN {Plain(<<"redirected", "claude">>)}
           ELSE {Plain(<<"claude">>), Document("403", <<"challenge">>)}

(* A gateway or an overloaded edge answers in the service's place, with an *)
(* empty page or with a status of its own.                                 *)
StrangePages ==
    {Plain(<<>>)} \cup
    {Document(status, <<>>) : status \in {"403", "404", "451", "503"}}

-----------------------------------------------------------------------------
(* The marks at which the read of a long page stops. *)
Markers(q) == CASE q = "premium" -> {"ad-free"}
                [] q \in {"home1", "home2", "home3"} ->
                      {"territory", "restricted"}
                [] OTHER -> {}

Prefix(s, n) == {s[i] : i \in 1..n}
Reply(page, n) == [status |-> page.status, marks |-> Prefix(page.marks, n)]
Stops(q, page) == {i \in DOMAIN page.marks : page.marks[i] \in Markers(q)}

(* The web pages; what the other requests are answered with is short.      *)
Long == NetflixTitles \cup {"premium", "home1", "home2", "home3", "store",
                            "bare", "browser", "front", "landing", "app",
                            "claude"}

(* How far a page is read: to its end, to the cap, or, if it is read for   *)
(* markers, to somewhere behind the first of them in the same chunk.       *)
ReadUntil(q, page) ==
    LET len == Len(page.marks)
        stops == Stops(q, page)
        first == CHOOSE i \in stops : \A j \in stops : i <= j
        to == IF stops = {} THEN len ELSE first
    IN {<<Reply(page, n), IF n < len THEN "stopped" ELSE "own">> :
           n \in to..len}
       \cup {<<Reply(page, n), "capped">> :
                n \in IF q \in Long THEN 0..(to - 1) ELSE {}}

Replies(q) ==
    (UNION {ReadUntil(q, page) : page \in Pages(q)})
      \cup {<<Reply(page, 0), "strange">> : page \in StrangePages}

NoReply == [status |-> "lost", marks |-> {}]

-----------------------------------------------------------------------------
UnlockInit ==
    /\ service \in Services /\ world \in Worlds(service)
    /\ got = <<>> /\ source = <<>>
    /\ spent = FALSE /\ result = "none"

With(f, q, x) == [r \in DOMAIN f \cup {q} |-> IF r = q THEN x ELSE f[r]]

Receives(q, reply, from) ==
    /\ got' = With(got, q, reply)
    /\ source' = With(source, q, from)
    /\ UNCHANGED <<service, world, spent, result>>

(* The next request of the probe is answered by a page that can be read. *)
Request ==
    /\ result = "none" /\ Probe \notin Verdicts /\ ~spent
    /\ \E r \in Replies(Probe) : Receives(Probe, r[1], r[2])

(* It fails, or the time of the probe is up. *)
RequestFails ==
    /\ result = "none" /\ Probe \notin Verdicts
    /\ Receives(Probe, NoReply, "own")

(* The time of the probe is up, or the run is cancelled: every request     *)
(* fails from now on.                                                      *)
Spend == /\ result = "none" /\ ~spent
         /\ spent' = TRUE
         /\ UNCHANGED <<service, world, got, source, result>>

Rule == /\ result = "none" /\ Probe \in Verdicts
        /\ result' = Probe
        /\ UNCHANGED <<service, world, got, source, spent>>

UnlockNext == Request \/ RequestFails \/ Spend \/ Rule
UnlockSpec == UnlockInit /\ [][UnlockNext]_unlockVars

-----------------------------------------------------------------------------
(* The five ways in which a verdict is read out of a page that does not    *)
(* bear it: a title refused twice still counts as Netflix's originals      *)
(* (probes_media.go:66); Bahamut's ticket and the two surfaces of ChatGPT  *)
(* ask for no mark of their own (probes_region.go:214, probes_ai.go:51,    *)
(* 60); the status of a gateway passes for Reddit's or Bahamut's refusal   *)
(* (probes_region.go:160, 194); a page cut at the cap lacks the mark that  *)
(* decides it (probes_media.go:66, probes_ai.go:123); a page read for      *)
(* markers is left at the first of them (unlock.go:406).                   *)
Misread ==
    \/ service = "netflix" /\ \A q \in NetflixTitles : NetflixRefused(q)
    \/ \E q \in DOMAIN source \cap {"ticket", "compliance", "ios"} :
          source[q] = "strange"
    \/ "front" \in DOMAIN source /\ source["front"] = "strange"
       /\ Status("front", "403")
    \/ "device" \in DOMAIN source /\ source["device"] = "strange"
       /\ (Status("device", "403") \/ Status("device", "451"))
    \/ \E q \in DOMAIN source \cap (NetflixTitles \cup {"app"}) :
          source[q] = "capped"
    \/ \E q \in DOMAIN source : source[q] = "stopped"

\* A service reported as usable serves this address, wholly or in part, and
\* one reported as blocked refuses it, whatever was lost, replaced or cut
\* short on the way and however often a page was asked for again
\* (unlock.go:41-53).  The exceptions are named above.
VerdictIsTrue ==
    /\ result \in {"unlocked", "partial"} => world # "refused" \/ Misread
    /\ result = "blocked" => world = "refused" \/ Misread

\* "StatusPartial means the service works but only in part: Netflix shows
\* originals only" (unlock.go:46-47).
PartialIsPart ==
    service = "netflix" /\ result = "partial" => world = "originals"

=============================================================================
