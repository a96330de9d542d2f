------------------------------- MODULE Checks -------------------------------
(***************************************************************************)
(* The tools that ask others about this host: the mail ports               *)
(* (toolbox/portcheck), the address databases and blocklists               *)
(* (toolbox/ipquality), the speed tests (toolbox/speed) and the unlock     *)
(* probes (internal/unlock).  Each asks a list of items, one after another *)
(* or a few at a time, and folds the outcomes into a report.  Every answer *)
(* can be late or missing, the operator can cancel, and the budget of the  *)
(* run can expire under a question.                                        *)
(***************************************************************************)
EXTENDS Integers, Sequences, FiniteSets, FiniteSetsExt, Functions

CONSTANTS Items,        \* how many items a tool asks about
          Wanted,       \* the items of the catalogue a run selects
          Slots,        \* items the pooled tools ask at once
          Endpoints,    \* discovery endpoints of the address tool
          Carriers,     \* the carriers, and the order they are reported in
          Listings,     \* the server lists speedtest.net may return
          Nearest       \* servers the nearby test picks

ASSUME ItemsAssumption ==
    /\ Items \in Nat \ {0} /\ Slots \in Nat \ {0}
    /\ Endpoints \in Nat \ {0} /\ Nearest \in Nat \ {0}
    /\ Wanted \in (SUBSET (1..Items)) \ {{}}

ASSUME ListsAssumption ==
    /\ Carriers \in Seq(STRING)
    /\ \A l \in Listings : l \in Seq([carrier : STRING, distance : Nat])

Pooled == {"databases", "zones", "services"}
Tools == {"ports", "quality", "nearby", "carriers", "services"}

VARIABLES
    tool,       \* the tool that runs
    asking,     \* what it asks now: "address", "ports", "databases", "reverse",
                \* "zones", "servers", "services" or "nothing"
    over,       \* "no", "cancelled" or "expired"
    tries,      \* endpoints asked for the address
    item,       \* per item: "pending", "running" or "settled"
    outcome,    \* per item: what the tool wrote down
    ended,      \* per item, what ended its question: "answer", "deadline" (its
                \* own), "cut" (the run's), "never" (it was not asked)
    said,       \* per zone: the kinds of addresses it answered with
    claims,     \* the line kinds the databases claim
    listing,    \* the server list speedtest.net returned
    servers,    \* the servers to test
    halt,       \* why the speed test stopped: "none", "cancelled" or "budget"
    reverse,    \* the reverse lookup: "none", "failed", "missing", "confirmed"
                \* or "mismatch"
    told,       \* what the port check was told about the names, in order
    conclusion     \* of the run, or "none"

checksVars == <<tool, asking, over, tries, item, outcome, ended, said, claims,
                listing, servers, halt, reverse, told, conclusion>>

Blank == "blank"
All == 1..Items
Settled == {i \in DOMAIN item : item[i] = "settled"}
Running == {i \in DOMAIN item : item[i] = "running"}

Asks(n) == /\ item' = [i \in 1..n |-> "pending"]
           /\ outcome' = [i \in 1..n |-> Blank]
           /\ ended' = [i \in 1..n |-> "never"]
           /\ said' = [i \in 1..n |-> {}]

ChecksInit ==
    /\ tool \in Tools
    /\ asking = CASE tool \in {"ports", "quality"} -> "address"
                  [] tool \in {"nearby", "carriers"} -> "servers"
                  [] tool = "services" -> "services"
    /\ over = "no" /\ tries = 0
    /\ LET n == IF tool = "services" THEN Cardinality(Wanted) ELSE 0 IN
          /\ item = [i \in 1..n |-> "pending"]
          /\ outcome = [i \in 1..n |-> Blank]
          /\ ended = [i \in 1..n |-> "never"]
          /\ said = [i \in 1..n |-> {}]
    /\ claims = {} /\ listing = <<>> /\ servers = <<>> /\ halt = "none"
    /\ reverse = "none" /\ told = <<>> /\ conclusion = "none"

-----------------------------------------------------------------------------
(* The operator cancels, or the budget is spent; the tools that set no     *)
(* deadline of their own are only cancelled.                              *)
Interrupt ==
    /\ asking # "nothing" /\ over = "no"
    /\ \/ over' = "cancelled"
       \/ tool \in {"ports", "nearby", "carriers"} /\ over' = "expired"
    /\ UNCHANGED <<tool, asking, tries, item, outcome, ended, said, claims,
                   listing, servers, halt, reverse, told, conclusion>>

-----------------------------------------------------------------------------
(* The public address: the port check asks one endpoint and measures       *)
(* nothing without an answer; the address tool asks them in order.         *)
AddressFound ==
    /\ asking = "address" /\ over = "no"
    /\ asking' = IF tool = "ports" THEN "ports" ELSE "databases"
    /\ Asks(Items)
    /\ UNCHANGED <<tool, over, tries, claims, listing, servers, halt, reverse,
                   told, conclusion>>

AddressFails ==
    /\ asking = "address"
    /\ tries' = tries + 1
    /\ IF tool = "quality" /\ tries + 1 < Endpoints
       THEN UNCHANGED <<asking, item, outcome, ended, said, conclusion>>
       ELSE /\ asking' = "nothing" /\ conclusion' = "unknown"
            /\ IF tool = "ports"
               THEN /\ item' = [i \in All |-> "settled"]
                    /\ outcome' = [i \in All |-> "skipped"]
                    /\ ended' = [i \in All |-> "never"]
                    /\ said' = [i \in All |-> {}]
               ELSE UNCHANGED <<item, outcome, ended, said>>
    /\ UNCHANGED <<tool, over, claims, listing, servers, halt, reverse, told>>

-----------------------------------------------------------------------------
(* The choice of servers: nearest first, those with no known distance     *)
(* last; the nearest few, or the nearest of every carrier in their order. *)
Before(list, i, j) ==
    LET a == list[i].distance
        b == list[j].distance
    IN  \/ a > 0 /\ (b = 0 \/ a < b)
        \/ a = b /\ i < j

SortedByDistance(list) ==
    LET rank(i) == Cardinality({j \in DOMAIN list : Before(list, j, i)}) + 1
    IN  [k \in DOMAIN list |-> list[CHOOSE i \in DOMAIN list : rank(i) = k]]

PickNearest(list, n) == SubSeq(SortedByDistance(list), 1, Min({n, Len(list)}))

PickCarriers(list) ==
    LET sorted == SortedByDistance(list)
        of(c) == {k \in DOMAIN sorted : sorted[k].carrier = c}
        found == {n \in DOMAIN Carriers : of(Carriers[n]) # {}}
        nth(k) == CHOOSE n \in found : Cardinality({m \in found : m <= n}) = k
    IN  [k \in 1..Cardinality(found) |-> sorted[Min(of(Carriers[nth(k)]))]]

Pick(list) ==
    IF tool = "nearby" THEN PickNearest(list, Nearest) ELSE PickCarriers(list)

ServersListed ==
    /\ asking = "servers" /\ servers = <<>> /\ over = "no" /\ item = <<>>
    /\ \E list \in Listings :
          /\ listing' = list /\ servers' = Pick(list)
          /\ Asks(Len(Pick(list)))
          /\ asking' = IF Pick(list) = <<>> THEN "nothing" ELSE "servers"
          /\ conclusion' = IF Pick(list) = <<>> THEN "unknown" ELSE "none"
    /\ UNCHANGED <<tool, over, tries, claims, halt, reverse, told>>

ListingFails ==
    /\ asking = "servers" /\ servers = <<>>
    /\ asking' = "nothing" /\ conclusion' = "unknown"
    /\ UNCHANGED <<tool, over, tries, item, outcome, ended, said, claims,
                   listing, servers, halt, reverse, told>>

-----------------------------------------------------------------------------
(* The ports and the servers are asked one after another, the others as   *)
(* slots become free.                                                     *)
MayStart(i) ==
    IF asking \in Pooled THEN Cardinality(Running) < Slots
                         ELSE Running = {} /\ 1..i - 1 \subseteq Settled

Questions == {"ports", "servers"} \cup Pooled

Start1(i) ==
    /\ asking \in Questions /\ item[i] = "pending" /\ MayStart(i)
    /\ asking = "servers" => over = "no"
    /\ item' = [item EXCEPT ![i] = "running"]
    /\ UNCHANGED <<tool, asking, over, tries, outcome, ended, said, claims,
                   listing, servers, halt, reverse, told, conclusion>>

\* Mutant: a probe that gives up its place in the queue writes down nothing.
GiveUpSilently(i) ==
    /\ asking = "services" /\ over # "no" /\ item[i] = "pending"
    /\ item' = [item EXCEPT ![i] = "settled"]
    /\ UNCHANGED <<tool, asking, over, tries, outcome, ended, said, claims,
                   listing, servers, halt, reverse, told, conclusion>>

(* A probe that waits for a slot of a cancelled run gives up. *)
LeaveQueue(i) ==
    /\ asking = "services" /\ over # "no" /\ item[i] = "pending"
    /\ item' = [item EXCEPT ![i] = "settled"]
    /\ outcome' = [outcome EXCEPT ![i] = "failed"]
    /\ UNCHANGED <<tool, asking, over, tries, ended, said, claims, listing,
                   servers, halt, reverse, told, conclusion>>

Settle(i, why, result) ==
    /\ asking \in Questions /\ item[i] = "running"
    /\ item' = [item EXCEPT ![i] = "settled"]
    /\ ended' = [ended EXCEPT ![i] = why]
    /\ outcome' = [outcome EXCEPT ![i] = result]

-----------------------------------------------------------------------------
(* What an answer says, per kind of question. *)
Kinds == {"hosting", "residential"}
Answers == {"listing", "refusal", "foreign"}

(* A zone's addresses list the host, refuse the question, or mean nothing: *)
(* a resolver that answers every name makes nobody a spammer.              *)
QueryZone(answers) ==
    IF "refusal" \notin answers /\ "listing" \in answers
    THEN "listed" ELSE "undecided"

Responses ==
    CASE asking = "ports" -> {"open", "refused", "error"}
      [] asking = "servers" -> {"measured", "failed"}
      [] asking = "services" -> {"unlocked", "partial", "blocked", "failed"}
      [] OTHER -> {}

(* The question is answered in time. *)
Respond(i) ==
    /\ asking \in {"ports", "servers", "services"} /\ over = "no"
    /\ \E result \in Responses : Settle(i, "answer", result)
    /\ UNCHANGED <<tool, asking, over, tries, said, claims, listing, servers,
                   halt, reverse, told, conclusion>>

(* A database answers with a line kind, without one, or with a body its    *)
(* parser refuses or trips over.                                          *)
DatabaseResponds(i) ==
    /\ asking = "databases" /\ over = "no"
    /\ \E result \in Kinds \cup {"unnamed", "failed"} :
          /\ Settle(i, "answer", result)
          /\ claims' = claims \cup ({result} \cap Kinds)
    /\ UNCHANGED <<tool, asking, over, tries, said, listing, servers, halt,
                   reverse, told, conclusion>>

(* A zone that knows no such name does not list the address. *)
ZoneResponds(i) ==
    /\ asking = "zones" /\ over = "no"
    /\ \/ Settle(i, "answer", "clean") /\ UNCHANGED said
       \/ \E answers \in SUBSET Answers :
             /\ said' = [said EXCEPT ![i] = answers]
             /\ Settle(i, "answer", QueryZone(answers))
    /\ UNCHANGED <<tool, asking, over, tries, claims, listing, servers, halt,
                   reverse, told, conclusion>>

Unanswered == IF asking = "zones" THEN "undecided" ELSE "failed"

(* Nothing came before the question's own deadline: for a port, and only  *)
(* there, this is a reading.                                              *)
TimeOut(i) ==
    /\ asking \in Questions /\ over = "no"
    /\ Settle(i, "deadline", IF asking = "ports" THEN "blocked" ELSE Unanswered)
    /\ UNCHANGED <<tool, asking, over, tries, said, claims, listing, servers,
                   halt, reverse, told, conclusion>>

(* The run ended under the question.  A dial cut by the deadline of the   *)
(* run looks like one that ran into its own.                              *)
Cut(i) ==
    /\ asking \in Questions /\ over # "no"
    /\ Settle(i, "cut", IF asking # "ports" THEN Unanswered
                        ELSE IF over = "expired" THEN "blocked" ELSE "error")
    /\ UNCHANGED <<tool, asking, over, tries, said, claims, listing, servers,
                   halt, reverse, told, conclusion>>

-----------------------------------------------------------------------------
Complete == asking \in Questions /\ Settled = DOMAIN item

(* The port check and the address tool go on with the names of the address. *)
PortsDone ==
    /\ asking = "ports" /\ Complete
    /\ asking' = "reverse"
    /\ UNCHANGED <<tool, over, tries, item, outcome, ended, said, claims,
                   listing, servers, halt, reverse, told, conclusion>>

(* One kind of line is the verdict; two different ones are mixed. *)
DatabasesDone ==
    /\ asking = "databases" /\ Complete
    /\ asking' = "reverse"
    /\ conclusion' = CASE claims = {} -> "unknown"
                    [] Cardinality(claims) > 1 -> "mixed"
                    [] OTHER -> CHOOSE k \in claims : TRUE
    /\ UNCHANGED <<tool, over, tries, item, outcome, ended, said, claims,
                   listing, servers, halt, reverse, told>>

Forwards == UNION {[1..n -> {"matches", "elsewhere", "fails"}] : n \in 0..2}

\* Mutant: only a port that timed out is out of reach.
MailVerdictLenient(names) ==
    IF outcome[1] = "blocked" THEN "no"
    ELSE IF names = "failed" THEN "unknown"
    ELSE IF names = "confirmed" THEN "yes" ELSE "no"

(* A mail server needs port 25 and a name that resolves back; whatever    *)
(* could not be read leaves the verdict open.                             *)
MailVerdict(names) ==
    IF outcome[1] = "blocked" THEN "no"
    ELSE IF outcome[1] = "error" \/ names = "failed" THEN "unknown"
    ELSE IF names = "confirmed" THEN "yes" ELSE "no"

(* The names of the address, and where each of them resolves to. *)
ReverseLookup ==
    /\ asking = "reverse"
    /\ \E names \in {"failed", "missing", "confirmed", "mismatch"},
          resolved \in Forwards :
          /\ over # "no" => names = "failed"
          /\ (names \in {"confirmed", "mismatch"}) = (resolved # <<>>)
          /\ (names = "confirmed") = ("matches" \in Range(resolved))
          /\ reverse' = names
          /\ told' = IF tool = "ports" THEN resolved ELSE told
          /\ IF tool = "ports"
             THEN /\ asking' = "nothing" /\ conclusion' = MailVerdict(names)
                  /\ UNCHANGED <<item, outcome, ended, said>>
             ELSE asking' = "zones" /\ Asks(Items) /\ UNCHANGED conclusion
    /\ UNCHANGED <<tool, over, tries, claims, listing, servers, halt>>

(* The blocklists and the unlock probes end with a count per outcome. *)
CountOutcomes ==
    /\ asking \in {"zones", "services"} /\ Complete
    /\ asking' = "nothing"
    /\ UNCHANGED <<tool, over, tries, item, outcome, ended, said, claims,
                   listing, servers, halt, reverse, told, conclusion>>

(* The speed test reports why it stopped before the end of its list, and  *)
(* a budget that ran out under the last server.                           *)
SpeedDone ==
    /\ asking = "servers" /\ servers # <<>> /\ Running = {}
    /\ Complete \/ over # "no"
    /\ halt' = CASE ~Complete /\ over = "cancelled" -> "cancelled"
                 [] over = "expired" -> "budget"
                 [] OTHER -> "none"
    /\ conclusion' = IF \E i \in DOMAIN outcome : outcome[i] = "measured"
                  THEN "measured" ELSE "unknown"
    /\ asking' = "nothing"
    /\ UNCHANGED <<tool, over, tries, item, outcome, ended, said, claims,
                   listing, servers, reverse, told>>

Ask1(i) ==
    \/ Start1(i) \/ LeaveQueue(i) \/ Respond(i) \/ DatabaseResponds(i)
    \/ ZoneResponds(i) \/ TimeOut(i) \/ Cut(i)

ChecksNext ==
    \/ Interrupt
    \/ AddressFound \/ AddressFails \/ ServersListed \/ ListingFails
    \/ \E i \in DOMAIN item : Ask1(i)
    \/ PortsDone \/ DatabasesDone \/ ReverseLookup \/ CountOutcomes \/ SpeedDone

ChecksSpec == ChecksInit /\ [][ChecksNext]_checksVars

-----------------------------------------------------------------------------
ChecksTypeOK ==
    /\ tool \in Tools
    /\ asking \in Questions \cup {"address", "reverse", "nothing"}
    /\ over \in {"no", "cancelled", "expired"} /\ tries \in 0..Endpoints
    /\ item \in [DOMAIN item -> {"pending", "running", "settled"}]
    /\ DOMAIN outcome = DOMAIN item
    /\ ended \in [DOMAIN item -> {"answer", "deadline", "cut", "never"}]
    /\ said \in [DOMAIN item -> SUBSET Answers]
    /\ claims \subseteq Kinds /\ halt \in {"none", "cancelled", "budget"}

(* Every question of a run that ended has an outcome, however the run was  *)
(* cut: a probe that never got its slot says so, and a speed test that     *)
(* left servers out names what stopped it.                                *)
NothingIsBlank ==
    asking = "nothing" =>
        \A i \in DOMAIN outcome : outcome[i] = Blank => halt # "none"

(* "Can run a mail server" rests on an answer from port 25 and on a name   *)
(* that was seen to resolve back.                                         *)
YesIsMeasured ==
    tool = "ports" /\ conclusion = "yes" =>
        ended[1] = "answer" /\ outcome[1] # "error" /\ "matches" \in Range(told)

(* A listed address is listed by the zone: not by a resolver that answers *)
(* every name, and not by a zone that refused the question.               *)
HitsAreListings ==
    \A i \in DOMAIN outcome : outcome[i] = "listed" =>
        "listing" \in said[i] /\ "refusal" \notin said[i]

(* The server of a carrier is one no server of it is known to be nearer   *)
(* than, and a carrier is left out only when the list has none of it.     *)
ChosenAreNearest ==
    tool = "carriers" =>
        /\ {s.carrier : s \in Range(servers)}
               = {s.carrier : s \in Range(listing)} \cap Range(Carriers)
        /\ \A s \in Range(servers), other \in Range(listing) :
              s.carrier = other.carrier /\ other.distance > 0 =>
                  s.distance \in 1..other.distance

(* What a report claims was seen in this run, under every order of        *)
(* answers, timeouts and interruptions.                                   *)
ReportIsMeasured == YesIsMeasured /\ HitsAreListings /\ ChosenAreNearest

(* "Anything this run could not read leaves the conclusion at [unknown]       *)
(* instead of guessing in either direction" (report.go, decide): a name    *)
(* that could not be resolved forward, and a dial the deadline of the run  *)
(* cut short, both become a "no".                                         *)
UnreadIsUnknown ==
    tool = "ports" /\ conclusion = "no" =>
        \/ ended[1] = "deadline"
        \/ ended[1] = "answer" /\ "fails" \notin Range(told)

=============================================================================
