--------------------------- MODULE FirewallProofs ---------------------------
(***************************************************************************)
(* Proofs about Firewall, for any number of panels, nodes, ports, ranges,  *)
(* tasks, failures and reboots, and any rules of the operator: the types,  *)
(* and the three safety properties, each from an inductive invariant.      *)
(***************************************************************************)
EXTENDS Firewall, FiniteSetTheorems, SequenceTheorems,
        WellFoundedInduction, TLAPS

-----------------------------------------------------------------------------
(***************************************************************************)
(* The helpers: the first of a set, and the rules that are kept.           *)
(***************************************************************************)

\* A set of naturals has a first element.
LEMMA FirstIsLeast ==
    ASSUME NEW S, S \subseteq Nat, S # {}
    PROVE  First(S) \in S /\ \A t \in S : First(S) <= t
<1>1. PICK x \in S : \A y \in S : ~(<<y, x>> \in OpToRel(<, Nat))
  BY NatLessThanWellFounded, WFMin
<1>2. ASSUME NEW y \in S
      PROVE  x <= y
  <2>1. x \in Nat /\ y \in Nat /\ <<y, x>> \in Nat \X Nat
        /\ <<y, x>>[1] = y /\ <<y, x>>[2] = x
    OBVIOUS
  <2>2. ~(y < x)
    BY <1>1, <2>1, Zenon DEF OpToRel
  <2>3. QED
    BY <2>1, <2>2
<1>3. QED
  BY <1>2 DEF First

\* The rank of a place among those that are kept: it is not behind the place
\* itself, and no two have the same.
LEMMA RankBounds ==
    ASSUME NEW n \in Nat, NEW K, K \subseteq 1..n
    PROVE  /\ IsFiniteSet(K) /\ Cardinality(K) \in Nat
           /\ \A k \in K : Rank(K, k) \in 1..Cardinality(K) /\ Rank(K, k) <= k
           /\ \A k, l \in K : Rank(K, k) = Rank(K, l) => k = l
<1>0. \A k \in K : k \in Nat /\ 1 <= k
  OBVIOUS
<1>1. IsFiniteSet(K) /\ Cardinality(K) \in Nat
  <2>1. IsFiniteSet(1..n)
    BY FS_Interval
  <2>2. QED
    BY <2>1, FS_Subset, FS_CardinalityType
<1> DEFINE Up(k) == {j \in K : j <= k}
<1>2. \A k \in K : IsFiniteSet(Up(k)) /\ Cardinality(Up(k)) \in Nat
                   /\ Cardinality(Up(k)) <= Cardinality(K)
  BY <1>1, FS_Subset, FS_CardinalityType
<1>3. ASSUME NEW k \in K
      PROVE  Cardinality(Up(k)) # 0 /\ Cardinality(Up(k)) <= k
  <2>1. k \in Up(k)
    BY <1>0
  <2>2. Cardinality(Up(k)) # 0
    BY <1>2, <2>1, FS_EmptySet
  <2>3. Up(k) \subseteq 1..k
    <3>1. \A j \in K : j <= k => j \in 1..k
      BY <1>0
    <3>2. QED
      BY <3>1
  <2>4. IsFiniteSet(1..k) /\ Cardinality(1..k) = k
    BY FS_Interval
  <2>5. Cardinality(Up(k)) <= k
    BY <2>3, <2>4, FS_Subset
  <2>6. QED
    BY <2>2, <2>5
<1>4. ASSUME NEW k \in K, NEW l \in K, k < l
      PROVE  Cardinality(Up(k)) # Cardinality(Up(l))
  <2>1. Up(k) \subseteq Up(l) /\ l \in Up(l) /\ l \notin Up(k)
    <3>1. l <= l /\ ~(l <= k) /\ \A j \in K : j <= k => j <= l
      BY <1>0, <1>4
    <3>2. QED
      BY <3>1
  <2>2. QED
    BY <1>2, <2>1, FS_Subset
<1>5. \A k \in K : Rank(K, k) = Cardinality(Up(k))
  BY DEF Rank
<1> HIDE DEF Up
<1>6. \A k, l \in K : Rank(K, k) = Rank(K, l) => k = l
  BY <1>4, <1>5
<1>7. QED
  BY <1>1, <1>2, <1>3, <1>5, <1>6

\* What is kept is a list of the rules at the places K, none further back than
\* it was.
LEMMA KeptRules ==
    ASSUME NEW S, rules \in Seq(S), NEW K, K \subseteq DOMAIN rules
    PROVE  /\ Kept(K) \in Seq(S) /\ DOMAIN Kept(K) = 1..Cardinality(K)
           /\ \A i \in DOMAIN Kept(K) :
                 \E k \in K : i <= k /\ Kept(K)[i] = rules[k]
<1>1. /\ Len(rules) \in Nat /\ K \subseteq 1..Len(rules)
  OBVIOUS
<1>2. /\ IsFiniteSet(K) /\ Cardinality(K) \in Nat
      /\ \A k \in K : Rank(K, k) \in 1..Cardinality(K) /\ Rank(K, k) <= k
      /\ \A k, l \in K : Rank(K, k) = Rank(K, l) => k = l
  BY <1>1, RankBounds
<1> DEFINE f == [k \in K |-> Rank(K, k)]
<1>3. f \in Injection(K, 1..Cardinality(K))
  BY <1>2 DEF Injection, IsInjective
<1>4. f \in Surjection(K, 1..Cardinality(K))
  BY <1>2, <1>3, FS_Injection, FS_Interval
<1>5. ASSUME NEW i \in 1..Cardinality(K)
      PROVE  \E k \in K : Rank(K, k) = i
  BY <1>4 DEF Surjection
<1>6. ASSUME NEW i \in 1..Cardinality(K)
      PROVE  \E k \in K : i <= k /\ Kept(K)[i] = rules[k] /\ rules[k] \in S
  <2> DEFINE k == CHOOSE k \in K : Rank(K, k) = i
  <2>1. k \in K /\ Rank(K, k) = i
    BY <1>5
  <2>2. Kept(K)[i] = rules[k]
    BY DEF Kept
  <2>3. i <= k /\ rules[k] \in S
    BY <1>2, <2>1
  <2>4. QED
    BY <2>1, <2>2, <2>3
<1>7. Kept(K) \in [1..Cardinality(K) -> S]
  BY <1>6 DEF Kept
<1>8. Kept(K) \in Seq(S)
  BY <1>2, <1>7, SeqDef
<1>9. QED
  BY <1>6, <1>7, <1>8

-----------------------------------------------------------------------------
(***************************************************************************)
(* The types, and what a task is at each of its places.                    *)
(***************************************************************************)
Applying == {"apply", "deploy", "boot"}

Shaped(r) ==
    /\ r.pc = "idle" => r.task = "none"
    /\ r.pc \in {"look", "add", "unit", "enable"} => r.task \in Applying
    /\ r.pc \in {"delete", "disable", "discard"} => r.task = "remove"
    /\ r.pc \in {"look", "add", "delete"} => r.at \in Visits(r.task, r.snap)

TypeInv == TypeOK /\ \A p \in Procs : Shaped(run[p])

\* The process that does nothing.
LEMMA IdleIs == Idle \in Task /\ Shaped(Idle) /\ Idle.task = "none"
<1>1. NoNodes \in [Slots -> Node \cup {None}]
  BY DEF NoNodes
<1>2. QED
  BY <1>1 DEF Idle, Task, Labels, Shaped

\* What the assumption says of the slots.
LEMMA SlotsAre ==
    Slots \subseteq Nat \ {0} /\ IsFiniteSet(Slots) /\ Cardinality(Slots) \in Nat
<1>1. Slots \in SUBSET (Nat \ {0}) /\ IsFiniteSet(Slots)
  BY SlotsAssumption
<1>2. QED
  BY <1>1, FS_CardinalityType

\* The slots a task visits are slots, numbered from one.
LEMMA VisitsAre ==
    ASSUME NEW t, NEW ns
    PROVE  /\ Visits(t, ns) \subseteq Slots /\ Visits(t, ns) \subseteq Nat \ {0}
           /\ \A s \in Visits(t, ns) : ns[s].hop
BY SlotsAre DEF Visits, Hopping, EnabledNodes

\* A hopping node has a range and a port of its own.
LEMMA RedirectType ==
    ASSUME NEW n \in Node \cup {None}, n.hop
    PROVE  n.range \in Ranges /\ n.port \in Ports /\ Redirect(n) \in Rules
<1>1. n # None
  BY DEF None
<1>2. n \in [hop : {TRUE}, range : Ranges, port : Ports, enabled : BOOLEAN]
      \/ n \in [hop : {FALSE}, range : {NoRange}, port : Ports, enabled : BOOLEAN]
  BY <1>1, Zenon DEF Node
<1>3. ~(n \in [hop : {FALSE}, range : {NoRange}, port : Ports, enabled : BOOLEAN])
  OBVIOUS
<1>4. n.range \in Ranges /\ n.port \in Ports
  BY <1>2, <1>3
<1>5. QED
  BY <1>4 DEF Redirect, Rules

\* How a task goes on: it ends, or it is the same task, with every node it was
\* to visit before its place behind it.
Goes(r, u) ==
    /\ u.task = r.task /\ u.snap = r.snap /\ u.crossed = r.crossed
    /\ u.failed = r.failed /\ u.cancelled = r.cancelled /\ ~u.seen
    /\ backend # "none" =>
          \A s \in Visits(r.task, r.snap) : s < u.at => s <= r.at

\* A task that goes on stands at the next slot it visits or at its last step,
\* or is idle.
LEMMA OnwardIs ==
    ASSUME NEW r \in Task, r.task # "none"
    PROVE  /\ Onward(r) \in Task /\ Shaped(Onward(r))
           /\ Onward(r) = Idle \/ Goes(r, Onward(r))
<1> DEFINE visits == Visits(r.task, r.snap)
           ahead == {s \in visits : s > r.at}
           removes == r.task = "remove"
           last == [r EXCEPT !.at = Cardinality(Slots) + 1, !.seen = FALSE,
                             !.pc = IF removes THEN "disable" ELSE "unit"]
           next == [r EXCEPT !.at = First(ahead), !.seen = FALSE,
                             !.pc = IF removes THEN "delete" ELSE "look"]
<1>1. visits \subseteq Nat /\ r.at \in Nat /\ Cardinality(Slots) + 1 \in Nat
  <2>1. visits \subseteq Nat
    BY VisitsAre
  <2>2. r.at \in Nat
    BY DEF Task
  <2>3. QED
    BY <2>1, <2>2, SlotsAre
<1>2. ~removes => r.task \in Applying
  BY DEF Task, Applying
<1>3. /\ last \in Task /\ last.task = r.task /\ last.snap = r.snap
      /\ last.crossed = r.crossed /\ last.failed = r.failed
      /\ last.cancelled = r.cancelled /\ ~last.seen
      /\ last.pc = IF removes THEN "disable" ELSE "unit"
  BY <1>1 DEF Task, Labels
<1>4. ASSUME ahead # {}
      PROVE  /\ First(ahead) \in ahead /\ \A t \in ahead : First(ahead) <= t
  <2>1. ahead \subseteq Nat
    BY <1>1
  <2>2. QED
    BY <1>4, <2>1, FirstIsLeast
<1>5. ASSUME ahead # {}
      PROVE  /\ next \in Task /\ next.task = r.task /\ next.snap = r.snap
             /\ next.crossed = r.crossed /\ next.failed = r.failed
             /\ next.cancelled = r.cancelled /\ ~next.seen
             /\ next.pc = IF removes THEN "delete" ELSE "look"
             /\ next.at = First(ahead) /\ First(ahead) \in visits
  <2>1. First(ahead) \in visits /\ First(ahead) \in Nat
    BY <1>1, <1>4, <1>5
  <2>2. QED
    BY <2>1 DEF Task, Labels
<1>6. Onward(r) = IF ahead = {} \/ backend = "none" THEN last
                  ELSE IF r.snap[First(ahead)].range[1] = 0 THEN Idle ELSE next
  BY DEF Onward
<1>7. CASE ahead = {} \/ backend = "none"
  <2>1. Onward(r) = last
    BY <1>6, <1>7
  <2>2. backend # "none" => \A s \in visits : s <= r.at
    BY <1>1, <1>7
  <2> HIDE DEF last, visits, ahead
  <2>3. Shaped(last)
    BY <1>2, <1>3 DEF Shaped
  <2>4. Goes(r, last)
    BY <1>3, <2>2 DEF Goes, visits
  <2>5. QED
    BY <1>3, <2>1, <2>3, <2>4
<1>8. CASE ~(ahead = {} \/ backend = "none")
  <2>1. Onward(r) \in {Idle, next}
    BY <1>6, <1>8
  <2>2. \A s \in visits : s < First(ahead) => s <= r.at
    BY <1>1, <1>4, <1>8
  <2>3. ahead # {}
    BY <1>8
  <2> HIDE DEF next, ahead
  <2>4. Shaped(next)
    BY <1>2, <1>5, <2>3 DEF Shaped
  <2>5. Goes(r, next)
    BY <1>5, <2>2, <2>3 DEF Goes
  <2>6. QED
    BY <1>5, <2>1, <2>3, <2>4, <2>5, IdleIs
<1>9. QED
  BY <1>7, <1>8

\* A task starts with the nodes of the file, none of them behind it.
Begun(t, u) ==
    /\ u.task = t /\ u.snap = nodes /\ ~u.crossed /\ ~u.failed /\ ~u.seen
    /\ backend # "none" => \A s \in Visits(t, nodes) : ~(s < u.at)

\* A task that starts goes on from nothing done, or is over at once.
LEMMA StartingIs ==
    ASSUME TypeOK, NEW t \in Applying \cup {"remove"}
    PROVE  /\ Starting(t) \in Task /\ Shaped(Starting(t))
           /\ Starting(t) = Idle \/ Begun(t, Starting(t))
<1> DEFINE r == [Idle EXCEPT !.task = t, !.snap = nodes]
<1>1. /\ r \in Task /\ r.task = t /\ r.snap = nodes /\ ~r.crossed /\ ~r.failed
      /\ r.at = 0
  BY IdleIs DEF TypeOK, Task, Applying, Idle
<1>2. Starting(t) = Onward(r)
  BY DEF Starting
<1>3. t # "none"
  BY DEF Applying
<1> HIDE DEF r
<1>4. /\ Onward(r) \in Task /\ Shaped(Onward(r))
      /\ Onward(r) = Idle \/ Goes(r, Onward(r))
  BY <1>1, <1>3, OnwardIs
<1>5. Goes(r, Onward(r)) => Begun(t, Onward(r))
  <2>1. \A s \in Visits(t, nodes) : s \in Nat /\ s # 0
    BY VisitsAre
  <2>2. QED
    BY <1>1, <2>1 DEF Goes, Begun
<1>6. QED
  BY <1>2, <1>4, <1>5

-----------------------------------------------------------------------------
(***************************************************************************)
(* What a step of a task does to it, to the rules and to the others.       *)
(***************************************************************************)

\* A redirect to the node n is there, or nft takes a rule for it.
Present(n) ==
    \E rule \in Range(rules) :
        /\ rule.range = n.range
        /\ \/ rule.to = n.port
           \/ backend = "nft" /\ TextPrefix(n.port, rule.to)

PresentNext(n) ==
    \E rule \in Range(rules') :
        /\ rule.range = n.range
        /\ \/ rule.to = n.port
           \/ backend = "nft" /\ TextPrefix(n.port, rule.to)

\* The turn of the node that r is at is over: its rule was seen before or is
\* there now; it is gone or the command failed.
Done(r, u) ==
    \/ r.pc = "add" /\ r.seen
    \/ r.task \in Applying /\ PresentNext(r.snap[r.at])
    \/ r.task = "remove" /\ (u.failed \/ Redirect(r.snap[r.at]) \notin Range(rules)')

\* p goes on from r to u with the same nodes, or ends.
Passes(r, u) ==
    /\ u.task = r.task /\ u.snap = r.snap /\ u.crossed = r.crossed
    /\ r.failed => u.failed
    /\ backend # "none" =>
          \A s \in Visits(r.task, r.snap) :
             s < u.at => s < r.at \/ (s = r.at /\ Done(r, u))
    /\ u.pc = "add" /\ u.seen =>
          u.at = r.at /\ (Present(r.snap[r.at]) \/ (r.pc = "add" /\ r.seen))

Turns(r, u) == u \in Task /\ Shaped(u) /\ (u = Idle \/ Passes(r, u))

\* The rules a step leaves: the old ones, none further back than it was, and
\* at most the redirect of the node a task is at; a task that sets rules
\* takes none away, one that clears them adds none.
RulesStep(r) ==
    /\ rules' \in Seq(Rules \cup Range(Foreign))
    /\ \A i \in DOMAIN rules' :
          \/ \E k \in DOMAIN rules : i <= k /\ rules'[i] = rules[k]
          \/ /\ r.task \in Applying /\ r.at \in Visits(r.task, r.snap)
             /\ rules'[i] = Redirect(r.snap[r.at])
    /\ r.task \in Applying => Range(rules) \subseteq Range(rules')

\* The others stay as they are, or they are marked where the rules change.
Crossed(r) == [r EXCEPT !.crossed = @ \/ r.pc # "idle"]
Marks(p, u) ==
    \/ run' = [run EXCEPT ![p] = u] /\ rules' = rules
    \/ run' = [q \in Procs |-> IF q = p THEN u ELSE Crossed(run[q])]

Turn(p, u) == Turns(run[p], u) /\ RulesStep(run[p]) /\ Marks(p, u)

\* What the types say of one task.
LEMMA RunIs ==
    ASSUME TypeInv, NEW p \in Procs
    PROVE  /\ run[p] \in Task /\ Shaped(run[p]) /\ run \in [Procs -> Task]
           /\ rules \in Seq(Rules \cup Range(Foreign))
BY DEF TypeInv, TypeOK

\* The node whose turn it is has a redirect.
LEMMA CurrentIs ==
    ASSUME NEW r \in Task, r.at \in Visits(r.task, r.snap)
    PROVE  Current(r) \in Rules /\ Current(r) = Redirect(r.snap[r.at])
<1>1. r.at \in Slots /\ r.snap[r.at].hop
  BY VisitsAre
<1>2. r.snap \in [Slots -> Node \cup {None}]
  BY DEF Task
<1>3. r.snap[r.at] \in Node \cup {None}
  BY <1>1, <1>2
<1>4. QED
  BY <1>1, <1>3, RedirectType DEF Current

\* A step that leaves the rules alone.
LEMMA RulesKept ==
    ASSUME TypeInv, NEW p \in Procs, rules' = rules
    PROVE  RulesStep(run[p])
<1>1. rules \in Seq(Rules \cup Range(Foreign))
  BY RunIs
<1>2. \A i \in DOMAIN rules : i <= i
  BY <1>1
<1>3. QED
  BY <1>1, <1>2 DEF RulesStep

\* The text of a port begins itself.
LEMMA OwnText == ASSUME NEW p \in Nat PROVE TextPrefix(p, p)
<1>1. 10 ^ 0 = 1 /\ p \div 1 = p /\ 0 \in 0..4
  OBVIOUS
<1>2. p \div (10 ^ 0) = p
  BY <1>1
<1>3. QED
  BY <1>1, <1>2 DEF TextPrefix

\* What the assumption says of the ports.
LEMMA PortsAre == \A x \in Ports : x \in Nat
BY PortsAssumption

\* A rule is recognised by itself.
LEMMA OwnRule == ASSUME NEW rule \in Rules PROVE Recognised(rule, rule)
<1>1. rule.to \in Ports
  BY DEF Rules
<1>2. rule.to \in Nat
  BY <1>1, PortsAre, Zenon
<1>3. QED
  BY <1>2, OwnText DEF Recognised

\* A rule that is listed is present; so is one that was just added.
LEMMA ListedIsPresent ==
    ASSUME NEW r, NEW rule \in Range(rules), Recognised(Current(r), rule)
    PROVE  Present(r.snap[r.at])
BY DEF Current, Redirect, Recognised, Present

\* A task that has nothing to do at its place goes on.
LEMMA PassOn ==
    ASSUME TypeInv, NEW p \in Procs, run[p].pc # "idle", NEW v \in Task,
           v.task = run[p].task, v.snap = run[p].snap,
           v.crossed = run[p].crossed, run[p].failed => v.failed,
           v.at = run[p].at,
           \A u : u.failed = v.failed => Done(run[p], u)
    PROVE  Turns(run[p], Onward(v))
<1> DEFINE r == run[p]
           u == Onward(v)
<1>1. r \in Task /\ Shaped(r)
  BY RunIs
<1>2. r.task # "none"
  BY <1>1 DEF Shaped, Task, Labels, Applying
<1>3. u \in Task /\ Shaped(u) /\ (u = Idle \/ Goes(v, u))
  BY <1>2, OnwardIs
<1>4. Goes(v, u) => Passes(r, u)
  <2> SUFFICES ASSUME Goes(v, u)
               PROVE  Passes(r, u)
    OBVIOUS
  <2>1. Done(r, u)
    BY DEF Goes
  <2>2. ASSUME backend # "none", NEW s \in Visits(r.task, r.snap), s < u.at
        PROVE  s < r.at \/ (s = r.at /\ Done(r, u))
    <3>1. s <= v.at
      BY <2>2 DEF Goes
    <3>2. s \in Nat /\ r.at \in Nat
      BY <1>1, VisitsAre DEF Task
    <3>3. QED
      BY <2>1, <3>1, <3>2
  <2>3. QED
    BY <2>2 DEF Passes, Goes
<1>5. QED
  BY <1>3, <1>4 DEF Turns

-----------------------------------------------------------------------------
(***************************************************************************)
(* The turns, one lemma per step.                                          *)
(***************************************************************************)

\* Looking for the rule, cancelled or not.
LEMMA LookTurn ==
    ASSUME TypeInv, NEW p \in Procs, Look(p)
    PROVE  \E u : Turn(p, u)
<1> DEFINE r == run[p]
           found == [r EXCEPT !.pc = "add", !.seen = Listed(Current(r))]
           lost == [r EXCEPT !.pc = "add", !.seen = FALSE, !.failed = TRUE]
<1>1. r \in Task /\ Shaped(r) /\ run \in [Procs -> Task]
  BY RunIs
<1>2. r.pc = "look" /\ rules' = rules
      /\ (run' = [run EXCEPT ![p] = found] \/ run' = [run EXCEPT ![p] = lost])
  BY DEF Look, Becomes
<1>3. r.task \in Applying /\ r.at \in Visits(r.task, r.snap)
  BY <1>1, <1>2 DEF Shaped
<1>4. RulesStep(r)
  BY <1>2, RulesKept
<1>5. /\ found \in Task /\ found.task = r.task /\ found.snap = r.snap
      /\ found.crossed = r.crossed /\ found.failed = r.failed /\ found.at = r.at
      /\ found.pc = "add" /\ (found.seen => Listed(Current(r)))
  BY <1>1 DEF Task, Labels, Listed
<1>6. /\ lost \in Task /\ lost.task = r.task /\ lost.snap = r.snap
      /\ lost.crossed = r.crossed /\ lost.failed /\ lost.at = r.at
      /\ lost.pc = "add" /\ ~lost.seen
  BY <1>1 DEF Task, Labels
<1> HIDE DEF found, lost
<1>7. found.seen => Present(r.snap[r.at])
  BY <1>5, ListedIsPresent DEF Listed, Range
<1>8. Turns(r, found)
  <2>1. Shaped(found)
    BY <1>3, <1>5 DEF Shaped
  <2>2. Passes(r, found)
    BY <1>5, <1>7 DEF Passes
  <2>3. QED
    BY <1>5, <2>1, <2>2 DEF Turns
<1>9. Turns(r, lost)
  <2>1. Shaped(lost)
    BY <1>3, <1>6 DEF Shaped
  <2>2. Passes(r, lost)
    BY <1>6 DEF Passes
  <2>3. QED
    BY <1>6, <2>1, <2>2 DEF Turns
<1>10. QED
  BY <1>2, <1>4, <1>8, <1>9 DEF Turn, Marks

\* Adding the rule: it was seen, it is added now, or the task ends.
LEMMA AddTurn ==
    ASSUME TypeInv, NEW p \in Procs, AddRule(p)
    PROVE  \E u : Turn(p, u)
<1> DEFINE r == run[p]
<1>1. r \in Task /\ Shaped(r) /\ r.pc = "add"
      /\ rules \in Seq(Rules \cup Range(Foreign))
  BY RunIs DEF AddRule
<1>2. r.task \in Applying /\ r.at \in Visits(r.task, r.snap)
  BY <1>1 DEF Shaped
<1>3. Current(r) \in Rules /\ Current(r) = Redirect(r.snap[r.at])
  BY <1>1, <1>2, CurrentIs
<1>4. CASE r.seen /\ Becomes(p, Onward(r)) /\ UNCHANGED <<rules, faults>>
  <2>1. \A u : Done(r, u)
    BY <1>1, <1>4 DEF Done
  <2>2. Turns(r, Onward(r))
    BY <1>1, <2>1, PassOn
  <2>3. RulesStep(r)
    BY <1>4, RulesKept
  <2>4. QED
    BY <1>4, <2>2, <2>3 DEF Turn, Marks, Becomes
<1>5. CASE /\ ~r.seen /\ Works(p) /\ rules' = Append(rules, Current(r))
           /\ Crossing(p)
  <2>1. /\ Current(r) \in Range(rules') /\ Range(rules) \subseteq Range(rules')
        /\ rules' \in Seq(Rules \cup Range(Foreign))
        /\ \A i \in DOMAIN rules' :
              (\E k \in DOMAIN rules : i <= k /\ rules'[i] = rules[k])
              \/ rules'[i] = Current(r)
    <3>1. Len(rules) \in Nat /\ DOMAIN rules = 1..Len(rules)
          /\ DOMAIN rules' = 1..(Len(rules) + 1)
          /\ rules'[Len(rules) + 1] = Current(r)
          /\ \A i \in DOMAIN rules : rules'[i] = rules[i]
      BY <1>1, <1>5
    <3>2. Current(r) \in Range(rules')
      BY <3>1 DEF Range
    <3>3. Range(rules) \subseteq Range(rules')
      BY <3>1 DEF Range
    <3>4. rules' \in Seq(Rules \cup Range(Foreign))
      BY <1>1, <1>3, <1>5
    <3>5. ASSUME NEW i \in DOMAIN rules'
          PROVE  \/ \E k \in DOMAIN rules : i <= k /\ rules'[i] = rules[k]
                 \/ rules'[i] = Current(r)
      <4>1. i \in DOMAIN rules \/ i = Len(rules) + 1
        BY <3>1
      <4>2. i \in DOMAIN rules => i <= i
        BY <3>1
      <4>3. QED
        BY <3>1, <4>1, <4>2
    <3>6. QED
      BY <3>2, <3>3, <3>4, <3>5
  <2>2. RulesStep(r)
    BY <1>2, <1>3, <2>1 DEF RulesStep
  <2>3. PresentNext(r.snap[r.at])
    <3>1. Current(r).range = r.snap[r.at].range /\ Current(r).to = r.snap[r.at].port
      BY DEF Current, Redirect
    <3>2. \E rule \in Range(rules') : rule.range = r.snap[r.at].range
                                      /\ rule.to = r.snap[r.at].port
      BY <2>1, <3>1
    <3>3. QED
      BY <3>2 DEF PresentNext
  <2>4. \A u : Done(r, u)
    BY <1>2, <2>3 DEF Done
  <2>5. Turns(r, Onward(r))
    BY <1>1, <2>4, PassOn
  <2>6. run' = [q \in Procs |-> IF q = p THEN Onward(r) ELSE Crossed(run[q])]
    BY <1>5 DEF Crossing, Crossed
  <2>7. QED
    BY <2>2, <2>5, <2>6 DEF Turn, Marks
<1>6. CASE ~r.seen /\ Fails(p) /\ End(p) /\ UNCHANGED rules
  <2>1. RulesStep(r)
    BY <1>6, RulesKept
  <2>2. QED
    BY <1>6, <2>1, IdleIs DEF Turn, Turns, Marks, End, Becomes
<1>7. QED
  BY <1>4, <1>5, <1>6 DEF AddRule

\* Deleting the rule: it is gone, or the command failed.
LEMMA DeleteTurn ==
    ASSUME TypeInv, NEW p \in Procs, DeleteRule(p)
    PROVE  \E u : Turn(p, u)
<1> DEFINE r == run[p]
           K == {i \in DOMAIN rules : ~Recognised(Current(r), rules[i])}
           failing == [r EXCEPT !.failed = TRUE]
<1>1. r \in Task /\ Shaped(r) /\ r.pc = "delete"
      /\ rules \in Seq(Rules \cup Range(Foreign))
  BY RunIs DEF DeleteRule
<1>2. r.task = "remove" /\ r.at \in Visits(r.task, r.snap)
  BY <1>1 DEF Shaped
<1>3. Current(r) \in Rules /\ Current(r) = Redirect(r.snap[r.at])
  BY <1>1, <1>2, CurrentIs
<1>4. CASE /\ Works(p) /\ rules' = Kept(K)
           /\ IF rules' = rules THEN Becomes(p, Onward(r)) ELSE Crossing(p)
  <2>1. K \subseteq DOMAIN rules
    OBVIOUS
  <2>2. /\ rules' \in Seq(Rules \cup Range(Foreign))
        /\ \A i \in DOMAIN rules' :
              \E k \in K : i <= k /\ rules'[i] = rules[k]
    BY <1>1, <1>4, <2>1, KeptRules, Zenon
  <2>3. \A i \in DOMAIN rules' : rules'[i] # Current(r)
    <3>1. \A k \in K : rules[k] # Current(r)
      BY <1>3, OwnRule
    <3>2. QED
      BY <2>2, <3>1
  <2>4. Redirect(r.snap[r.at]) \notin Range(rules')
    BY <1>3, <2>3 DEF Range
  <2>5. \A u : Done(r, u)
    BY <1>2, <2>4 DEF Done
  <2>6. Turns(r, Onward(r))
    BY <1>1, <2>5, PassOn
  <2>7. RulesStep(r)
    <3>1. r.task \notin Applying
      BY <1>2 DEF Applying
    <3>2. \A i \in DOMAIN rules' :
             \E k \in DOMAIN rules : i <= k /\ rules'[i] = rules[k]
      BY <2>1, <2>2
    <3>3. QED
      BY <2>2, <3>1, <3>2 DEF RulesStep
  <2>8. Marks(p, Onward(r))
    BY <1>4 DEF Marks, Becomes, Crossing, Crossed
  <2>9. QED
    BY <2>6, <2>7, <2>8 DEF Turn
<1>5. CASE /\ Fails(p) /\ UNCHANGED rules /\ Becomes(p, Onward(failing))
  <2>1. /\ failing \in Task /\ failing.task = r.task /\ failing.snap = r.snap
        /\ failing.crossed = r.crossed /\ failing.failed /\ failing.at = r.at
    BY <1>1 DEF Task
  <2> HIDE DEF failing
  <2>2. \A u : u.failed = failing.failed => Done(r, u)
    BY <1>2, <2>1 DEF Done
  <2>3. Turns(r, Onward(failing))
    BY <1>1, <2>1, <2>2, PassOn
  <2>4. RulesStep(r)
    BY <1>5, RulesKept
  <2>5. QED
    BY <1>5, <2>3, <2>4 DEF Turn, Marks, Becomes
<1>6. QED
  BY <1>4, <1>5 DEF DeleteRule

\* A task at the unit, or one that is cancelled, stays where it is among the
\* nodes.
LEMMA StayPut ==
    ASSUME TypeInv, NEW p \in Procs, NEW u \in Task, Shaped(u),
           u.task = run[p].task, u.snap = run[p].snap,
           u.crossed = run[p].crossed, u.failed = run[p].failed,
           u.at = run[p].at, u.pc = "add" => run[p].pc = "add",
           u.seen = run[p].seen, rules' = rules, run' = [run EXCEPT ![p] = u]
    PROVE  Turn(p, u)
<1>1. RulesStep(run[p])
  BY RulesKept
<1>2. Passes(run[p], u)
  BY DEF Passes
<1>3. QED
  BY <1>1, <1>2 DEF Turn, Turns, Marks

\* The same for a task that ends.
LEMMA EndTurn ==
    ASSUME TypeInv, NEW p \in Procs, End(p), rules' = rules
    PROVE  \E u : Turn(p, u)
<1>1. RulesStep(run[p])
  BY RulesKept
<1>2. QED
  BY <1>1, IdleIs DEF Turn, Turns, Marks, End, Becomes

\* And for one that only moves to another label.
LEMMA GotoTurn ==
    ASSUME TypeInv, NEW p \in Procs, NEW label \in Labels, Goto(p, label),
           rules' = rules, label # "add",
           Shaped([run[p] EXCEPT !.pc = label])
    PROVE  \E u : Turn(p, u)
<1> DEFINE r == run[p]
           u == [r EXCEPT !.pc = label]
<1>1. r \in Task
  BY RunIs
<1>2. /\ u \in Task /\ u.task = r.task /\ u.snap = r.snap
      /\ u.crossed = r.crossed /\ u.failed = r.failed /\ u.at = r.at
      /\ u.pc = label /\ u.seen = r.seen
  BY <1>1 DEF Task
<1>3. run' = [run EXCEPT ![p] = u] /\ Shaped(u)
  BY DEF Goto, Becomes
<1> HIDE DEF u
<1>4. Turn(p, u)
  BY <1>2, <1>3, StayPut
<1>5. QED
  BY <1>4

\* A cancel marks the task, which sees it at its next step.
LEMMA CancelTurn ==
    ASSUME TypeInv, NEW p \in Procs, Cancel(p)
    PROVE  \E u : Turn(p, u)
<1> DEFINE r == run[p]
           u == [r EXCEPT !.cancelled = TRUE]
<1>1. r \in Task /\ Shaped(r) /\ run \in [Procs -> Task]
  BY RunIs
<1>2. /\ u \in Task /\ u.task = r.task /\ u.snap = r.snap
      /\ u.crossed = r.crossed /\ u.failed = r.failed /\ u.at = r.at
      /\ u.pc = r.pc /\ u.seen = r.seen
  BY <1>1 DEF Task
<1>3. run' = [run EXCEPT ![p] = u] /\ rules' = rules
  BY <1>1 DEF Cancel, host
<1> HIDE DEF u
<1>4. Shaped(u)
  BY <1>1, <1>2 DEF Shaped
<1>5. Turn(p, u)
  BY <1>2, <1>3, <1>4, StayPut
<1>6. QED
  BY <1>5

\* The steps on the boot unit leave the rules alone.
LEMMA UnitTurn ==
    ASSUME TypeInv, NEW p \in Procs,
           WriteUnit(p) \/ EnableUnit(p) \/ DisableUnit(p) \/ RemoveUnit(p)
    PROVE  \E u : Turn(p, u)
<1>1. run[p] \in Task /\ Shaped(run[p])
  BY RunIs
<1>2. rules' = rules
  BY DEF WriteUnit, EnableUnit, DisableUnit, RemoveUnit
<1>3. \/ End(p)
      \/ run[p].pc = "unit" /\ Goto(p, "enable")
      \/ run[p].pc = "disable" /\ Goto(p, "discard")
  BY DEF WriteUnit, EnableUnit, DisableUnit, RemoveUnit
<1>4. run[p].pc = "unit" => Shaped([run[p] EXCEPT !.pc = "enable"])
  BY <1>1 DEF Shaped, Task
<1>5. run[p].pc = "disable" => Shaped([run[p] EXCEPT !.pc = "discard"])
  BY <1>1 DEF Shaped, Task
<1>6. {"enable", "discard"} \subseteq Labels
  BY DEF Labels
<1>7. QED
  BY <1>2, <1>3, <1>4, <1>5, <1>6, EndTurn, GotoTurn

\* Every step of a task is a turn of it.
LEMMA StepTurn ==
    ASSUME TypeInv, NEW p \in Procs, Step(p)
    PROVE  \E u : Turn(p, u)
BY LookTurn, AddTurn, DeleteTurn, CancelTurn, UnitTurn DEF Step

-----------------------------------------------------------------------------
(***************************************************************************)
(* The types.                                                              *)
(***************************************************************************)

\* The tasks after a turn.
LEMMA MarkedTasks ==
    ASSUME TypeInv, NEW p \in Procs, NEW u, Turn(p, u)
    PROVE  /\ run' \in [Procs -> Task] /\ \A q \in Procs : Shaped(run'[q])
           /\ run'[p] = u
           /\ \A q \in Procs \ {p} :
                 \/ run'[q] = run[q] /\ rules' = rules
                 \/ run'[q] = Crossed(run[q])
<1>1. run \in [Procs -> Task] /\ \A q \in Procs : Shaped(run[q])
  BY RunIs
<1>2. \A q \in Procs : Crossed(run[q]) \in Task /\ Shaped(Crossed(run[q]))
  <2> SUFFICES ASSUME NEW r \in Task, Shaped(r)
               PROVE  Crossed(r) \in Task /\ Shaped(Crossed(r))
    BY <1>1
  <2>1. /\ Crossed(r) \in Task /\ Crossed(r).pc = r.pc
        /\ Crossed(r).task = r.task /\ Crossed(r).at = r.at
        /\ Crossed(r).snap = r.snap
    BY DEF Crossed, Task
  <2>2. QED
    BY <2>1 DEF Shaped
<1>3. u \in Task /\ Shaped(u)
  BY DEF Turn, Turns
<1>4. CASE run' = [run EXCEPT ![p] = u] /\ rules' = rules
  BY <1>1, <1>3, <1>4
<1>5. CASE run' = [q \in Procs |-> IF q = p THEN u ELSE Crossed(run[q])]
  BY <1>1, <1>2, <1>3, <1>5
<1>6. QED
  BY <1>4, <1>5 DEF Turn, Marks

\* What a step of a task leaves alone, and the types of what it does not.
LEMMA StepFrame ==
    ASSUME TypeInv, NEW p \in Procs, Step(p)
    PROVE  /\ UNCHANGED <<backend, nodes, deployed, left, swept, served>>
           /\ unit' \in [written : BOOLEAN, enabled : BOOLEAN]
           /\ edits' \in Nat /\ tasks' \in Nat /\ faults' \in Nat
           /\ reboots' \in Nat
<1>1. /\ unit \in [written : BOOLEAN, enabled : BOOLEAN]
      /\ edits \in Nat /\ tasks \in Nat /\ faults \in Nat /\ reboots \in Nat
  BY DEF TypeInv, TypeOK
<1>2. CASE Cancel(p)
  BY <1>1, <1>2 DEF Cancel, host, history
<1>3. CASE Look(p) \/ AddRule(p) \/ DeleteRule(p)
  BY <1>1, <1>3 DEF Look, AddRule, DeleteRule, still, history, Works, Fails
<1>4. CASE WriteUnit(p)
  <2>1. unit' \in [written : BOOLEAN, enabled : BOOLEAN]
    BY <1>1, <1>4 DEF WriteUnit
  <2>2. QED
    BY <1>1, <1>4, <2>1 DEF WriteUnit, still, history
<1>5. CASE EnableUnit(p)
  BY <1>1, <1>5 DEF EnableUnit, still, history, Works, Fails
<1>6. CASE DisableUnit(p)
  <2>1. unit' \in [written : BOOLEAN, enabled : BOOLEAN]
    BY <1>1, <1>6 DEF DisableUnit
  <2>2. QED
    BY <1>1, <1>6, <2>1 DEF DisableUnit, still, history, Works, Fails
<1>7. CASE RemoveUnit(p)
  <2>1. unit' \in [written : BOOLEAN, enabled : BOOLEAN]
    BY <1>1, <1>7 DEF RemoveUnit
  <2>2. QED
    BY <1>1, <1>7, <2>1 DEF RemoveUnit, still, history
<1>8. QED
  BY <1>2, <1>3, <1>4, <1>5, <1>6, <1>7 DEF Step

\* The rules of the operator, as types.
LEMMA ForeignIs == Foreign \in Seq(Rules \cup Range(Foreign))
<1>1. Foreign \in Seq([range : (0..LastPort) \X (0..LastPort), to : 1..LastPort])
  BY ForeignAssumption
<1>2. Len(Foreign) \in Nat /\ DOMAIN Foreign = 1..Len(Foreign)
  BY <1>1
<1>3. \A i \in 1..Len(Foreign) : Foreign[i] \in Rules \cup Range(Foreign)
  BY <1>2 DEF Range
<1>4. QED
  BY <1>1, <1>2, <1>3, SeqDef

\* The initial state.
LEMMA TypeInit == Init => TypeInv
<1> SUFFICES ASSUME Init
             PROVE  TypeInv
  OBVIOUS
<1>1. run \in [Procs -> Task] /\ \A p \in Procs : Shaped(run[p])
  BY IdleIs DEF Init
<1>2. backend \in Backends /\ nodes \in [Slots -> Node \cup {None}]
  BY DEF Init
<1>3. rules \in Seq(Rules \cup Range(Foreign)) /\ left \subseteq Rules
  BY ForeignIs DEF Init
<1>4. {deployed, swept, served} \subseteq BOOLEAN
  BY DEF Init
<1>5. unit \in [written : BOOLEAN, enabled : BOOLEAN]
  BY DEF Init
<1>6. {edits, tasks, faults, reboots} \subseteq Nat
  BY DEF Init
<1>7. QED
  BY <1>1, <1>2, <1>3, <1>4, <1>5, <1>6 DEF TypeInv, TypeOK

\* A node that is edited is a node, and what its redirect was is a rule.
LEMMA EditTypes ==
    ASSUME TypeInv, EditNodes
    PROVE  nodes' \in [Slots -> Node \cup {None}] /\ left' \subseteq Rules
<1>1. nodes \in [Slots -> Node \cup {None}] /\ left \subseteq Rules
  BY DEF TypeInv, TypeOK
<1>2. PICK s \in Slots : \E n \in Edits(nodes[s]) \ {nodes[s]} :
         /\ nodes' = [nodes EXCEPT ![s] = n]
         /\ left' = IF nodes[s].hop THEN left \cup {Redirect(nodes[s])} ELSE left
  BY Zenon DEF EditNodes
<1>3. PICK n \in Edits(nodes[s]) \ {nodes[s]} :
         /\ nodes' = [nodes EXCEPT ![s] = n]
         /\ left' = IF nodes[s].hop THEN left \cup {Redirect(nodes[s])} ELSE left
  BY <1>2, Zenon
<1>4. n \in Node \cup {None}
  BY DEF Edits
<1>5. nodes[s].hop => Redirect(nodes[s]) \in Rules
  BY <1>1, RedirectType
<1>6. QED
  BY <1>1, <1>3, <1>4, <1>5

\* Who starts is idle before, and starts with the nodes of the file.
LEMMA StartIs ==
    ASSUME TypeInv, NEW p \in Panels, StartTask(p)
    PROVE  /\ run[p].pc = "idle"
           /\ UNCHANGED <<backend, nodes, rules, unit, left, edits, faults, reboots>>
           /\ tasks' \in Nat /\ {deployed', swept', served'} \subseteq BOOLEAN
           /\ \/ run' = run
              \/ \E t \in {"apply", "deploy", "remove"} :
                    run' = [run EXCEPT ![p] = Starting(t)]
<1>1. tasks \in Nat /\ {deployed, swept, served} \subseteq BOOLEAN
  BY DEF TypeInv, TypeOK
<1>2. \/ run' = run
      \/ \E t \in {"apply", "deploy", "remove"} :
            run' = [run EXCEPT ![p] = Starting(t)]
  BY DEF StartTask, StartApply, StartRemove, Deploy, Begin
<1>3. {deployed', swept', served'} \subseteq BOOLEAN
  BY <1>1 DEF StartTask, StartApply, StartRemove, Deploy
<1>4. QED
  BY <1>1, <1>2, <1>3 DEF StartTask

\* A reboot leaves the rules of the operator and, where the unit is enabled,
\* the task of the boot.
LEMMA RebootIs ==
    ASSUME TypeInv, Reboot
    PROVE  /\ UNCHANGED <<backend, nodes, deployed, served, unit, swept,
                          edits, tasks, faults>>
           /\ rules' = Foreign /\ left' = {} /\ reboots' \in Nat
           /\ run' \in [Procs -> {Idle, Starting("boot")}]
BY DEF Reboot, TypeInv, TypeOK

\* Every step keeps the types.
LEMMA TypeStep == TypeInv /\ [Next]_vars => TypeInv'
<1> SUFFICES ASSUME TypeInv, [Next]_vars
             PROVE  TypeInv'
  OBVIOUS
<1>0. /\ TypeOK /\ \A p \in Procs : run[p] \in Task /\ Shaped(run[p])
  BY RunIs DEF TypeInv
<1>1. CASE EditNodes
  <2>1. nodes' \in [Slots -> Node \cup {None}] /\ left' \subseteq Rules
    BY <1>1, EditTypes
  <2>2. /\ UNCHANGED <<backend, deployed, rules, unit, run, swept,
                       tasks, faults, reboots>>
        /\ served' = FALSE /\ edits' = edits + 1
    BY <1>1 DEF EditNodes
  <2>3. edits' \in Nat
    BY <1>0, <2>2 DEF TypeOK
  <2>4. TypeOK'
    BY <1>0, <2>1, <2>2, <2>3 DEF TypeOK
  <2>5. QED
    BY <1>0, <2>2, <2>4 DEF TypeInv, Shaped
<1>2. CASE Reboot
  <2>1. /\ UNCHANGED <<backend, nodes, deployed, served, unit, swept,
                       edits, tasks, faults>>
        /\ rules' = Foreign /\ left' = {} /\ reboots' \in Nat
        /\ run' \in [Procs -> {Idle, Starting("boot")}]
    BY <1>2, RebootIs
  <2>2. Starting("boot") \in Task /\ Shaped(Starting("boot"))
    BY <1>0, StartingIs DEF Applying
  <2>3. \A p \in Procs : run'[p] \in Task /\ Shaped(run'[p])
    BY <2>1, <2>2, IdleIs
  <2>4. run' \in [Procs -> Task]
    BY <2>1, <2>3
  <2>5. TypeOK'
    BY <1>0, <2>1, <2>4, ForeignIs DEF TypeOK
  <2>6. QED
    BY <2>3, <2>5 DEF TypeInv, Shaped
<1>3. ASSUME NEW p \in Panels, StartTask(p)
      PROVE  TypeInv'
  <2>1. /\ UNCHANGED <<backend, nodes, rules, unit, left, edits, faults, reboots>>
        /\ tasks' \in Nat /\ {deployed', swept', served'} \subseteq BOOLEAN
        /\ \/ run' = run
           \/ \E t \in {"apply", "deploy", "remove"} :
                 run' = [run EXCEPT ![p] = Starting(t)]
    BY <1>3, StartIs
  <2>2. \A t \in {"apply", "deploy", "remove"} :
           Starting(t) \in Task /\ Shaped(Starting(t))
    BY <1>0, StartingIs DEF Applying
  <2>3. p \in Procs /\ run \in [Procs -> Task]
    BY <1>0 DEF Procs, TypeOK
  <2>4. run' \in [Procs -> Task] /\ \A q \in Procs : Shaped(run'[q])
    BY <1>0, <2>1, <2>2, <2>3
  <2>5. TypeOK'
    BY <1>0, <2>1, <2>4 DEF TypeOK
  <2>6. QED
    BY <2>4, <2>5 DEF TypeInv, Shaped
<1>4. ASSUME NEW p \in Procs, Step(p)
      PROVE  TypeInv'
  <2>1. PICK u : Turn(p, u)
    BY <1>4, StepTurn
  <2>2. run' \in [Procs -> Task] /\ \A q \in Procs : Shaped(run'[q])
    BY <2>1, MarkedTasks
  <2>3. rules' \in Seq(Rules \cup Range(Foreign))
    BY <2>1 DEF Turn, RulesStep
  <2>4. /\ UNCHANGED <<backend, nodes, deployed, left, swept, served>>
        /\ unit' \in [written : BOOLEAN, enabled : BOOLEAN]
        /\ edits' \in Nat /\ tasks' \in Nat /\ faults' \in Nat
        /\ reboots' \in Nat
    BY <1>4, StepFrame
  <2>5. TypeOK'
    BY <1>0, <2>2, <2>3, <2>4 DEF TypeOK
  <2>6. QED
    BY <2>2, <2>5 DEF TypeInv, Shaped
<1>5. CASE UNCHANGED vars
  BY <1>0, <1>5 DEF TypeInv, TypeOK, vars, host, history, bounds, Shaped
<1>6. QED
  BY <1>1, <1>2, <1>3, <1>4, <1>5 DEF Next

\* The variables hold what they are declared to hold, whatever tasks run at
\* the same time, are cancelled, fail or are cut short by a reboot.
THEOREM TypeCorrect == Spec => []TypeOK
<1>1. TypeInv => TypeOK
  BY DEF TypeInv
<1>2. QED
  BY <1>1, TypeInit, TypeStep, PTL DEF Spec

-----------------------------------------------------------------------------
(***************************************************************************)
(* What a task has set or cleared so far.                                  *)
(***************************************************************************)

\* A task that sets rules has one for every node behind it, and where it saw
\* the rule of the node it is at, for that one too.
Sets(r) ==
    (r.task \in Applying /\ backend # "none" /\ ~r.crossed) =>
        /\ \A s \in Behind(r) : Present(r.snap[s])
        /\ r.pc = "add" /\ r.seen => Present(r.snap[r.at])

\* A task that clears rules has left none of the nodes behind it.
Clears(r) ==
    (r.task = "remove" /\ backend # "none" /\ ~r.crossed /\ ~r.failed) =>
        \A s \in Behind(r) : Redirect(r.snap[s]) \notin Range(rules)

TasksInv == TypeInv /\ \A p \in Procs : Sets(run[p]) /\ Clears(run[p])

\* A task that does nothing owes nothing.
LEMMA IdleOwesNothing ==
    ASSUME NEW r, r.task = "none"
    PROVE  Sets(r) /\ Clears(r)
BY DEF Sets, Clears, Applying

\* Nor does one that just started.
LEMMA StartOwesNothing ==
    ASSUME TypeInv, NEW t \in Applying \cup {"remove"}
    PROVE  /\ ~Starting(t).seen
           /\ backend # "none" => Behind(Starting(t)) = {}
<1>1. Starting(t) = Idle \/ Begun(t, Starting(t))
  BY StartingIs DEF TypeInv
<1>2. CASE Starting(t) = Idle
  <2>1. Idle.snap = NoNodes /\ ~Idle.seen /\ Idle.at = 0
    BY DEF Idle
  <2>2. \A s \in Visits(Idle.task, NoNodes) : FALSE
    BY DEF Visits, Hopping, NoNodes, None
  <2>3. QED
    BY <1>2, <2>1, <2>2 DEF Behind
<1>3. CASE Begun(t, Starting(t))
  BY <1>3 DEF Begun, Behind
<1>4. QED
  BY <1>1, <1>2, <1>3

\* What is present stays where rules are only added.
LEMMA PresentStays ==
    ASSUME NEW n, Present(n), Range(rules) \subseteq Range(rules')
    PROVE  PresentNext(n)
BY DEF Present, PresentNext

\* The task whose turn it is keeps what it has set.
LEMMA TurnSets ==
    ASSUME TypeInv, NEW p \in Procs, NEW u, Turn(p, u), Sets(run[p]),
           u.task \in Applying, backend # "none", ~u.crossed
    PROVE  /\ \A s \in Behind(u) : PresentNext(u.snap[s])
           /\ u.pc = "add" /\ u.seen => PresentNext(u.snap[u.at])
<1> DEFINE r == run[p]
<1>1. Passes(r, u)
  BY IdleIs DEF Turn, Turns, Applying
<1>2. u.task = r.task /\ u.snap = r.snap /\ r.task \in Applying /\ ~r.crossed
  BY <1>1 DEF Passes
<1>3. /\ \A s \in Behind(r) : Present(r.snap[s])
      /\ r.pc = "add" /\ r.seen => Present(r.snap[r.at])
  BY <1>2 DEF Sets
<1>4. Range(rules) \subseteq Range(rules')
  BY <1>2 DEF Turn, RulesStep
<1>5. ASSUME NEW s \in Behind(u)
      PROVE  PresentNext(u.snap[s])
  <2>1. s \in Visits(r.task, r.snap) /\ s < u.at
    BY <1>2 DEF Behind
  <2>2. s < r.at \/ (s = r.at /\ Done(r, u))
    BY <1>1, <2>1 DEF Passes
  <2>3. CASE s < r.at
    BY <1>2, <1>3, <1>4, <2>1, <2>3, PresentStays DEF Behind
  <2>4. CASE s = r.at /\ Done(r, u)
    <3>1. r.task # "remove"
      BY <1>2 DEF Applying
    <3>2. Present(r.snap[s]) \/ PresentNext(r.snap[s])
      BY <1>3, <2>4, <3>1 DEF Done
    <3>3. QED
      BY <1>2, <1>4, <3>2, PresentStays
  <2>5. QED
    BY <2>2, <2>3, <2>4
<1>6. u.pc = "add" /\ u.seen => PresentNext(u.snap[u.at])
  BY <1>1, <1>2, <1>3, <1>4, PresentStays DEF Passes
<1>7. QED
  BY <1>5, <1>6

\* And what it has cleared.
LEMMA TurnClears ==
    ASSUME TypeInv, NEW p \in Procs, NEW u, Turn(p, u), Clears(run[p]),
           u.task = "remove", backend # "none", ~u.crossed, ~u.failed,
           Range(rules') \subseteq Range(rules)
    PROVE  \A s \in Behind(u) : Redirect(u.snap[s]) \notin Range(rules')
<1> DEFINE r == run[p]
<1>1. Passes(r, u)
  BY IdleIs DEF Turn, Turns
<1>2. /\ u.task = r.task /\ u.snap = r.snap /\ r.task = "remove"
      /\ ~r.crossed /\ ~r.failed
  BY <1>1 DEF Passes
<1>3. \A s \in Behind(r) : Redirect(r.snap[s]) \notin Range(rules)
  BY <1>2 DEF Clears
<1>4. r.pc # "add"
  BY <1>2, RunIs DEF Shaped, Applying
<1>5. ASSUME NEW s \in Behind(u)
      PROVE  Redirect(u.snap[s]) \notin Range(rules')
  <2>1. s \in Visits(r.task, r.snap) /\ s < u.at
    BY <1>2 DEF Behind
  <2>2. s < r.at \/ (s = r.at /\ Done(r, u))
    BY <1>1, <2>1 DEF Passes
  <2>3. CASE s < r.at
    BY <1>2, <1>3, <2>1, <2>3 DEF Behind
  <2>4. CASE s = r.at /\ Done(r, u)
    BY <1>2, <1>4, <2>4 DEF Done, Applying
  <2>5. QED
    BY <2>2, <2>3, <2>4
<1>6. QED
  BY <1>5

\* A task that clears rules adds none.
LEMMA ClearingShrinks ==
    ASSUME NEW r, RulesStep(r), r.task = "remove"
    PROVE  Range(rules') \subseteq Range(rules)
BY DEF RulesStep, Applying, Range

\* What the others owe after a turn: what they owed, or nothing any more.
LEMMA OthersKeep ==
    ASSUME TypeInv, NEW p \in Procs, NEW u, Turn(p, u),
           NEW q \in Procs, q # p, Sets(run[q]), Clears(run[q]),
           backend' = backend
    PROVE  (Sets(run[q]) /\ Clears(run[q]))'
<1>1. (run'[q] = run[q] /\ rules' = rules) \/ run'[q] = Crossed(run[q])
  BY MarkedTasks
<1>2. CASE run'[q] = run[q] /\ rules' = rules
  BY <1>2 DEF Sets, Clears, Behind, Present
<1>3. CASE run'[q] = Crossed(run[q])
  <2>1. /\ Crossed(run[q]).crossed \/ run[q].pc = "idle"
        /\ Crossed(run[q]).task = run[q].task
    BY RunIs DEF Crossed, Task
  <2>2. run[q].pc = "idle" => run[q].task = "none"
    BY RunIs DEF Shaped
  <2>3. run'[q].crossed \/ run'[q].task = "none"
    BY <1>3, <2>1, <2>2
  <2>4. QED
    BY <2>3 DEF Sets, Clears, Applying
<1>4. QED
  BY <1>1, <1>2, <1>3

\* What the task itself owes after its turn.
LEMMA OwnKeeps ==
    ASSUME TypeInv, NEW p \in Procs, NEW u, Turn(p, u),
           Sets(run[p]), Clears(run[p]), backend' = backend
    PROVE  (Sets(run[p]) /\ Clears(run[p]))'
<1>1. run'[p] = u
  BY MarkedTasks
<1>2. (u.task \in Applying /\ backend # "none" /\ ~u.crossed) =>
        /\ \A s \in Behind(u) : PresentNext(u.snap[s])
        /\ u.pc = "add" /\ u.seen => PresentNext(u.snap[u.at])
  BY TurnSets
<1>3. u.task = "remove" => Range(rules') \subseteq Range(rules)
  <2>1. u.task = "remove" => run[p].task = "remove"
    BY IdleIs DEF Turn, Turns, Passes
  <2>2. QED
    BY <2>1, ClearingShrinks DEF Turn
<1>4. (u.task = "remove" /\ backend # "none" /\ ~u.crossed /\ ~u.failed) =>
        \A s \in Behind(u) : Redirect(u.snap[s]) \notin Range(rules')
  BY <1>3, TurnClears
<1>5. Sets(run[p])'
  BY <1>1, <1>2 DEF Sets, Present, PresentNext, Behind
<1>6. Clears(run[p])'
  BY <1>1, <1>4 DEF Clears, Behind
<1>7. QED
  BY <1>5, <1>6

\* What is owed by a task at rest, or one that has just started, after a step
\* that gives p that task.
LEMMA FreshOwes ==
    ASSUME TypeInv, NEW p \in Procs, backend' = backend,
           run'[p] = Idle \/
             \E t \in Applying \cup {"remove"} : run'[p] = Starting(t)
    PROVE  (Sets(run[p]) /\ Clears(run[p]))'
<1>1. CASE run'[p] = Idle
  <2>1. run'[p].task = "none"
    BY <1>1, IdleIs
  <2>2. QED
    BY <2>1 DEF Sets, Clears, Applying
<1>2. ASSUME NEW t \in Applying \cup {"remove"}, run'[p] = Starting(t)
      PROVE  (Sets(run[p]) /\ Clears(run[p]))'
  <2>1. ~run'[p].seen /\ (backend # "none" => Behind(run'[p]) = {})
    BY <1>2, StartOwesNothing
  <2>2. QED
    BY <2>1 DEF Sets, Clears, Behind
<1>3. QED
  BY <1>1, <1>2

\* What a task owes depends on itself, the backend and the rules.
LEMMA OwesSame ==
    ASSUME NEW p \in Procs, Sets(run[p]), Clears(run[p]), backend' = backend,
           rules' = rules, run'[p] = run[p]
    PROVE  (Sets(run[p]) /\ Clears(run[p]))'
BY DEF Sets, Clears, Behind, Present

\* Every step keeps what the tasks owe.
LEMMA TasksStep == TasksInv /\ [Next]_vars => TasksInv'
<1> SUFFICES ASSUME TasksInv, [Next]_vars
             PROVE  TasksInv'
  OBVIOUS
<1>0. /\ TypeInv /\ TypeInv' /\ \A p \in Procs : Sets(run[p]) /\ Clears(run[p])
      /\ run \in [Procs -> Task]
  BY TypeStep DEF TasksInv, TypeInv, TypeOK
<1> SUFFICES ASSUME NEW q \in Procs
             PROVE  (Sets(run[q]) /\ Clears(run[q]))'
  BY <1>0 DEF TasksInv
<1>1. CASE EditNodes
  BY <1>0, <1>1, OwesSame DEF EditNodes
<1>2. CASE Reboot
  <2>1. backend' = backend /\ run'[q] \in {Idle, Starting("boot")}
    BY <1>0, <1>2, RebootIs
  <2>2. QED
    BY <1>0, <2>1, FreshOwes DEF Applying
<1>3. ASSUME NEW p \in Panels, StartTask(p)
      PROVE  (Sets(run[q]) /\ Clears(run[q]))'
  <2>1. /\ backend' = backend /\ rules' = rules
        /\ \/ run' = run
           \/ \E t \in {"apply", "deploy", "remove"} :
                 run' = [run EXCEPT ![p] = Starting(t)]
    BY <1>0, <1>3, StartIs
  <2>2. run'[q] = run[q] \/ \E t \in Applying \cup {"remove"} :
                               run'[q] = Starting(t)
    BY <1>0, <2>1 DEF Applying
  <2>3. QED
    BY <1>0, <2>1, <2>2, OwesSame, FreshOwes
<1>4. ASSUME NEW p \in Procs, Step(p)
      PROVE  (Sets(run[q]) /\ Clears(run[q]))'
  <2>1. PICK u : Turn(p, u)
    BY <1>0, <1>4, StepTurn
  <2>2. backend' = backend
    BY <1>0, <1>4, StepFrame
  <2>3. CASE q = p
    BY <1>0, <2>1, <2>2, <2>3, OwnKeeps
  <2>4. CASE q # p
    BY <1>0, <2>1, <2>2, <2>4, OthersKeep
  <2>5. QED
    BY <2>3, <2>4
<1>5. CASE UNCHANGED vars
  BY <1>0, <1>5, OwesSame DEF vars, host
<1>6. QED
  BY <1>1, <1>2, <1>3, <1>4, <1>5 DEF Next

\* Nobody owes anything at first.
LEMMA TasksInit == Init => TasksInv
<1> SUFFICES ASSUME Init
             PROVE  TasksInv
  OBVIOUS
<1>1. \A p \in Procs : run[p].task = "none"
  BY IdleIs DEF Init
<1>2. QED
  BY <1>1, TypeInit, IdleOwesNothing DEF TasksInv

\* So it holds in every run.
LEMMA TasksAlways == Spec => []TasksInv
BY TasksInit, TasksStep, PTL DEF Spec

\* A task that sets rules leaves a redirect to every node it has dealt with,
\* unless another task changes the rules meanwhile.
THEOREM AppliedRules == Spec => []AppliedIsPresent
<1>1. TasksInv => AppliedIsPresent
  <2> SUFFICES ASSUME TasksInv, NEW p \in Procs,
                      run[p].task \notin {"none", "remove"},
                      backend # "none", ~run[p].crossed
               PROVE  \A s \in Behind(run[p]) : Present(run[p].snap[s])
    BY DEF AppliedIsPresent, Present
  <2>1. run[p] \in Task /\ Sets(run[p])
    BY RunIs DEF TasksInv
  <2>2. run[p].task \in Applying
    BY <2>1 DEF Task, Applying
  <2>3. QED
    BY <2>1, <2>2 DEF Sets
<1>2. QED
  BY <1>1, TasksAlways, PTL

\* A task that clears rules leaves the redirect of no node it has dealt with,
\* switched on or off, unless a command failed or another task changes the
\* rules meanwhile.
THEOREM RemovedRules == Spec => []RemovedIsGone
<1>1. TasksInv => RemovedIsGone
  <2> SUFFICES ASSUME TasksInv, NEW p \in Procs, run[p].task = "remove",
                      backend # "none", ~run[p].crossed, ~run[p].failed,
                      NEW s \in Hopping(run[p].snap), s < run[p].at
               PROVE  Redirect(run[p].snap[s]) \notin Range(rules)
    BY DEF RemovedIsGone
  <2>1. s \in Behind(run[p])
    BY DEF Behind, Visits
  <2>2. QED
    BY <2>1 DEF TasksInv, Clears
<1>2. QED
  BY <1>1, TasksAlways, PTL

-----------------------------------------------------------------------------
(***************************************************************************)
(* Where the rules come from.                                              *)
(***************************************************************************)

\* The redirects of the nodes that are switched on, and those of nodes that
\* were edited since.
Active == {Redirect(nodes[s]) : s \in Visits("apply", nodes)}
Owned == left \cup Active

\* Every rule is the operator's, in its place, or has an owner; and so will
\* have what the tasks under way are about to add.
RulesKnown ==
    \A i \in DOMAIN rules : i \in DOMAIN Foreign \/ rules[i] \in Owned
Plans(r) ==
    r.task \in Applying =>
        \A s \in Visits(r.task, r.snap) : Redirect(r.snap[s]) \in Owned

OriginInv == TypeInv /\ RulesKnown /\ \A p \in Procs : Plans(run[p])

\* Applying visits the same nodes whoever starts it.
LEMMA SameVisits ==
    ASSUME NEW t \in Applying, NEW ns
    PROVE  Visits(t, ns) = Visits("apply", ns)
BY DEF Visits, Applying

\* Owners stay owners when a node is edited.
LEMMA EditOwned ==
    ASSUME TypeInv, EditNodes
    PROVE  Owned \subseteq Owned'
<1>1. nodes \in [Slots -> Node \cup {None}]
  BY DEF TypeInv, TypeOK
<1>2. PICK s \in Slots : \E n \in Edits(nodes[s]) \ {nodes[s]} :
         /\ nodes' = [nodes EXCEPT ![s] = n]
         /\ left' = IF nodes[s].hop THEN left \cup {Redirect(nodes[s])} ELSE left
  BY Zenon DEF EditNodes
<1>3. left \subseteq left' /\ (nodes[s].hop => Redirect(nodes[s]) \in left')
      /\ \A t \in Slots \ {s} : nodes'[t] = nodes[t]
  BY <1>1, <1>2
<1>4. ASSUME NEW t \in Visits("apply", nodes)
      PROVE  Redirect(nodes[t]) \in Owned'
  <2>1. t \in Slots /\ nodes[t].hop /\ nodes[t].enabled
    BY DEF Visits, Hopping, EnabledNodes
  <2>2. CASE t = s
    BY <1>3, <2>1, <2>2 DEF Owned
  <2>3. CASE t # s
    <3>1. nodes'[t] = nodes[t]
      BY <1>3, <2>1, <2>3
    <3>2. t \in Visits("apply", nodes')
      BY <2>1, <3>1 DEF Visits, Hopping, EnabledNodes
    <3>3. Redirect(nodes'[t]) \in Active'
      BY <3>2 DEF Active
    <3>4. QED
      BY <3>1, <3>3 DEF Owned
  <2>4. QED
    BY <2>2, <2>3
<1>5. QED
  BY <1>3, <1>4 DEF Owned, Active

\* What is started plans for the nodes of the file.
LEMMA StartPlans ==
    ASSUME TypeInv, NEW t \in Applying \cup {"remove"}
    PROVE  Plans(Starting(t))
<1>1. Starting(t) = Idle \/ Begun(t, Starting(t))
  BY StartingIs DEF TypeInv
<1>2. CASE Starting(t) = Idle
  BY <1>2, IdleIs DEF Plans, Applying
<1>3. CASE Begun(t, Starting(t))
  <2>1. Starting(t).task = t /\ Starting(t).snap = nodes
    BY <1>3 DEF Begun
  <2>2. QED
    BY <2>1, SameVisits DEF Plans, Owned, Active
<1>4. QED
  BY <1>1, <1>2, <1>3

\* A task at work plans for what it planned for; so do those it crosses.
LEMMA TurnPlans ==
    ASSUME TypeInv, NEW p \in Procs, NEW u, Turn(p, u), NEW q \in Procs,
           Plans(run[q])
    PROVE  Plans(run'[q])
<1>1. CASE q = p
  <2>1. run'[q] = u
    BY <1>1, MarkedTasks
  <2>2. u = Idle \/ (u.task = run[p].task /\ u.snap = run[p].snap)
    BY DEF Turn, Turns, Passes
  <2>3. QED
    BY <1>1, <2>1, <2>2, IdleIs DEF Plans, Applying
<1>2. CASE q # p
  <2>1. run'[q] = run[q] \/ run'[q] = Crossed(run[q])
    BY <1>2, MarkedTasks
  <2>2. run'[q].task = run[q].task /\ run'[q].snap = run[q].snap
    BY <2>1, RunIs DEF Crossed, Task
  <2>3. QED
    BY <2>2 DEF Plans
<1>3. QED
  BY <1>1, <1>2

\* The rules after a turn have owners again.
LEMMA TurnKnown ==
    ASSUME TypeInv, RulesKnown, NEW p \in Procs, RulesStep(run[p]), Plans(run[p])
    PROVE  \A i \in DOMAIN rules' : i \in DOMAIN Foreign \/ rules'[i] \in Owned
<1> SUFFICES ASSUME NEW i \in DOMAIN rules'
             PROVE  i \in DOMAIN Foreign \/ rules'[i] \in Owned
  OBVIOUS
<1>1. /\ rules' \in Seq(Rules \cup Range(Foreign))
      /\ rules \in Seq(Rules \cup Range(Foreign))
      /\ Foreign \in Seq(Rules \cup Range(Foreign))
  BY ForeignIs, RunIs DEF RulesStep
<1>2. CASE \E k \in DOMAIN rules : i <= k /\ rules'[i] = rules[k]
  <2>1. PICK k \in DOMAIN rules : i <= k /\ rules'[i] = rules[k]
    BY <1>2
  <2>2. CASE k \in DOMAIN Foreign
    <3>1. /\ Len(Foreign) \in Nat /\ DOMAIN Foreign = 1..Len(Foreign)
          /\ Len(rules') \in Nat /\ DOMAIN rules' = 1..Len(rules')
      BY <1>1
    <3>2. i \in DOMAIN Foreign
      BY <2>1, <2>2, <3>1
    <3>3. QED
      BY <3>2
  <2>3. CASE rules[k] \in Owned
    BY <2>1, <2>3
  <2>4. QED
    BY <2>1, <2>2, <2>3 DEF RulesKnown
<1>3. CASE /\ run[p].task \in Applying
           /\ run[p].at \in Visits(run[p].task, run[p].snap)
           /\ rules'[i] = Redirect(run[p].snap[run[p].at])
  BY <1>3 DEF Plans
<1>4. QED
  BY <1>2, <1>3 DEF RulesStep

\* What is known depends on the owners, which a step of a task leaves alone.
LEMMA OwnedSame ==
    ASSUME nodes' = nodes, left' = left
    PROVE  Owned' = Owned
BY DEF Owned, Active

\* Every step keeps the origins of the rules.
LEMMA OriginStep == OriginInv /\ [Next]_vars => OriginInv'
<1> SUFFICES ASSUME OriginInv, [Next]_vars
             PROVE  OriginInv'
  OBVIOUS
<1>0. /\ TypeInv /\ TypeInv' /\ RulesKnown /\ \A p \in Procs : Plans(run[p])
      /\ run \in [Procs -> Task]
  BY TypeStep DEF OriginInv, TypeInv, TypeOK
<1>1. CASE EditNodes
  <2>1. Owned \subseteq Owned' /\ rules' = rules /\ run' = run
    BY <1>0, <1>1, EditOwned DEF EditNodes
  <2>2. RulesKnown'
    BY <1>0, <2>1 DEF RulesKnown
  <2>3. \A p \in Procs : Plans(run[p])'
    BY <1>0, <2>1 DEF Plans
  <2>4. QED
    BY <1>0, <2>2, <2>3 DEF OriginInv
<1>2. CASE Reboot
  <2>1. /\ rules' = Foreign /\ left' = {} /\ nodes' = nodes
        /\ run' \in [Procs -> {Idle, Starting("boot")}]
    BY <1>0, <1>2, RebootIs
  <2>2. RulesKnown'
    BY <2>1 DEF RulesKnown
  <2>3. ASSUME NEW p \in Procs
        PROVE  Plans(run[p])'
    <3>1. CASE run'[p] = Idle
      BY <3>1, IdleIs DEF Plans, Applying
    <3>2. CASE run'[p] = Starting("boot")
      <4>1. Starting("boot") = Idle \/ Begun("boot", Starting("boot"))
        BY <1>0, StartingIs DEF TypeInv, Applying
      <4>2. CASE Starting("boot") = Idle
        BY <3>2, <4>2, IdleIs DEF Plans, Applying
      <4>3. CASE Begun("boot", Starting("boot"))
        <5>1. run'[p].task = "boot" /\ run'[p].snap = nodes'
          BY <2>1, <3>2, <4>3 DEF Begun
        <5>2. \A s \in Visits("boot", nodes') : Redirect(nodes'[s]) \in Owned'
          BY SameVisits DEF Owned, Active, Applying
        <5>3. QED
          BY <5>1, <5>2 DEF Plans
      <4>4. QED
        BY <4>1, <4>2, <4>3
    <3>3. QED
      BY <2>1, <3>1, <3>2
  <2>4. QED
    BY <1>0, <2>2, <2>3 DEF OriginInv
<1>3. ASSUME NEW p \in Panels, StartTask(p)
      PROVE  OriginInv'
  <2>1. /\ nodes' = nodes /\ left' = left /\ rules' = rules
        /\ \/ run' = run
           \/ \E t \in {"apply", "deploy", "remove"} :
                 run' = [run EXCEPT ![p] = Starting(t)]
    BY <1>0, <1>3, StartIs
  <2>2. \A t \in {"apply", "deploy", "remove"} : Plans(Starting(t))
    BY <1>0, StartPlans DEF Applying
  <2>3. \A q \in Procs : Plans(run'[q])
    BY <1>0, <2>1, <2>2
  <2>4. Owned' = Owned
    BY <2>1, OwnedSame
  <2>5. RulesKnown'
    BY <1>0, <2>1, <2>4 DEF RulesKnown
  <2>6. \A q \in Procs : Plans(run[q])'
    BY <2>3, <2>4 DEF Plans
  <2>7. QED
    BY <1>0, <2>5, <2>6 DEF OriginInv
<1>4. ASSUME NEW p \in Procs, Step(p)
      PROVE  OriginInv'
  <2>1. PICK u : Turn(p, u)
    BY <1>0, <1>4, StepTurn
  <2>2. Owned' = Owned
    BY <1>0, <1>4, StepFrame, OwnedSame
  <2>3. \A q \in Procs : Plans(run'[q])
    BY <1>0, <2>1, TurnPlans
  <2>4. RulesKnown'
    <3>1. RulesStep(run[p])
      BY <2>1 DEF Turn
    <3>2. \A i \in DOMAIN rules' : i \in DOMAIN Foreign \/ rules'[i] \in Owned
      BY <1>0, <3>1, TurnKnown
    <3>3. QED
      BY <2>2, <3>2 DEF RulesKnown
  <2>5. \A q \in Procs : Plans(run[q])'
    BY <2>2, <2>3 DEF Plans
  <2>6. QED
    BY <1>0, <2>4, <2>5 DEF OriginInv
<1>5. CASE UNCHANGED vars
  <2>1. nodes' = nodes /\ left' = left /\ rules' = rules /\ run' = run
    BY <1>5 DEF vars, host, history
  <2>2. Owned' = Owned
    BY <2>1, OwnedSame
  <2>3. QED
    BY <1>0, <2>1, <2>2 DEF OriginInv, RulesKnown, Plans
<1>6. QED
  BY <1>1, <1>2, <1>3, <1>4, <1>5 DEF Next

\* At first there are only the rules of the operator.
LEMMA OriginInit == Init => OriginInv
<1> SUFFICES ASSUME Init
             PROVE  OriginInv
  OBVIOUS
<1>1. RulesKnown
  BY DEF Init, RulesKnown
<1>2. \A p \in Procs : run[p].task = "none"
  BY IdleIs DEF Init
<1>3. \A p \in Procs : Plans(run[p])
  BY <1>2 DEF Plans, Applying
<1>4. QED
  BY <1>1, <1>3, TypeInit DEF OriginInv

\* Where the redirect of a node is there, the rule that decides for a port of
\* its range leads to an enabled node with that port, unless it is one of the
\* operator's or one left behind by an edit.
LEMMA Decided ==
    ASSUME OriginInv, NEW i \in DOMAIN rules, NEW q, Covers(rules[i], q)
    PROVE  \/ First(Matching(q)) \in DOMAIN Foreign
           \/ Deciding(q) \in Owned
<1>1. rules \in Seq(Rules \cup Range(Foreign))
  BY DEF OriginInv, TypeInv, TypeOK
<1>2. i \in Matching(q) /\ Matching(q) \subseteq DOMAIN rules
  BY DEF Matching
<1>3. Matching(q) \subseteq Nat
  BY <1>1, <1>2
<1>4. First(Matching(q)) \in DOMAIN rules
  BY <1>2, <1>3, FirstIsLeast
<1>5. QED
  BY <1>4 DEF OriginInv, RulesKnown, Deciding

\* A datagram to any port of an enabled node's range reaches an enabled node
\* that has the port in its range, unless a rule of the operator or one left
\* behind by an edit decides first.
THEOREM DeliveredHops == Spec => []Delivered
<1>1. OriginInv => Delivered
  <2> SUFFICES ASSUME OriginInv, NEW s \in Hopping(nodes) \cap EnabledNodes(nodes),
                      Redirect(nodes[s]) \in Range(rules),
                      NEW q \in nodes[s].range[1]..nodes[s].range[2]
               PROVE  \/ \E t \in Hopping(nodes) \cap EnabledNodes(nodes) :
                            Deciding(q) = Redirect(nodes[t])
                      \/ Deciding(q) \in left
                      \/ First(Matching(q)) \in DOMAIN Foreign
    BY DEF Delivered
  <2>1. PICK i \in DOMAIN rules : rules[i] = Redirect(nodes[s])
    BY DEF Range
  <2>2. Covers(rules[i], q)
    <3>1. rules[i].range = nodes[s].range
      BY <2>1 DEF Redirect
    <3>2. nodes[s].range[1] <= q /\ q <= nodes[s].range[2]
      OBVIOUS
    <3>3. QED
      BY <3>1, <3>2 DEF Covers
  <2>3. First(Matching(q)) \in DOMAIN Foreign \/ Deciding(q) \in Owned
    BY <2>2, Decided
  <2>4. QED
    BY <2>3 DEF Owned, Active, Visits
<1>2. QED
  BY <1>1, OriginInit, OriginStep, PTL DEF Spec

=====
