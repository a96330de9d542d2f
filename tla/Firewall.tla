------------------------------ MODULE Firewall ------------------------------
(***************************************************************************)
(* The port-hopping redirects (internal/firewall) and the tasks that set   *)
(* and clear them: the panel's two maintenance entries, the first          *)
(* deployment of a host, the boot unit and the uninstaller.  Every task is *)
(* a process of its own; the rules are a list in the kernel that no lock   *)
(* protects, that the first matching rule decides and that a reboot        *)
(* empties.                                                                *)
(***************************************************************************)
EXTENDS Integers, Sequences, FiniteSets, SequencesExt

CONSTANTS Panels,      \* panel processes
          Boot,        \* the process of the boot unit
          Slots,       \* positions in the node file
          Ports,       \* ports a node can listen on
          Ranges,      \* hop ranges, as <<first, last>>; a first port of 0
                       \* stands for a text that is no range
          Backends,    \* what Detect may answer on the host
          Foreign,     \* rules of the operator, ahead of the panel's
          MaxEdits,    \* bound on changes of the node file
          MaxTasks,    \* bound on tasks
          MaxFaults,   \* bound on failed commands and cancellations
          MaxReboots   \* bound on reboots

Procs == Panels \cup {Boot}
LastPort == 65535
Rules == [range : Ranges, to : Ports]

ASSUME SlotsAssumption == Slots \in SUBSET (Nat \ {0}) /\ IsFiniteSet(Slots)

ASSUME PortsAssumption == Ports \in SUBSET (1..LastPort)

ASSUME ForeignAssumption ==
    Foreign \in Seq([range : (0..LastPort) \X (0..LastPort), to : 1..LastPort])

ASSUME FirewallAssumption ==
    /\ Boot \notin Panels
    /\ Ranges \in SUBSET ((0..LastPort) \X (0..LastPort))
    /\ Backends \subseteq {"iptables", "nft", "none"}
    /\ {MaxEdits, MaxTasks, MaxFaults, MaxReboots} \subseteq Nat

VARIABLES
    backend,     \* the NAT tool of the host
    nodes,       \* easysb-nodes.json: a node or nothing in every slot
    deployed,    \* NodeDeployed of the state file
    rules,       \* the prerouting chain
    unit,        \* the boot unit: written, enabled
    run,         \* per process: the task it runs, see Task
    edits, tasks, faults, reboots

(* History, for stating properties. *)
VARIABLES
    left,        \* rules whose node was edited, switched off or removed since
    swept,       \* a task that removes rules was started
    served       \* the core runs the nodes of the file

host     == <<backend, nodes, deployed, rules, unit>>
history  == <<left, swept, served>>
bounds   == <<edits, tasks, faults, reboots>>
vars     == <<host, run, history, bounds>>

-----------------------------------------------------------------------------
(* Nodes and rules.                                                        *)

NoRange == <<0, 0>>
None == [hop |-> FALSE, range |-> NoRange, port |-> 0, enabled |-> FALSE]
\* Hysteria2 nodes hop, the other protocols do not.
Node == [hop : {TRUE}, range : Ranges, port : Ports, enabled : BOOLEAN]
          \cup [hop : {FALSE}, range : {NoRange}, port : Ports, enabled : BOOLEAN]

\* The redirect of a node.  A node without a range has the compiled default.
Redirect(n) == [range |-> n.range, to |-> n.port]

Hopping(ns) == {s \in Slots : ns[s].hop}
EnabledNodes(ns) == {s \in Slots : ns[s].enabled}

\* Mutant: Remove skips the nodes that are switched off.
VisitsEnabled(t, ns) == Hopping(ns) \cap EnabledNodes(ns)

\* Mutant: Apply visits the nodes that are switched off as well.
VisitsAll(t, ns) == Hopping(ns)

\* The slots a task visits, in the order of the file: Apply skips the nodes
\* that are switched off, Remove does not.
Visits(t, ns) ==
    IF t = "remove" THEN Hopping(ns) ELSE Hopping(ns) \cap EnabledNodes(ns)

First(S) == CHOOSE s \in S : \A t \in S : s <= t
\* Slots whose turn is over, and the redirect of the one whose turn it is.
Behind(r) == {s \in Visits(r.task, r.snap) : s < r.at}
Current(r) == Redirect(r.snap[r.at])

\* The decimal text of p begins that of q.
TextPrefix(p, q) == \E k \in 0..4 : q \div (10 ^ k) = p

\* Mutant: a rule is recognised by its range alone.
RecognisedByRange(rule, r) == r.range = rule.range

\* nft is asked by substring, iptables for the very rule.
Recognised(rule, r) ==
    /\ r.range = rule.range
    /\ IF backend = "nft" THEN TextPrefix(rule.to, r.to) ELSE r.to = rule.to

Listed(rule) == \E i \in DOMAIN rules : Recognised(rule, rules[i])

\* Where a datagram to port q goes: the first rule that covers it decides.
Covers(r, q) == r.range[1] <= q /\ q <= r.range[2]
Matching(q) == {i \in DOMAIN rules : Covers(rules[i], q)}
Deciding(q) == rules[First(Matching(q))]

(* A task: where it is, what it does, the nodes it loaded, the slot it is   *)
(* at (0 before the first), whether the rule it is about to add was seen,   *)
(* whether its context is cancelled; as history, whether one of its         *)
(* commands failed and whether another process changed the rules meanwhile. *)
Labels == {"idle", "look", "add", "delete", "unit", "enable",
           "disable", "discard"}
Task == [pc : Labels, task : {"none", "apply", "deploy", "boot", "remove"},
         snap : [Slots -> Node \cup {None}], at : Nat, seen : BOOLEAN,
         cancelled : BOOLEAN, failed : BOOLEAN, crossed : BOOLEAN]

NoNodes == [s \in Slots |-> None]
Idle == [pc |-> "idle", task |-> "none", snap |-> NoNodes, at |-> 0,
         seen |-> FALSE, cancelled |-> FALSE, failed |-> FALSE, crossed |-> FALSE]

\* A task goes to its next node, or to the step after the rules.  A range that
\* cannot be read ends it; a host without a tool has no rules.
Onward(r) ==
    LET ahead == {s \in Visits(r.task, r.snap) : s > r.at}
        removes == r.task = "remove"
    IN IF ahead = {} \/ backend = "none"
       THEN [r EXCEPT !.at = Cardinality(Slots) + 1, !.seen = FALSE,
                      !.pc = IF removes THEN "disable" ELSE "unit"]
       ELSE IF r.snap[First(ahead)].range[1] = 0 THEN Idle
       ELSE [r EXCEPT !.at = First(ahead), !.seen = FALSE,
                      !.pc = IF removes THEN "delete" ELSE "look"]

Starting(t) == Onward([Idle EXCEPT !.task = t, !.snap = nodes])

\* Two enabled nodes do not share a port.
Valid(ns) == \A s, t \in EnabledNodes(ns) :
                 ns[s].port = ns[t].port => s = t

\* A host with any nodes that was not deployed yet.
Init ==
    /\ backend \in Backends
    /\ nodes \in {ns \in [Slots -> Node \cup {None}] : Valid(ns)}
    /\ deployed = FALSE
    /\ rules = Foreign
    /\ unit = [written |-> FALSE, enabled |-> FALSE]
    /\ run = [p \in Procs |-> Idle]
    /\ left = {} /\ swept = FALSE /\ served = FALSE
    /\ edits = 0 /\ tasks = 0 /\ faults = 0 /\ reboots = 0

-----------------------------------------------------------------------------
(* The node file.                                                          *)

\* A form of the panel creates a node, changes one thing of it or removes it.
Edits(n) ==
    IF n = None THEN {m \in Node : m.enabled}
    ELSE {m \in Node : \E f \in {"range", "port", "enabled"} :
                          m = [n EXCEPT ![f] = m[f]]} \cup {None}

EditNodes ==
    /\ edits < MaxEdits /\ edits' = edits + 1
    /\ \E s \in Slots : \E n \in Edits(nodes[s]) \ {nodes[s]} :
          /\ nodes' = [nodes EXCEPT ![s] = n]
          /\ Valid(nodes')
          /\ left' = IF nodes[s].hop THEN left \cup {Redirect(nodes[s])} ELSE left
    /\ served' = FALSE
    /\ UNCHANGED <<backend, deployed, rules, unit, run, swept,
                   tasks, faults, reboots>>

-----------------------------------------------------------------------------
(* Tasks of the panel and of the provisioning script.                      *)

Begin(p, t) == run' = [run EXCEPT ![p] = Starting(t)]

\* The maintenance entries.  Applying refuses a host without enabled nodes.
StartApply(p) ==
    /\ EnabledNodes(nodes) # {}
    /\ Begin(p, "apply") /\ UNCHANGED <<deployed, served, swept>>

StartRemove(p) ==
    /\ swept' = TRUE
    /\ Begin(p, "remove") /\ UNCHANGED <<deployed, served>>

\* A deployment reaches the firewall only if it is the host's first one.
Deploy(p) ==
    /\ EnabledNodes(nodes) # {}
    /\ served' = TRUE /\ deployed' = TRUE
    /\ IF deployed THEN UNCHANGED run ELSE Begin(p, "deploy")
    /\ UNCHANGED swept

StartTask(p) ==
    /\ run[p].pc = "idle" /\ tasks < MaxTasks
    /\ tasks' = tasks + 1
    /\ StartApply(p) \/ StartRemove(p) \/ Deploy(p)
    /\ UNCHANGED <<backend, nodes, rules, unit, left, edits, faults, reboots>>

\* The operator cancels the task: its commands fail from now on.
Cancel(p) ==
    /\ p # Boot /\ run[p].pc # "idle" /\ ~run[p].cancelled
    /\ faults < MaxFaults /\ faults' = faults + 1
    /\ run' = [run EXCEPT ![p].cancelled = TRUE]
    /\ UNCHANGED <<host, history, edits, tasks, reboots>>

-----------------------------------------------------------------------------
(* The steps of a task.                                                    *)

\* A command of p ends well, or it does not.
Works(p) == ~run[p].cancelled /\ UNCHANGED faults
Fails(p) == IF run[p].cancelled THEN UNCHANGED faults
            ELSE faults < MaxFaults /\ faults' = faults + 1

Becomes(p, r) == run' = [run EXCEPT ![p] = r]
Goto(p, label) == Becomes(p, [run[p] EXCEPT !.pc = label])
End(p) == Becomes(p, Idle)
\* p goes on, and the tasks under way elsewhere now work on changed rules.
Crossing(p) ==
    run' = [q \in Procs |->
              IF q = p THEN Onward(run[q])
              ELSE [run[q] EXCEPT !.crossed = @ \/ run[q].pc # "idle"]]

still == <<backend, nodes, deployed, history, edits, tasks, reboots>>

\* Is the rule there?  A look that fails reads as no.
Look(p) ==
    /\ run[p].pc = "look"
    /\ \/ /\ Works(p)
          /\ Becomes(p, [run[p] EXCEPT !.pc = "add", !.seen = Listed(Current(run[p]))])
       \/ /\ Fails(p)
          /\ Becomes(p, [run[p] EXCEPT !.pc = "add", !.seen = FALSE, !.failed = TRUE])
    /\ UNCHANGED <<still, rules, unit>>

\* A rule that was not seen is appended; a failure ends the whole task.
AddRule(p) ==
    /\ run[p].pc = "add"
    /\ \/ run[p].seen /\ Becomes(p, Onward(run[p])) /\ UNCHANGED <<rules, faults>>
       \/ /\ ~run[p].seen /\ Works(p)
          /\ rules' = Append(rules, Current(run[p]))
          /\ Crossing(p)
       \/ ~run[p].seen /\ Fails(p) /\ End(p) /\ UNCHANGED rules
    /\ UNCHANGED <<still, unit>>

\* The rules at the places K, in their order.
Rank(K, k) == Cardinality({j \in K : j <= k})
Kept(K) == [i \in 1..Cardinality(K) |-> rules[CHOOSE k \in K : Rank(K, k) = i]]

\* iptables deletes the rule as often as it is found, nft every line that
\* contains its text; a command that fails ends the search in silence.
DeleteRule(p) ==
    /\ run[p].pc = "delete"
    /\ \/ /\ Works(p)
          /\ rules' = Kept({i \in DOMAIN rules : ~Recognised(Current(run[p]), rules[i])})
          /\ IF rules' = rules THEN Becomes(p, Onward(run[p])) ELSE Crossing(p)
       \/ /\ Fails(p) /\ UNCHANGED rules
          /\ Becomes(p, Onward([run[p] EXCEPT !.failed = TRUE]))
    /\ UNCHANGED <<still, unit>>

\* A host without an enabled hopping node gets no unit, and loses none.
WriteUnit(p) ==
    /\ run[p].pc = "unit"
    /\ unit' = [unit EXCEPT !.written = @ \/ Visits("apply", run[p].snap) # {}]
    /\ IF run[p].task = "boot" THEN End(p) ELSE Goto(p, "enable")
    /\ UNCHANGED <<still, rules, faults>>

\* Enabling a unit that was never written fails as well; it is logged.
EnableUnit(p) ==
    /\ run[p].pc = "enable"
    /\ \/ Works(p) /\ unit' = [unit EXCEPT !.enabled = @ \/ unit.written]
       \/ Fails(p) /\ UNCHANGED unit
    /\ End(p)
    /\ UNCHANGED <<still, rules>>

DisableUnit(p) ==
    /\ run[p].pc = "disable"
    /\ \/ Works(p) /\ unit' = [unit EXCEPT !.enabled = FALSE] /\ Goto(p, "discard")
       \/ Fails(p) /\ UNCHANGED unit /\ Goto(p, "discard")
    /\ UNCHANGED <<still, rules>>

\* The file is removed on a context of its own, whatever happened before.
RemoveUnit(p) ==
    /\ run[p].pc = "discard"
    /\ unit' = [unit EXCEPT !.written = FALSE]
    /\ End(p)
    /\ UNCHANGED <<still, rules, faults>>

\* The chain does not survive; an enabled unit loads the nodes and applies.
Reboot ==
    /\ reboots < MaxReboots /\ reboots' = reboots + 1
    /\ rules' = Foreign /\ left' = {}
    /\ run' = [p \in Procs |->
                 IF p = Boot /\ unit.written /\ unit.enabled
                 THEN Starting("boot") ELSE Idle]
    /\ UNCHANGED <<backend, nodes, deployed, served, unit, swept,
                   edits, tasks, faults>>

Step(p) ==
    \/ Cancel(p) \/ Look(p) \/ AddRule(p) \/ DeleteRule(p)
    \/ WriteUnit(p) \/ EnableUnit(p) \/ DisableUnit(p) \/ RemoveUnit(p)

Next ==
    \/ EditNodes \/ Reboot
    \/ \E p \in Panels : StartTask(p)
    \/ \E p \in Procs : Step(p)

Spec == Init /\ [][Next]_vars

-----------------------------------------------------------------------------
(* Properties.                                                             *)

TypeOK ==
    /\ backend \in Backends
    /\ nodes \in [Slots -> Node \cup {None}]
    /\ {deployed, swept, served} \subseteq BOOLEAN
    /\ rules \in Seq(Rules \cup Range(Foreign)) /\ left \subseteq Rules
    /\ unit \in [written : BOOLEAN, enabled : BOOLEAN]
    /\ run \in [Procs -> Task]
    /\ {edits, tasks, faults, reboots} \subseteq Nat

\* Apply leaves a redirect to every node it was given (firewall.go:46-76),
\* whatever it took for present and whichever of its commands failed in
\* between, unless another task changes the rules meanwhile.  nft may take the
\* rule of a port that continues the text of the node's own for it (:209).
AppliedIsPresent ==
    \A p \in Procs :
        LET r == run[p]
        IN (r.task \notin {"none", "remove"} /\ backend # "none" /\ ~r.crossed)
             => \A s \in Behind(r) : \E rule \in Range(rules) :
                   /\ rule.range = r.snap[s].range
                   /\ \/ rule.to = r.snap[s].port
                      \/ backend = "nft" /\ TextPrefix(r.snap[s].port, rule.to)

\* Remove leaves no redirect of any Hysteria2 node, switched on or off, unless
\* a command failed - which it does not report - or another task changed the
\* rules meanwhile (firewall.go:78-104).
RemovedIsGone ==
    \A p \in Procs :
        LET r == run[p]
        IN (r.task = "remove" /\ backend # "none" /\ ~r.crossed /\ ~r.failed)
             => \A s \in Hopping(r.snap) :
                   s < r.at => Redirect(r.snap[s]) \notin Range(rules)

\* Clients hop over the whole range of a node.  Once its redirect is there, a
\* datagram to any port of the range reaches the port of an enabled node with
\* that port in its range, unless an earlier rule of the operator decides, or
\* one that the panel left behind when its node was edited, switched off or
\* removed (firewall.go:79: rules go by what the nodes say now).
Delivered ==
    \A s \in Hopping(nodes) \cap EnabledNodes(nodes) :
        (Redirect(nodes[s]) \in Range(rules))
          => \A q \in nodes[s].range[1]..nodes[s].range[2] :
                \/ \E t \in Hopping(nodes) \cap EnabledNodes(nodes) :
                      Deciding(q) = Redirect(nodes[t])
                \/ Deciding(q) \in left
                \/ First(Matching(q)) \in DOMAIN Foreign

\* README.md:219 says that Hysteria2 "auto-applies iptables / nftables DNAT
\* and a boot restore unit".  On a host where no rule was ever removed, no
\* command failed and no task is under way, every hopping node the core
\* listens on would then have its redirect.
ServedHops ==
    (/\ backend # "none" /\ faults = 0 /\ ~swept /\ served
     /\ \A p \in Procs : run[p].pc = "idle")
      => \A s \in Visits("apply", nodes) : Listed(Redirect(nodes[s]))

=============================================================================
