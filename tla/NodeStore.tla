------------------------------ MODULE NodeStore ------------------------------
(***************************************************************************)
(* The node file, the account file and the core they are pushed to.        *)
(*                                                                         *)
(* Panels (internal/tui) edit nodes under the node lock and selections     *)
(* under the account lock; every change then ends in deploy.ApplyStore,    *)
(* which reads the node file without its lock before it queues for the     *)
(* account lock.  Deleting a node changes both files, one lock at a time.  *)
(* The accounting loop deploys as well when an account gains or loses      *)
(* access.  Nothing holds two locks.                                       *)
(*                                                                         *)
(* Here an account is its selections and its applied flag; who is barred   *)
(* (disabled, expired, over quota) is decided outside.  The port stands    *)
(* for every parameter of a node the document depends on, and installing   *)
(* a document is one step: Accounting models what may happen inside it.    *)
(***************************************************************************)
EXTENDS Accounts

CONSTANTS Panels,       \* panel processes
          Loop,         \* the accounting loop of the subscription service
          NoOne,        \* a lock is free
          Ports,        \* ports a node can be given
          SubPort,      \* the port of the subscription service
          FirstPort,    \* the port of the nodes deployed at the start
          Deployed,     \* the nodes deployed at the start, at most one
          Subscribed,   \* tokens of the accounts that select them
          MaxEdits,     \* bound on panel tasks
          MaxFaults,    \* bound on failed steps and killed processes
          MaxFlips      \* bound on accounts barred or admitted

Procs == Panels \cup {Loop}

ASSUME NodeConstants ==
    /\ Loop \notin Panels
    /\ NoOne \notin Procs
    /\ FirstPort \in Ports
    /\ Deployed \subseteq Nodes /\ \A m, n \in Deployed : m = n
    /\ Subscribed \subseteq Tokens
    /\ {MaxEdits, MaxFaults, MaxFlips} \subseteq Nat

VARIABLES
    nodes,      \* easysb-nodes.json: by id, whether enabled and the port
    users,      \* easysb-users.json: by token, the selections and the flag
    nodeLock, userLock,
    running,    \* what the core runs: its listeners and its users
    barred,     \* tokens that may not connect
    pc, task,   \* per process: where it is, and what the panel was asked to do
    snap, copy, \* per process: its copy of the node file and of the account file
    judged,     \* per process: who was barred when it looked at the clock
    edits, faults, flips

(***************************************************************************)
(* History variables.                                                      *)
(***************************************************************************)
VARIABLES
    decided,    \* the node file by the changes committed so far
    issued,     \* node ids ever given: they are random, so never given twice
    behind,     \* the last deployment used old nodes, or one did not end
    excused     \* deleted nodes whose cascade was interrupted or overtaken

files == <<nodes, users>>
locks == <<nodeLock, userLock>>
procs == <<pc, task, snap, copy, judged>>
world == <<running, barred>>
bounds == <<edits, faults, flips>>
history == <<decided, issued, behind, excused>>
vars == <<files, locks, procs, world, bounds, history>>

Node == [enabled: BOOLEAN, port: Ports]
Member == [nodes: SUBSET Nodes, applied: BOOLEAN]
Nothing == [x \in {} |-> 0]

Idle == [op |-> "none"]
Task == {Idle}
    \cup [op: {"add", "port"}, id: Nodes, port: Ports]
    \cup [op: {"toggle"}, id: Nodes]
    \cup [op: {"delete"}, id: Nodes, affected: BOOLEAN]
    \cup [op: {"select"}, id: Nodes, token: Tokens]
    \cup [op: {"account"}, token: Tokens]

PCs == {"idle", "confirm", "nodes", "change", "cascade", "deselect",
        "accounts", "look", "commit", "deploy", "queued", "check", "apply",
        "save"}

Goto(p, label) == pc' = [pc EXCEPT ![p] = label]

-----------------------------------------------------------------------------
(* The document.                                                           *)

Enabled(ns) == {n \in DOMAIN ns : ns[n].enabled}

\* The accounts the core may authenticate.
MayConnect(us, out) == {t \in DOMAIN us : t \notin out /\ us[t].nodes # {}}

\* One listener per enabled node, one user per account that selected it.
Document(ns, us, out) ==
    [listen |-> {<<n, ns[n].port>> : n \in Enabled(ns)},
     names  |-> {name \in Names : /\ name[1] \in MayConnect(us, out)
                                  /\ name[2] \in us[name[1]].nodes
                                  /\ name[2] \in Enabled(ns)}]

\* Some account's flag disagrees with what may be live.
Changed(us, out) ==
    \E t \in DOMAIN us : us[t].applied # (t \in MayConnect(us, out))

Flagged(us, out) ==
    [t \in DOMAIN us |-> [us[t] EXCEPT !.applied = t \in MayConnect(us, out)]]

Init ==
    /\ nodes = [n \in Deployed |-> [enabled |-> TRUE, port |-> FirstPort]]
    /\ barred = {}
    /\ users = [t \in Subscribed |->
                   [nodes |-> Deployed, applied |-> Deployed # {}]]
    /\ running = Document(nodes, users, {})
    /\ nodeLock = NoOne /\ userLock = NoOne
    /\ pc = [p \in Procs |-> "idle"] /\ task = [p \in Procs |-> Idle]
    /\ snap = [p \in Procs |-> Nothing] /\ copy = [p \in Procs |-> Nothing]
    /\ judged = [p \in Procs |-> {}]
    /\ edits = 0 /\ faults = 0 /\ flips = 0
    /\ decided = nodes /\ issued = Deployed
    /\ behind = FALSE /\ excused = {}

-----------------------------------------------------------------------------
(* What a node task does to the file it loaded.                            *)

\* The node file after the change of a task.
Edited(ns, t) ==
    CASE t.op = "add"    -> Put(ns, t.id, [enabled |-> TRUE, port |-> t.port])
      [] t.op = "port"   -> [ns EXCEPT ![t.id].port = t.port]
      [] t.op = "toggle" -> [ns EXCEPT ![t.id].enabled = ~@]
      [] t.op = "delete" -> Drop(ns, t.id)

\* Mutant: a disabled node is validated against the others, an enabled one is
\* not.
ValidSwapped(ns, id) ==
    ns[id].enabled \/ \A n \in Enabled(ns) \ {id} : ns[n].port # ns[id].port

\* Store.Validate, on the store that holds the edited node: two enabled nodes
\* do not share a port.  Names are compared the same way.
Valid(ns, id) ==
    ns[id].enabled => \A n \in Enabled(ns) \ {id} : ns[n].port # ns[id].port

\* CheckSubPort.
AvoidsSubPort(node) == node.enabled => node.port # SubPort

\* Whether the task is carried out.  The form that edits a port shows the node
\* it had before to CheckSubPort.
Accepted(ns, t) ==
    \/ /\ t.op = "add"
       /\ t.port # SubPort /\ Valid(Edited(ns, t), t.id)
    \/ /\ t.op = "port" /\ t.id \in DOMAIN ns
       /\ AvoidsSubPort(ns[t.id]) /\ Valid(Edited(ns, t), t.id)
    \/ /\ t.op = "toggle" /\ t.id \in DOMAIN ns
       /\ AvoidsSubPort(Edited(ns, t)[t.id]) /\ Valid(Edited(ns, t), t.id)
    \/ /\ t.op = "delete" /\ t.id \in DOMAIN ns

-----------------------------------------------------------------------------
(* A panel: the node screens.                                              *)

Begin(p, t, label) ==
    /\ pc[p] = "idle" /\ edits < MaxEdits
    /\ edits' = edits + 1
    /\ task' = [task EXCEPT ![p] = t]
    /\ Goto(p, label)
    /\ UNCHANGED <<files, locks, snap, copy, judged, world, faults, flips,
                   decided, behind, excused>>

NewNode(p) == \E n \in Nodes \ issued, q \in Ports :
    /\ Begin(p, [op |-> "add", id |-> n, port |-> q], "nodes")
    /\ issued' = issued \cup {n}

\* The forms open for a node that is in the file.
EditNode(p) == \E n \in DOMAIN nodes :
    /\ \/ \E q \in Ports : Begin(p, [op |-> "port", id |-> n, port |-> q], "nodes")
       \/ Begin(p, [op |-> "toggle", id |-> n], "nodes")
    /\ UNCHANGED issued

SelectedBy(us, n) == {t \in DOMAIN us : n \in us[t].nodes}

\* The confirmation counts the accounts that select the node ...
AskDelete(p) == \E n \in DOMAIN nodes :
    /\ Begin(p, [op |-> "delete", id |-> n,
                 affected |-> SelectedBy(users, n) # {}], "confirm")
    /\ UNCHANGED issued

\* ... and the operator answers later.
Confirm(p) ==
    /\ pc[p] = "confirm"
    /\ Goto(p, "nodes")
    /\ UNCHANGED <<files, locks, task, snap, copy, judged, world, bounds, history>>

Decline(p) ==
    /\ pc[p] = "confirm"
    /\ Goto(p, "idle") /\ task' = [task EXCEPT ![p] = Idle]
    /\ UNCHANGED <<files, locks, snap, copy, judged, world, bounds, history>>

\* Mutant: the file is loaded before the lock is taken.
LockNodesLate(p) ==
    /\ pc[p] = "nodes"
    /\ UNCHANGED nodeLock
    /\ snap' = [snap EXCEPT ![p] = nodes]
    /\ Goto(p, "change")
    /\ UNCHANGED <<files, userLock, task, copy, judged, world, bounds, history>>

\* node.Locked.
LockNodes(p) ==
    /\ pc[p] = "nodes"
    /\ nodeLock = NoOne /\ nodeLock' = p
    /\ snap' = [snap EXCEPT ![p] = nodes]
    /\ Goto(p, "change")
    /\ UNCHANGED <<files, userLock, task, copy, judged, world, bounds, history>>

\* The change, the save and the unlock.
ChangeNodes(p) ==
    /\ pc[p] = "change" /\ Accepted(snap[p], task[p])
    /\ nodes' = Edited(snap[p], task[p])
    /\ decided' = Edited(decided, task[p])
    /\ nodeLock' = NoOne
    /\ snap' = [snap EXCEPT ![p] = Nothing]
    /\ Goto(p, IF task[p].op = "delete" /\ task[p].affected
               THEN "cascade" ELSE "deploy")
    /\ UNCHANGED <<users, userLock, task, copy, judged, world, bounds, issued, behind,
                   excused>>

RefuseNodes(p) ==
    /\ pc[p] = "change" /\ ~Accepted(snap[p], task[p])
    /\ nodeLock' = NoOne
    /\ snap' = [snap EXCEPT ![p] = Nothing]
    /\ Goto(p, "idle") /\ task' = [task EXCEPT ![p] = Idle]
    /\ UNCHANGED <<files, userLock, copy, judged, world, bounds, history>>

\* The second half of deleteNode, under the other lock.
LockCascade(p) ==
    /\ pc[p] = "cascade"
    /\ userLock = NoOne /\ userLock' = p
    /\ copy' = [copy EXCEPT ![p] = users]
    /\ Goto(p, "deselect")
    /\ UNCHANGED <<files, nodeLock, task, snap, judged, world, bounds, history>>

\* Mutant: the cascade stops at the first account.
CascadeOne(p) ==
    /\ pc[p] = "deselect"
    /\ LET first == CHOOSE t \in DOMAIN copy[p] : TRUE
       IN users' = [copy[p] EXCEPT ![first].nodes = @ \ {task[p].id}]
    /\ userLock' = NoOne
    /\ copy' = [copy EXCEPT ![p] = Nothing]
    /\ Goto(p, "deploy")
    /\ UNCHANGED <<nodes, nodeLock, task, snap, judged, world, bounds, history>>

Cascade(p) ==
    /\ pc[p] = "deselect"
    /\ users' = [t \in DOMAIN copy[p] |->
                    [copy[p][t] EXCEPT !.nodes = @ \ {task[p].id}]]
    /\ userLock' = NoOne
    /\ copy' = [copy EXCEPT ![p] = Nothing]
    /\ Goto(p, "deploy")
    /\ UNCHANGED <<nodes, nodeLock, task, snap, judged, world, bounds, history>>

-----------------------------------------------------------------------------
(* A panel: the account screens that look at nodes.                        *)

\* Mark a node of an account, or take the mark away.
ToggleUserNode(p) == \E n \in DOMAIN nodes, t \in DOMAIN users :
    /\ Begin(p, [op |-> "select", id |-> n, token |-> t], "accounts")
    /\ UNCHANGED issued

NewUser(p) == \E t \in Tokens \ DOMAIN users :
    /\ \A q \in Procs : task[q].op = "account" => task[q].token # t
    /\ Begin(p, [op |-> "account", token |-> t], "accounts")
    /\ UNCHANGED issued

LockUsers(p) ==
    /\ pc[p] = "accounts"
    /\ userLock = NoOne /\ userLock' = p
    /\ copy' = [copy EXCEPT ![p] = users]
    /\ Goto(p, "look")
    /\ UNCHANGED <<files, nodeLock, task, snap, judged, world, bounds, history>>

\* The node file is read without its lock.
LookUpNodes(p) ==
    /\ pc[p] = "look"
    /\ snap' = [snap EXCEPT ![p] = nodes]
    /\ Goto(p, "commit")
    /\ UNCHANGED <<files, locks, task, copy, judged, world, bounds, history>>

\* A node that is being deleted, by a panel that has yet to cascade.
Deleting(n) == \E q \in Panels :
    /\ task[q].op = "delete" /\ task[q].id = n
    /\ pc[q] \in {"confirm", "nodes", "change", "cascade", "deselect"}

\* The account file after the change of a task; us, ns are what it read.
WithSelection(us, t) ==
    [us EXCEPT ![t.token].nodes = (@ \cup {t.id}) \ (@ \cap {t.id})]

WithAccount(us, ns, t) ==
    Put(us, t.token, [nodes |-> Enabled(ns), applied |-> FALSE])

CommitUsers(p) ==
    /\ pc[p] = "commit"
    /\ \/ /\ task[p].op = "select" /\ task[p].id \in DOMAIN snap[p]
          /\ users' = WithSelection(copy[p], task[p])
       \/ /\ task[p].op = "account"
          /\ users' = WithAccount(copy[p], snap[p], task[p])
    /\ excused' = excused \cup
           {n \in Nodes : /\ SelectedBy(users', n) \ SelectedBy(users, n) # {}
                          /\ n \notin DOMAIN nodes \/ Deleting(n)}
    /\ userLock' = NoOne
    /\ snap' = [snap EXCEPT ![p] = Nothing]
    /\ copy' = [copy EXCEPT ![p] = Nothing]
    /\ Goto(p, "deploy")
    /\ UNCHANGED <<nodes, nodeLock, task, judged, world, bounds, decided, issued, behind>>

\* The node is gone.
RefuseUsers(p) ==
    /\ pc[p] = "commit"
    /\ task[p].op = "select" /\ task[p].id \notin DOMAIN snap[p]
    /\ userLock' = NoOne
    /\ snap' = [snap EXCEPT ![p] = Nothing]
    /\ copy' = [copy EXCEPT ![p] = Nothing]
    /\ Goto(p, "idle") /\ task' = [task EXCEPT ![p] = Idle]
    /\ UNCHANGED <<files, nodeLock, judged, world, bounds, history>>


-----------------------------------------------------------------------------
(* deploy.ApplyStore.                                                      *)

\* The nodes are read first, without their lock, ...
LoadNodes(p) ==
    /\ pc[p] = "deploy"
    /\ snap' = [snap EXCEPT ![p] = nodes]
    /\ Goto(p, "queued")
    /\ UNCHANGED <<files, locks, task, copy, judged, world, bounds, history>>

\* Mutant: the account lock is not taken.
LockAccountsLate(p) ==
    /\ pc[p] = "queued"
    /\ UNCHANGED userLock
    /\ copy' = [copy EXCEPT ![p] = users]
    /\ judged' = [judged EXCEPT ![p] = barred]
    /\ Goto(p, "apply")
    /\ UNCHANGED <<files, nodeLock, task, snap, world, bounds, history>>

\* ... and the accounts and the clock under the account lock.
LockAccounts(p) ==
    /\ pc[p] = "queued"
    /\ userLock = NoOne /\ userLock' = p
    /\ copy' = [copy EXCEPT ![p] = users]
    /\ judged' = [judged EXCEPT ![p] = barred]
    /\ Goto(p, "apply")
    /\ UNCHANGED <<files, nodeLock, task, snap, world, bounds, history>>

\* The document is rendered, accepted, installed and started.
Apply(p) ==
    /\ pc[p] = "apply" /\ Enabled(snap[p]) # {}
    /\ running' = Document(snap[p], copy[p], judged[p])
    /\ copy' = [copy EXCEPT ![p] = Flagged(copy[p], judged[p])]
    /\ behind' = (snap[p] # nodes)
    /\ Goto(p, "save")
    /\ UNCHANGED <<files, locks, task, snap, judged, barred, bounds, decided,
                   issued, excused>>

\* p is done with its cycle or its task.
Finish(p) ==
    /\ userLock' = NoOne
    /\ snap' = [snap EXCEPT ![p] = Nothing]
    /\ copy' = [copy EXCEPT ![p] = Nothing]
    /\ judged' = [judged EXCEPT ![p] = {}]
    /\ task' = [task EXCEPT ![p] = Idle]
    /\ Goto(p, "idle")
    /\ UNCHANGED <<nodes, nodeLock, world, bounds, history>>

\* ErrNoNodes: the running core and the flags stay as they are.
ApplyNothing(p) ==
    /\ pc[p] = "apply" /\ Enabled(snap[p]) = {}
    /\ Finish(p)
    /\ UNCHANGED users

SaveAccounts(p) ==
    /\ pc[p] = "save"
    /\ users' = copy[p]
    /\ Finish(p)

-----------------------------------------------------------------------------
(* The accounting loop, as far as it deploys.                              *)

LoopLock ==
    /\ pc[Loop] = "idle"
    /\ userLock = NoOne /\ userLock' = Loop
    /\ copy' = [copy EXCEPT ![Loop] = users]
    /\ judged' = [judged EXCEPT ![Loop] = barred]
    /\ Goto(Loop, "check")
    /\ UNCHANGED <<files, nodeLock, task, snap, world, bounds, history>>

\* Nobody gained or lost access: the core is left alone.
LoopSettled ==
    /\ pc[Loop] = "check" /\ ~Changed(copy[Loop], judged[Loop])
    /\ Finish(Loop)
    /\ UNCHANGED users

\* The nodes are read under the account lock here.
LoopNodes ==
    /\ pc[Loop] = "check" /\ Changed(copy[Loop], judged[Loop])
    /\ snap' = [snap EXCEPT ![Loop] = nodes]
    /\ Goto(Loop, "apply")
    /\ UNCHANGED <<files, locks, task, copy, judged, world, bounds, history>>

-----------------------------------------------------------------------------
(* The world, and failures.                                                *)

\* An account runs out of quota, expires, or is admitted again.
Flip ==
    /\ flips < MaxFlips /\ flips' = flips + 1
    /\ \E t \in DOMAIN users : barred' = (barred \cup {t}) \ (barred \cap {t})
    /\ UNCHANGED <<files, locks, procs, running, edits, faults, history>>

FreedBy(p, lock) == IF lock = p THEN NoOne ELSE lock

\* Where a change of p is committed and not deployed, or deployed and not yet
\* recorded in the flags; and where a node is removed and not yet cascaded.
Undeployed == {"cascade", "deselect", "deploy", "queued", "apply", "save"}
Uncascaded == {"cascade", "deselect"}

\* A step of p fails, or p is killed: its locks are released, its copies gone.
GiveUp(p) ==
    /\ pc[p] # "idle" /\ faults < MaxFaults
    /\ faults' = faults + 1
    /\ nodeLock' = FreedBy(p, nodeLock) /\ userLock' = FreedBy(p, userLock)
    /\ snap' = [snap EXCEPT ![p] = Nothing]
    /\ copy' = [copy EXCEPT ![p] = Nothing]
    /\ judged' = [judged EXCEPT ![p] = {}]
    /\ task' = [task EXCEPT ![p] = Idle]
    /\ Goto(p, "idle")
    /\ behind' = (behind \/ pc[p] \in Undeployed)
    /\ excused' = IF pc[p] \in Uncascaded THEN excused \cup {task[p].id} ELSE excused
    /\ UNCHANGED <<files, world, edits, flips, decided, issued>>

-----------------------------------------------------------------------------
NodeScreens(p) == NewNode(p) \/ EditNode(p) \/ AskDelete(p) \/ Confirm(p)
                  \/ Decline(p) \/ LockNodes(p) \/ ChangeNodes(p)
                  \/ RefuseNodes(p) \/ LockCascade(p) \/ Cascade(p)

AccountScreens(p) == ToggleUserNode(p) \/ NewUser(p) \/ LockUsers(p)
                     \/ LookUpNodes(p) \/ CommitUsers(p) \/ RefuseUsers(p)

Deployment(p) == LoadNodes(p) \/ LockAccounts(p) \/ Apply(p)
                 \/ ApplyNothing(p) \/ SaveAccounts(p)

Next == \/ \E p \in Panels : NodeScreens(p) \/ AccountScreens(p)
        \/ \E p \in Procs : Deployment(p) \/ GiveUp(p)
        \/ LoopLock \/ LoopSettled \/ LoopNodes
        \/ Flip

Spec == Init /\ [][Next]_vars

-----------------------------------------------------------------------------
IsNodeFile(f) ==
    /\ DOMAIN f \subseteq Nodes /\ f = [n \in DOMAIN f |-> f[n]]
    /\ \A n \in DOMAIN f : f[n] \in Node

IsUserFile(f) ==
    /\ DOMAIN f \subseteq Tokens /\ f = [t \in DOMAIN f |-> f[t]]
    /\ \A t \in DOMAIN f : f[t] \in Member

\* Every variable holds a value of its type; decided has that of nodes, by
\* NodesAsDecided.
TypeOK ==
    /\ IsNodeFile(nodes) /\ IsUserFile(users)
    /\ {nodeLock, userLock} \subseteq Procs \cup {NoOne}
    /\ pc \in [Procs -> PCs] /\ task \in [Procs -> Task]
    /\ judged \in [Procs -> SUBSET Tokens]
    /\ snap = [p \in Procs |-> snap[p]] /\ copy = [p \in Procs |-> copy[p]]
    /\ \A p \in Procs : IsNodeFile(snap[p]) /\ IsUserFile(copy[p])
    /\ running \in [listen: SUBSET (Nodes \X Ports), names: SUBSET Names]
    /\ barred \subseteq Tokens /\ issued \subseteq Nodes
    /\ excused \subseteq Nodes /\ behind \in BOOLEAN
    /\ {edits, faults, flips} \subseteq Nat

\* The node file holds what the committed changes amount to: no panel writes
\* back a copy it read before another panel's change (node.Locked).
NodesAsDecided == nodes = decided

\* Two enabled nodes never share a port, however toggles and port changes of
\* several panels interleave (Store.Validate).
PortsDistinct ==
    \A m, n \in Enabled(nodes) : m # n => nodes[m].port # nodes[n].port

\* No panel is between a commit and the end of its deployment.
Quiet == /\ userLock = NoOne
         /\ \A p \in Panels : pc[p] \in {"idle", "confirm", "nodes", "accounts"}

\* When nothing is under way the core runs what the two files say, unless the
\* last deployment failed or used nodes that had changed meanwhile, all nodes
\* are off, or the loop has yet to notice that an account changed its status.
CoreMatchesFiles ==
    Quiet /\ ~behind /\ Enabled(nodes) # {} /\ ~Changed(users, barred) =>
        running = Document(nodes, users, barred)

Dangling == (UNION {users[t].nodes : t \in DOMAIN users}) \ DOMAIN nodes

\* An account keeps selecting a deleted node only if the cascade was cut short
\* or the selection was made while the node was being deleted.
DanglingIsExcused == Quiet => Dangling \subseteq excused

\* What deleteNode says of itself: no selection is left dangling.
NoSelectionDangles == Quiet /\ faults = 0 => Dangling = {}

=============================================================================
