------------------------------ MODULE Migration ------------------------------
(***************************************************************************)
(* The upgrade of a version-5 host.  Every process that reads the stores   *)
(* first runs node.Migrate: the per-protocol keys of the state file become *)
(* one node each, in the order of state.Keys, each saved on its own, and   *)
(* then the version-1 account file is rewritten, its selections translated *)
(* through the nodes (user.MigrateV2).  The nodes are added under the node *)
(* lock; the test for the file, the translation and the rewriting of the   *)
(* accounts take no lock.  The panel, the subscription service and the     *)
(* provisioning may start at the same time, and each may be killed.        *)
(*                                                                         *)
(* Protocols are numbered in the order of state.Keys.  The upgrade gives a *)
(* node the label of its protocol as its name.                             *)
(***************************************************************************)
EXTENDS Naturals, FiniteSets

CONSTANTS Starters,     \* processes that upgrade the stores when they start
          Service,      \* the one that systemd keeps restarting
          NoOne,        \* a lock is free
          ProtocolCount,
          Users,        \* the accounts of the old host
          Ports,        \* ports a protocol could be given
          MaxFaults,    \* bound on killed processes
          MaxEdits      \* bound on changes to an account

Protocols == 1 .. ProtocolCount

ASSUME MigrationConstants ==
    /\ Service \in Starters /\ NoOne \notin Starters
    /\ {ProtocolCount, MaxFaults, MaxEdits} \subseteq Nat

VARIABLES
    old,        \* the old host: protocols enabled, their ports, what the
                \* accounts select
    keys,       \* easysb.conf still has the per-protocol keys
    nodes,      \* easysb-nodes.json; no node stands for no file
    users,      \* easysb-users.json
    nodeLock, userLock,
    pc,
    legacy,     \* per process: the state file it loaded had the keys
    snap, todo, \* per process: its node store, and the protocols yet to add
    index,      \* per process: the node of each protocol, by the node file
    copy,       \* per process: its copy of the account file
    minted,     \* the number of node ids given so far
    faults, edits

(***************************************************************************)
(* History variables.                                                      *)
(***************************************************************************)
VARIABLES
    decided,    \* whether each account is enabled, by the operator's changes
    cut,        \* a process ended between its first and its last node
    early,      \* a process read the nodes while another one was adding
    overtaken   \* a rewriting of the accounts came after another one

files == <<keys, nodes, users>>
locks == <<nodeLock, userLock>>
procs == <<legacy, snap, todo, index, copy>>
history == <<decided, cut, early, overtaken>>
vars == <<old, files, locks, pc, procs, minted, faults, edits, history>>

Ids == Nat
Node == [id: Ids, protocol: Protocols]
Accounts == [version: {1, 2}, nodes: [Users -> SUBSET Ids],
             enabled: [Users -> BOOLEAN]]
NoNodes == [k \in {} |-> 0]
NoCopy == [version |-> 1, nodes |-> [u \in Users |-> {}],
           enabled |-> [u \in Users |-> TRUE]]

PCs == {"off", "stat", "lock", "add", "index", "read", "save", "running", "edit"}

Served(ns) == {n.protocol : n \in ns}

Init ==
    /\ old \in [enabled: SUBSET Protocols, port: [Protocols -> Ports],
                selected: [Users -> SUBSET Protocols]]
    /\ keys = TRUE /\ nodes = {} /\ users = NoCopy
    /\ nodeLock = NoOne /\ userLock = NoOne
    /\ pc = [p \in Starters |-> "off"]
    /\ legacy = [p \in Starters |-> FALSE]
    /\ snap = [p \in Starters |-> {}] /\ todo = [p \in Starters |-> {}]
    /\ index = [p \in Starters |-> NoNodes]
    /\ copy = [p \in Starters |-> NoCopy]
    /\ minted = 0 /\ faults = 0 /\ edits = 0
    /\ decided = [u \in Users |-> TRUE]
    /\ cut = FALSE /\ early = FALSE /\ overtaken = FALSE

Goto(p, label) == pc' = [pc EXCEPT ![p] = label]

FreedBy(p, lock) == IF lock = p THEN NoOne ELSE lock

-----------------------------------------------------------------------------
(* node.Migrate.                                                           *)

\* The process starts; it loads the state file before it looks for the nodes.
Start(p) ==
    /\ pc[p] = "off"
    /\ legacy' = [legacy EXCEPT ![p] = keys]
    /\ Goto(p, "stat")
    /\ UNCHANGED <<old, files, locks, snap, todo, index, copy, minted, faults,
                   edits, history>>

\* Mutant: a node file means that everything is upgraded.
FoundNodesDone(p) ==
    /\ pc[p] = "stat" /\ nodes # {}
    /\ Goto(p, "running")
    /\ UNCHANGED <<old, files, locks, procs, minted, faults, edits, history>>

\* The node file exists: only the accounts may be pending.
FoundNodes(p) ==
    /\ pc[p] = "stat" /\ nodes # {}
    /\ Goto(p, "index")
    /\ UNCHANGED <<old, files, locks, procs, minted, faults, edits, history>>

\* A fresh installation.
NothingToMigrate(p) ==
    /\ pc[p] = "stat" /\ nodes = {} /\ ~legacy[p]
    /\ Goto(p, "running")
    /\ UNCHANGED <<old, files, locks, procs, minted, faults, edits, history>>

NoNodesYet(p) ==
    /\ pc[p] = "stat" /\ nodes = {} /\ legacy[p]
    /\ Goto(p, "lock")
    /\ UNCHANGED <<old, files, locks, procs, minted, faults, edits, history>>

\* Mutant: the store is the one the test for the file saw.
LockNodesLate(p) ==
    /\ pc[p] = "lock"
    /\ nodeLock = NoOne /\ nodeLock' = p
    /\ snap' = [snap EXCEPT ![p] = {}]
    /\ todo' = [todo EXCEPT ![p] = old.enabled]
    /\ Goto(p, "add")
    /\ UNCHANGED <<old, files, userLock, legacy, index, copy, minted, faults,
                   edits, history>>

\* node.Locked.
LockNodes(p) ==
    /\ pc[p] = "lock"
    /\ nodeLock = NoOne /\ nodeLock' = p
    /\ snap' = [snap EXCEPT ![p] = nodes]
    /\ todo' = [todo EXCEPT ![p] = old.enabled]
    /\ Goto(p, "add")
    /\ UNCHANGED <<old, files, userLock, legacy, index, copy, minted, faults,
                   edits, history>>

Following(p, k) == k \in todo[p] /\ \A m \in todo[p] : k <= m

NameTaken(ns, k) == k \in Served(ns)
PortTaken(ns, k) == \E n \in ns : old.port[n.protocol] = old.port[k]

\* Mutant: the node is appended without a look at the others.
AddNodeUnchecked(p) == \E k \in Protocols :
    /\ pc[p] = "add" /\ Following(p, k)
    /\ snap' = [snap EXCEPT ![p] = @ \cup {[id |-> minted, protocol |-> k]}]
    /\ nodes' = snap'[p]
    /\ todo' = [todo EXCEPT ![p] = @ \ {k}]
    /\ minted' = minted + 1
    /\ UNCHANGED <<old, keys, users, locks, pc, legacy, index, copy, faults,
                   edits, history>>

\* Store.Add of the next protocol's node, which saves the file.
AddNode(p) == \E k \in Protocols :
    /\ pc[p] = "add" /\ Following(p, k)
    /\ ~NameTaken(snap[p], k) /\ ~PortTaken(snap[p], k)
    /\ snap' = [snap EXCEPT ![p] = @ \cup {[id |-> minted, protocol |-> k]}]
    /\ nodes' = snap'[p]
    /\ todo' = [todo EXCEPT ![p] = @ \ {k}]
    /\ minted' = minted + 1
    /\ UNCHANGED <<old, keys, users, locks, pc, legacy, index, copy, faults,
                   edits, history>>

\* p exits or is killed.  Its locks are released; what it saved stays.
Ends(p) ==
    /\ nodeLock' = FreedBy(p, nodeLock) /\ userLock' = FreedBy(p, userLock)
    /\ legacy' = [legacy EXCEPT ![p] = FALSE]
    /\ snap' = [snap EXCEPT ![p] = {}] /\ todo' = [todo EXCEPT ![p] = {}]
    /\ index' = [index EXCEPT ![p] = NoNodes]
    /\ copy' = [copy EXCEPT ![p] = NoCopy]
    /\ Goto(p, "off")
    /\ UNCHANGED <<old, files, minted, edits, decided, early, overtaken>>

\* Store.Add refuses a name or a port that is taken, and main exits.
AddRefused(p) == \E k \in Protocols :
    /\ pc[p] = "add" /\ Following(p, k)
    /\ NameTaken(snap[p], k) \/ PortTaken(snap[p], k)
    /\ Ends(p)
    /\ cut' = (cut \/ ~NameTaken(snap[p], k))
    /\ UNCHANGED faults

AllAdded(p) ==
    /\ pc[p] = "add" /\ todo[p] = {}
    /\ Goto(p, "index")
    /\ UNCHANGED <<old, files, locks, procs, minted, faults, edits, history>>

-----------------------------------------------------------------------------
(* migrateAccounts and user.MigrateV2.                                     *)

\* The node of each protocol; Store.Validate keeps one name from appearing
\* twice, so there is one.
ProtocolIndex(ns) ==
    [k \in Served(ns) |-> (CHOOSE n \in ns : n.protocol = k).id]

LoadIndex(p) ==
    /\ pc[p] = "index"
    /\ index' = [index EXCEPT ![p] = ProtocolIndex(nodes)]
    /\ early' = (early \/ \E q \in Starters \ {p} : pc[q] = "add" /\ todo[q] # {})
    /\ Goto(p, "read")
    /\ UNCHANGED <<old, files, locks, legacy, snap, todo, copy, minted, faults,
                   edits, decided, cut, overtaken>>

Unlocks(p) == nodeLock' = FreedBy(p, nodeLock)

\* The accounts are of this version already.
UpToDate(p) ==
    /\ pc[p] = "read" /\ users.version = 2
    /\ Unlocks(p)
    /\ Goto(p, "running")
    /\ UNCHANGED <<old, files, userLock, procs, minted, faults, edits, history>>

ReadOldAccounts(p) ==
    /\ pc[p] = "read" /\ users.version = 1
    /\ copy' = [copy EXCEPT ![p] = users]
    /\ Goto(p, "save")
    /\ UNCHANGED <<old, files, locks, legacy, snap, todo, index, minted, faults,
                   edits, history>>

\* Mutant: an account that loses a protocol loses them all.
ConvertedOrNothing(us, of) ==
    [us EXCEPT !.version = 2,
               !.nodes = [u \in Users |->
                   IF old.selected[u] \subseteq DOMAIN of
                   THEN {of[k] : k \in old.selected[u]} ELSE {}]]

\* Each account, its selections translated; a protocol without a node is
\* dropped.
Converted(us, of) ==
    [us EXCEPT !.version = 2,
               !.nodes = [u \in Users |->
                   {of[k] : k \in old.selected[u] \cap DOMAIN of}]]

\* The file is replaced, whatever it holds by now.
SaveAccounts(p) ==
    /\ pc[p] = "save"
    /\ users' = Converted(copy[p], index[p])
    /\ overtaken' = (overtaken \/ users.version = 2)
    /\ copy' = [copy EXCEPT ![p] = NoCopy]
    /\ Unlocks(p)
    /\ Goto(p, "running")
    /\ UNCHANGED <<old, keys, nodes, userLock, legacy, snap, todo, index, minted,
                   faults, edits, decided, cut, early>>

-----------------------------------------------------------------------------
(* The process after its start, as far as it touches what the upgrade      *)
(* reads.                                                                  *)

\* Every save of the state file drops the per-protocol keys.
SaveState(p) ==
    /\ pc[p] = "running"
    /\ keys' = FALSE
    /\ UNCHANGED <<old, nodes, users, locks, pc, procs, minted, faults, edits,
                   history>>

\* Mutant: the accounts are loaded without the lock.
LockUsersLate(p) ==
    /\ pc[p] = "running" /\ edits < MaxEdits /\ users.version = 2
    /\ UNCHANGED userLock
    /\ edits' = edits + 1
    /\ copy' = [copy EXCEPT ![p] = users]
    /\ Goto(p, "edit")
    /\ UNCHANGED <<old, files, nodeLock, legacy, snap, todo, index, minted,
                   faults, history>>

\* An account is changed under the account lock (user.Locked, Save).
LockUsers(p) ==
    /\ pc[p] = "running" /\ edits < MaxEdits /\ users.version = 2
    /\ userLock = NoOne /\ userLock' = p
    /\ edits' = edits + 1
    /\ copy' = [copy EXCEPT ![p] = users]
    /\ Goto(p, "edit")
    /\ UNCHANGED <<old, files, nodeLock, legacy, snap, todo, index, minted,
                   faults, history>>

EditAccount(p) == \E u \in Users :
    /\ pc[p] = "edit"
    /\ users' = [copy[p] EXCEPT !.enabled[u] = ~@]
    /\ decided' = [decided EXCEPT ![u] = ~@]
    /\ copy' = [copy EXCEPT ![p] = NoCopy]
    /\ userLock' = NoOne
    /\ Goto(p, "running")
    /\ UNCHANGED <<old, keys, nodes, nodeLock, legacy, snap, todo, index, minted,
                   faults, edits, cut, early, overtaken>>

\* The panel is closed, the service stopped.
Stop(p) ==
    /\ pc[p] = "running"
    /\ Ends(p)
    /\ UNCHANGED <<faults, cut>>

Killed(p) ==
    /\ pc[p] # "off" /\ faults < MaxFaults
    /\ faults' = faults + 1
    /\ Ends(p)
    /\ cut' = (cut \/ (pc[p] = "add" /\ nodes # {} /\ todo[p] # {}))

-----------------------------------------------------------------------------
Nodes(p) == FoundNodes(p) \/ NothingToMigrate(p) \/ NoNodesYet(p)
            \/ LockNodes(p) \/ AddNode(p) \/ AddRefused(p) \/ AllAdded(p)

Selections(p) == LoadIndex(p) \/ UpToDate(p) \/ ReadOldAccounts(p)
                 \/ SaveAccounts(p)

Work(p) == SaveState(p) \/ LockUsers(p) \/ EditAccount(p) \/ Stop(p)

Next == \E p \in Starters : Start(p) \/ Nodes(p) \/ Selections(p) \/ Work(p)
                            \/ Killed(p)

Spec == Init /\ [][Next]_vars

\* A process that has started goes on, and systemd restarts the service
\* (Restart=always).
Fairness == /\ WF_vars(Start(Service))
            /\ \A p \in Starters : WF_vars(Nodes(p)) /\ WF_vars(Selections(p))

FairSpec == Spec /\ Fairness

-----------------------------------------------------------------------------
\* Every variable holds a value of its type.
TypeOK ==
    /\ old \in [enabled: SUBSET Protocols, port: [Protocols -> Ports],
                selected: [Users -> SUBSET Protocols]]
    /\ keys \in BOOLEAN /\ nodes \subseteq Node /\ users \in Accounts
    /\ {nodeLock, userLock} \subseteq Starters \cup {NoOne}
    /\ pc \in [Starters -> PCs]
    /\ legacy \in [Starters -> BOOLEAN]
    /\ snap \in [Starters -> SUBSET Node]
    /\ todo \in [Starters -> SUBSET Protocols]
    /\ index = [p \in Starters |-> index[p]]
    /\ \A p \in Starters : /\ DOMAIN index[p] \subseteq Protocols
                           /\ \A k \in DOMAIN index[p] : index[p][k] \in Ids
    /\ copy \in [Starters -> Accounts]
    /\ decided \in [Users -> BOOLEAN]
    /\ {cut, early, overtaken} \subseteq BOOLEAN
    /\ {minted, faults, edits} \subseteq Nat

\* A protocol never becomes two nodes, whoever upgrades at the same time: the
\* second one loads the first one's nodes under the lock and finds their names
\* taken.
OneNodeEach == \A m, n \in nodes : m.protocol = n.protocol => m = n

\* No account selects a node that is not in the node file.
SelectionsExist ==
    \A u \in Users : users.nodes[u] \subseteq {n.id : n \in nodes}

\* Nothing that was enabled and selected is lost by the upgrade, unless a
\* process was stopped halfway through its nodes or another one read the nodes
\* at that moment.
SelectionsKept ==
    users.version = 2 /\ ~cut /\ ~early =>
        \A u \in Users : \A k \in old.selected[u] \cap old.enabled :
            \E n \in nodes : n.protocol = k /\ n.id \in users.nodes[u]

\* A process that gets past its start never meets an old account file, which
\* user.Load refuses.
AccountsReadable ==
    \A p \in Starters : pc[p] \in {"running", "edit"} => users.version = 2

\* A change of the operator is undone only by a process that read the accounts
\* before another one had upgraded them.
EditsSurvive == ~overtaken => users.enabled = decided

\* The account file is upgraded in the end, if only because the service is
\* started again.
EventuallyUpgraded == <>(users.version = 2)

\* What node.Migrate says of a node file it finds: it is complete.
FoundNodesComplete ==
    faults = 0 => \A p \in Starters :
        pc[p] = "read" => old.enabled \subseteq DOMAIN index[p]

=============================================================================
