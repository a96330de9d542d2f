-------------------------- MODULE NodeStoreProofs --------------------------
(***************************************************************************)
(* Proofs about NodeStore, for any number of panels, nodes, ports, tokens  *)
(* and faults: every variable keeps its type, the node file is what the    *)
(* committed changes amount to, and no two enabled nodes share a port.     *)
(***************************************************************************)
EXTENDS NodeStore, TLAPS

\* A panel is where its task takes it.
TaskFits == \A p \in Procs :
    /\ pc[p] \in {"confirm", "cascade", "deselect"} => task[p].op = "delete"
    /\ pc[p] \in {"nodes", "change"} =>
           task[p].op \in {"add", "port", "toggle", "delete"}
    /\ pc[p] \in {"accounts", "look", "commit"} =>
           task[p].op \in {"select", "account"}

\* What the tasks carry, by what they do.
LEMMA TaskFields ==
    ASSUME NEW t \in Task
    PROVE  /\ t.op \in {"add", "port", "toggle", "delete", "select"} => t.id \in Nodes
           /\ t.op \in {"add", "port"} => t.port \in Ports
           /\ t.op \in {"select", "account"} => t.token \in Tokens
BY DEF Task, Idle

\* An accepted change of a node file gives a node file (Store.Add, Update,
\* Remove).
LEMMA EditedType ==
    ASSUME NEW ns, IsNodeFile(ns), NEW t \in Task, Accepted(ns, t)
    PROVE  IsNodeFile(Edited(ns, t))
<1>1. CASE t.op = "add"
  <2>1. t.id \in Nodes /\ t.port \in Ports
    BY <1>1, TaskFields
  <2>2. Edited(ns, t) = Put(ns, t.id, [enabled |-> TRUE, port |-> t.port])
    BY <1>1 DEF Edited
  <2>3. [enabled |-> TRUE, port |-> t.port] \in Node
    BY <2>1 DEF Node
  <2>4. QED
    BY <2>1, <2>2, <2>3 DEF IsNodeFile, Put
<1>2. CASE t.op = "port"
  <2>1. t.id \in DOMAIN ns /\ t.port \in Ports
    BY <1>2, TaskFields DEF Accepted
  <2>2. Edited(ns, t) = [ns EXCEPT ![t.id].port = t.port]
    BY <1>2 DEF Edited
  <2>3. [ns[t.id] EXCEPT !.port = t.port] \in Node
    BY <2>1 DEF Node, IsNodeFile
  <2>4. QED
    BY <2>1, <2>2, <2>3 DEF IsNodeFile
<1>3. CASE t.op = "toggle"
  <2>1. t.id \in DOMAIN ns
    BY <1>3 DEF Accepted
  <2>2. Edited(ns, t) = [ns EXCEPT ![t.id].enabled = ~@]
    BY <1>3 DEF Edited
  <2>3. \A b \in BOOLEAN : [ns[t.id] EXCEPT !.enabled = b] \in Node
    BY <2>1 DEF Node, IsNodeFile
  <2>4. [ns[t.id] EXCEPT !.enabled = ~@] \in Node
    <3>1. (~ns[t.id].enabled) \in BOOLEAN
      OBVIOUS
    <3>2. QED
      BY <2>3, <3>1, Zenon
  <2>5. QED
    BY <2>1, <2>2, <2>4 DEF IsNodeFile
<1>4. CASE t.op = "delete"
  <2>1. Edited(ns, t) = Drop(ns, t.id)
    BY <1>4 DEF Edited
  <2>2. QED
    BY <2>1 DEF IsNodeFile, Drop
<1>5. QED
  BY <1>1, <1>2, <1>3, <1>4 DEF Accepted

\* Two enabled nodes of a file have different ports.
Apart(ns) == \A m, n \in Enabled(ns) : m # n => ns[m].port # ns[n].port

\* An accepted change keeps the ports apart (Store.Validate).
LEMMA EditedApart ==
    ASSUME NEW ns, IsNodeFile(ns), NEW t \in Task, Accepted(ns, t), Apart(ns)
    PROVE  Apart(Edited(ns, t))
<1> DEFINE es == Edited(ns, t)
<1>1. IsNodeFile(es)
  BY EditedType
<1>2. \A n \in DOMAIN es \ {t.id} : n \in DOMAIN ns /\ es[n] = ns[n]
  <2>1. CASE t.op = "add"
    BY <2>1 DEF Edited, Put
  <2>2. CASE t.op = "port"
    BY <2>2 DEF Edited, IsNodeFile
  <2>3. CASE t.op = "toggle"
    BY <2>3 DEF Edited, IsNodeFile
  <2>4. CASE t.op = "delete"
    BY <2>4 DEF Edited, Drop
  <2>5. QED
    BY <2>1, <2>2, <2>3, <2>4 DEF Accepted
<1>3. t.id \in DOMAIN es => Valid(es, t.id)
  <2>1. CASE t.op = "delete"
    BY <2>1 DEF Edited, Drop
  <2>2. QED
    BY <2>1 DEF Accepted
<1>4. QED
  BY <1>2, <1>3 DEF Apart, Valid, Enabled

\* The document lists listeners and names.
LEMMA DocumentType ==
    ASSUME NEW ns, IsNodeFile(ns), NEW us, NEW out
    PROVE  Document(ns, us, out) \in [listen: SUBSET (Nodes \X Ports),
                                      names: SUBSET Names]
BY DEF Document, IsNodeFile, Node, Enabled

\* Marking the flags gives an account file.
LEMMA FlaggedType ==
    ASSUME NEW us, IsUserFile(us), NEW out
    PROVE  IsUserFile(Flagged(us, out))
<1>1. \A m \in Member : \A b \in BOOLEAN : [m EXCEPT !.applied = b] \in Member
  BY DEF Member
<1>2. \A t \in DOMAIN us : [us[t] EXCEPT !.applied = t \in MayConnect(us, out)] \in Member
  <2> TAKE t \in DOMAIN us
  <2>1. us[t] \in Member
    BY DEF IsUserFile
  <2>2. (t \in MayConnect(us, out)) \in BOOLEAN
    OBVIOUS
  <2>3. QED
    BY <1>1, <2>1, <2>2, Zenon
<1>3. QED
  BY <1>2 DEF IsUserFile, Flagged

\* Changing the selections of accounts gives an account file.
LEMMA SelectionType ==
    ASSUME NEW us, IsUserFile(us)
    PROVE  /\ \A n : IsUserFile([t \in DOMAIN us |->
                         [us[t] EXCEPT !.nodes = @ \ {n}]])
           /\ \A t \in Task : t.op = "select" => IsUserFile(WithSelection(us, t))
           /\ \A t \in Task : \A ns : t.op = "account" /\ IsNodeFile(ns) =>
                  IsUserFile(WithAccount(us, ns, t))
<1>1. \A m \in Member : \A s \in SUBSET Nodes : [m EXCEPT !.nodes = s] \in Member
  BY DEF Member
<1>2. ASSUME NEW n PROVE IsUserFile([t \in DOMAIN us |->
                         [us[t] EXCEPT !.nodes = @ \ {n}]])
  <2>1. \A t \in DOMAIN us : us[t].nodes \ {n} \in SUBSET Nodes
    BY DEF IsUserFile, Member
  <2>2. \A t \in DOMAIN us : [us[t] EXCEPT !.nodes = @ \ {n}] \in Member
    BY <1>1, <2>1 DEF IsUserFile
  <2>3. QED
    BY <2>2 DEF IsUserFile
<1>3. ASSUME NEW t \in Task, t.op = "select" PROVE IsUserFile(WithSelection(us, t))
  <2>1. t.id \in Nodes
    BY <1>3, TaskFields
  <2>2. CASE t.token \in DOMAIN us
    <3>1. us[t.token] \in Member
      BY <2>2 DEF IsUserFile
    <3>2. (us[t.token].nodes \cup {t.id}) \ (us[t.token].nodes \cap {t.id})
             \in SUBSET Nodes
      BY <2>1, <3>1 DEF Member
    <3>3. [us[t.token] EXCEPT !.nodes = (@ \cup {t.id}) \ (@ \cap {t.id})]
             \in Member
      BY <1>1, <3>1, <3>2
    <3>4. QED
      BY <2>2, <3>3 DEF IsUserFile, WithSelection
  <2>3. CASE t.token \notin DOMAIN us
    <3>1. WithSelection(us, t) = us
      BY <2>3 DEF WithSelection, IsUserFile
    <3>2. QED
      BY <3>1
  <2>4. QED
    BY <2>2, <2>3
<1>4. ASSUME NEW t \in Task, NEW ns, t.op = "account", IsNodeFile(ns)
      PROVE  IsUserFile(WithAccount(us, ns, t))
  <2>1. t.token \in Tokens
    BY <1>4, TaskFields
  <2>2. [nodes |-> Enabled(ns), applied |-> FALSE] \in Member
    BY <1>4 DEF Enabled, IsNodeFile, Member
  <2>3. QED
    BY <2>1, <2>2 DEF WithAccount, Put, IsUserFile
<1>5. QED
  BY <1>2, <1>3, <1>4

-----------------------------------------------------------------------------
\* The initial state is well typed.
LEMMA InitType == Init => TypeOK /\ TaskFits
<1> SUFFICES ASSUME Init PROVE TypeOK /\ TaskFits
  OBVIOUS
<1>1. IsNodeFile(nodes)
  BY NodeConstants DEF Init, IsNodeFile, Node
<1>2. IsUserFile(users)
  BY NodeConstants DEF Init, IsUserFile, Member
<1>3. running \in [listen: SUBSET (Nodes \X Ports), names: SUBSET Names]
  BY <1>1, DocumentType DEF Init
<1>4. IsNodeFile(Nothing) /\ IsUserFile(Nothing)
  BY DEF Nothing, IsNodeFile, IsUserFile
<1>5. pc \in [Procs -> PCs] /\ task \in [Procs -> Task]
  BY DEF Init, PCs, Task
<1>6. snap = [p \in Procs |-> snap[p]] /\ copy = [p \in Procs |-> copy[p]]
      /\ \A p \in Procs : IsNodeFile(snap[p]) /\ IsUserFile(copy[p])
  BY <1>4 DEF Init
<1>7. issued \subseteq Nodes
  BY NodeConstants DEF Init
<1>8. /\ barred \subseteq Tokens /\ excused \subseteq Nodes /\ behind \in BOOLEAN
      /\ {edits, faults, flips} \subseteq Nat
      /\ {nodeLock, userLock} \subseteq Procs \cup {NoOne}
      /\ judged \in [Procs -> SUBSET Tokens]
  <2>1. barred \subseteq Tokens /\ excused \subseteq Nodes /\ behind \in BOOLEAN
    BY DEF Init
  <2>2. {edits, faults, flips} \subseteq Nat
    BY DEF Init
  <2>3. {nodeLock, userLock} \subseteq Procs \cup {NoOne}
    BY DEF Init
  <2>4. judged \in [Procs -> SUBSET Tokens]
    BY DEF Init
  <2>5. QED
    BY <2>1, <2>2, <2>3, <2>4
<1>9. TaskFits
  <2>1. \A p \in Procs : pc[p] = "idle"
    BY DEF Init
  <2>2. QED
    BY <2>1 DEF TaskFits
<1>10. QED
  BY <1>1, <1>2, <1>3, <1>5, <1>6, <1>7, <1>8, <1>9 DEF TypeOK

\* A task that begins is well typed and fits its place.
LEMMA BeginType ==
    ASSUME TypeOK, TaskFits, NEW p \in Panels, NEW t \in Task, NEW label \in PCs,
           issued' \subseteq Nodes, Begin(p, t, label),
           label = "confirm" => t.op = "delete",
           label = "nodes" => t.op \in {"add", "port", "toggle", "delete"},
           label = "accounts" => t.op \in {"select", "account"},
           label \in {"confirm", "nodes", "accounts"}
    PROVE  TypeOK' /\ TaskFits'
<1>1. p \in Procs
  BY DEF Procs
<1>2. /\ pc' \in [Procs -> PCs] /\ task' \in [Procs -> Task]
      /\ \A q \in Procs : pc'[q] = IF q = p THEN label ELSE pc[q]
      /\ \A q \in Procs : task'[q] = IF q = p THEN t ELSE task[q]
  BY <1>1 DEF TypeOK, Begin, Goto
<1>3. TypeOK'
  BY <1>2 DEF TypeOK, Begin, files, locks, world
<1>4. TaskFits'
  BY <1>2 DEF TaskFits
<1>5. QED
  BY <1>3, <1>4

\* The beginnings of the panel tasks.
LEMMA StartType ==
    ASSUME TypeOK, TaskFits, NEW p \in Panels,
           NewNode(p) \/ EditNode(p) \/ AskDelete(p) \/ ToggleUserNode(p)
           \/ NewUser(p)
    PROVE  TypeOK' /\ TaskFits'
<1>1. DOMAIN nodes \subseteq Nodes /\ DOMAIN users \subseteq Tokens
      /\ issued \subseteq Nodes
  BY DEF TypeOK, IsNodeFile, IsUserFile
<1>2. CASE NewNode(p)
  <2> PICK n \in Nodes \ issued, q \in Ports :
        /\ Begin(p, [op |-> "add", id |-> n, port |-> q], "nodes")
        /\ issued' = issued \cup {n}
    BY <1>2 DEF NewNode
  <2>1. [op |-> "add", id |-> n, port |-> q] \in Task
    BY DEF Task
  <2>2. QED
    BY <1>1, <2>1, BeginType DEF PCs
<1>3. CASE EditNode(p)
  <2> PICK n \in DOMAIN nodes :
        /\ \/ \E q \in Ports :
                 Begin(p, [op |-> "port", id |-> n, port |-> q], "nodes")
           \/ Begin(p, [op |-> "toggle", id |-> n], "nodes")
        /\ UNCHANGED issued
    BY <1>3 DEF EditNode
  <2>1. [op |-> "toggle", id |-> n] \in Task
        /\ \A q \in Ports : [op |-> "port", id |-> n, port |-> q] \in Task
    BY <1>1 DEF Task
  <2>2. QED
    BY <1>1, <2>1, BeginType DEF PCs
<1>4. CASE AskDelete(p)
  <2> PICK n \in DOMAIN nodes :
        /\ Begin(p, [op |-> "delete", id |-> n,
                     affected |-> SelectedBy(users, n) # {}], "confirm")
        /\ UNCHANGED issued
    BY <1>4 DEF AskDelete
  <2>1. \A b \in BOOLEAN : [op |-> "delete", id |-> n, affected |-> b] \in Task
    BY <1>1 DEF Task
  <2>2. [op |-> "delete", id |-> n, affected |-> SelectedBy(users, n) # {}] \in Task
    <3>1. (SelectedBy(users, n) # {}) \in BOOLEAN
      OBVIOUS
    <3>2. QED
      BY <2>1, <3>1, Zenon
  <2>3. QED
    BY <1>1, <2>2, BeginType DEF PCs
<1>5. CASE ToggleUserNode(p)
  <2> PICK n \in DOMAIN nodes, t \in DOMAIN users :
        /\ Begin(p, [op |-> "select", id |-> n, token |-> t], "accounts")
        /\ UNCHANGED issued
    BY <1>5 DEF ToggleUserNode
  <2>1. [op |-> "select", id |-> n, token |-> t] \in Task
    BY <1>1 DEF Task
  <2>2. QED
    BY <1>1, <2>1, BeginType DEF PCs
<1>6. CASE NewUser(p)
  <2> PICK t \in Tokens \ DOMAIN users :
        /\ Begin(p, [op |-> "account", token |-> t], "accounts")
        /\ UNCHANGED issued
    BY <1>6 DEF NewUser
  <2>1. [op |-> "account", token |-> t] \in Task
    BY DEF Task
  <2>2. QED
    BY <1>1, <2>1, BeginType DEF PCs
<1>7. QED
  BY <1>2, <1>3, <1>4, <1>5, <1>6


\* The steps of the node screens.
LEMMA NodeScreensType ==
    ASSUME TypeOK, TaskFits, NEW p \in Panels, NodeScreens(p)
    PROVE  TypeOK' /\ TaskFits'
<1> p \in Procs
  BY DEF Procs
<1> USE DEF Goto, files, locks, world, bounds, history
<1>1. CASE NewNode(p) \/ EditNode(p) \/ AskDelete(p)
  BY <1>1, StartType
<1>2. CASE Confirm(p)
  <2>1. TypeOK'
    BY <1>2 DEF TypeOK, Confirm, PCs
  <2>2. TaskFits'
    BY <1>2 DEF TypeOK, TaskFits, Confirm
  <2>3. QED
    BY <2>1, <2>2
<1>3. CASE Decline(p)
  <2>1. TypeOK'
    BY <1>3 DEF TypeOK, Decline, PCs, Task
  <2>2. TaskFits'
    BY <1>3 DEF TypeOK, TaskFits, Decline
  <2>3. QED
    BY <2>1, <2>2
<1>4. CASE LockNodes(p)
  <2>1. TypeOK'
    BY <1>4 DEF TypeOK, LockNodes, PCs
  <2>2. TaskFits'
    BY <1>4 DEF TypeOK, TaskFits, LockNodes
  <2>3. QED
    BY <2>1, <2>2
<1>5. CASE ChangeNodes(p)
  <2>1. IsNodeFile(Edited(snap[p], task[p]))
    BY <1>5, EditedType DEF TypeOK, ChangeNodes
  <2>2. TypeOK'
    <3>1. IsNodeFile(Nothing)
      BY DEF Nothing, IsNodeFile
    <3>2. QED
      BY <1>5, <2>1, <3>1 DEF TypeOK, ChangeNodes, PCs
  <2>3. TaskFits'
    BY <1>5 DEF TypeOK, TaskFits, ChangeNodes
  <2>4. QED
    BY <2>2, <2>3
<1>6. CASE RefuseNodes(p)
  <2>1. IsNodeFile(Nothing) /\ Idle \in Task
    BY DEF Nothing, IsNodeFile, Task
  <2>2. TypeOK'
    BY <1>6, <2>1 DEF TypeOK, RefuseNodes, PCs
  <2>3. TaskFits'
    BY <1>6 DEF TypeOK, TaskFits, RefuseNodes
  <2>4. QED
    BY <2>2, <2>3
<1>7. CASE LockCascade(p)
  <2>1. TypeOK'
    BY <1>7 DEF TypeOK, LockCascade, PCs
  <2>2. TaskFits'
    BY <1>7 DEF TypeOK, TaskFits, LockCascade
  <2>3. QED
    BY <2>1, <2>2
<1>8. CASE Cascade(p)
  <2>1. IsUserFile(Nothing)
    BY DEF Nothing, IsUserFile
  <2>2. IsUserFile(users')
    <3>1. IsUserFile(copy[p])
      BY DEF TypeOK
    <3>2. IsUserFile([t \in DOMAIN copy[p] |->
                         [copy[p][t] EXCEPT !.nodes = @ \ {task[p].id}]])
      BY <3>1, SelectionType, Zenon
    <3>3. QED
      BY <1>8, <3>2, Zenon DEF Cascade
  <2>3. TypeOK'
    BY <1>8, <2>1, <2>2 DEF TypeOK, Cascade, PCs
  <2>4. TaskFits'
    BY <1>8 DEF TypeOK, TaskFits, Cascade
  <2>5. QED
    BY <2>3, <2>4
<1>9. QED
  BY <1>1, <1>2, <1>3, <1>4, <1>5, <1>6, <1>7, <1>8 DEF NodeScreens

\* The steps of the account screens.
LEMMA AccountScreensType ==
    ASSUME TypeOK, TaskFits, NEW p \in Panels, AccountScreens(p)
    PROVE  TypeOK' /\ TaskFits'
<1> p \in Procs
  BY DEF Procs
<1> USE DEF Goto, files, locks, world, bounds, history
<1>1. CASE ToggleUserNode(p) \/ NewUser(p)
  BY <1>1, StartType
<1>2. CASE LockUsers(p)
  <2>1. TypeOK'
    BY <1>2 DEF TypeOK, LockUsers, PCs
  <2>2. TaskFits'
    BY <1>2 DEF TypeOK, TaskFits, LockUsers
  <2>3. QED
    BY <2>1, <2>2
<1>3. CASE LookUpNodes(p)
  <2>1. TypeOK'
    BY <1>3 DEF TypeOK, LookUpNodes, PCs
  <2>2. TaskFits'
    BY <1>3 DEF TypeOK, TaskFits, LookUpNodes
  <2>3. QED
    BY <2>1, <2>2
<1>4. CASE CommitUsers(p)
  <2>1. IsNodeFile(Nothing) /\ IsUserFile(Nothing)
    BY DEF Nothing, IsNodeFile, IsUserFile
  <2>2. IsUserFile(users')
    BY <1>4, SelectionType DEF TypeOK, CommitUsers
  <2>3. excused' \subseteq Nodes
    BY <1>4 DEF TypeOK, CommitUsers
  <2>4. TypeOK'
    BY <1>4, <2>1, <2>2, <2>3 DEF TypeOK, CommitUsers, PCs
  <2>5. TaskFits'
    BY <1>4 DEF TypeOK, TaskFits, CommitUsers
  <2>6. QED
    BY <2>4, <2>5
<1>5. CASE RefuseUsers(p)
  <2>1. IsNodeFile(Nothing) /\ IsUserFile(Nothing) /\ Idle \in Task
    BY DEF Nothing, IsNodeFile, IsUserFile, Task
  <2>2. TypeOK'
    BY <1>5, <2>1 DEF TypeOK, RefuseUsers, PCs
  <2>3. TaskFits'
    BY <1>5 DEF TypeOK, TaskFits, RefuseUsers
  <2>4. QED
    BY <2>2, <2>3
<1>6. QED
  BY <1>1, <1>2, <1>3, <1>4, <1>5 DEF AccountScreens

\* The end of a task or a cycle.
LEMMA FinishType ==
    ASSUME TypeOK, TaskFits, NEW p \in Procs, Finish(p), IsUserFile(users')
    PROVE  TypeOK' /\ TaskFits'
<1> USE DEF Goto, locks, world, bounds, history
<1>1. IsNodeFile(Nothing) /\ IsUserFile(Nothing) /\ Idle \in Task
  BY DEF Nothing, IsNodeFile, IsUserFile, Task
<1>2. TypeOK'
  BY <1>1 DEF TypeOK, Finish, PCs
<1>3. TaskFits'
  BY DEF TypeOK, TaskFits, Finish
<1>4. QED
  BY <1>2, <1>3

\* The steps of a deployment.
LEMMA DeploymentType ==
    ASSUME TypeOK, TaskFits, NEW p \in Procs, Deployment(p)
    PROVE  TypeOK' /\ TaskFits'
<1> USE DEF Goto, files, locks, world, bounds, history
<1>1. CASE LoadNodes(p)
  <2>1. TypeOK'
    BY <1>1 DEF TypeOK, LoadNodes, PCs
  <2>2. TaskFits'
    BY <1>1 DEF TypeOK, TaskFits, LoadNodes
  <2>3. QED
    BY <2>1, <2>2
<1>2. CASE LockAccounts(p)
  <2>1. TypeOK'
    BY <1>2 DEF TypeOK, LockAccounts, PCs
  <2>2. TaskFits'
    BY <1>2 DEF TypeOK, TaskFits, LockAccounts
  <2>3. QED
    BY <2>1, <2>2
<1>3. CASE Apply(p)
  <2>1. running' \in [listen: SUBSET (Nodes \X Ports), names: SUBSET Names]
    BY <1>3, DocumentType DEF TypeOK, Apply
  <2>2. IsUserFile(Flagged(copy[p], judged[p]))
    BY FlaggedType DEF TypeOK
  <2>3. behind' \in BOOLEAN
    BY <1>3 DEF Apply
  <2>4. TypeOK'
    BY <1>3, <2>1, <2>2, <2>3 DEF TypeOK, Apply, PCs
  <2>5. TaskFits'
    BY <1>3 DEF TypeOK, TaskFits, Apply
  <2>6. QED
    BY <2>4, <2>5
<1>4. CASE ApplyNothing(p)
  BY <1>4, FinishType DEF ApplyNothing, TypeOK
<1>5. CASE SaveAccounts(p)
  BY <1>5, FinishType DEF SaveAccounts, TypeOK
<1>6. QED
  BY <1>1, <1>2, <1>3, <1>4, <1>5 DEF Deployment

\* The steps of the loop and of the world, and failures.
LEMMA OtherType ==
    ASSUME TypeOK, TaskFits,
           LoopLock \/ LoopSettled \/ LoopNodes \/ Flip
           \/ \E p \in Procs : GiveUp(p)
    PROVE  TypeOK' /\ TaskFits'
<1> Loop \in Procs
  BY DEF Procs
<1> USE DEF Goto, files, locks, world, bounds, history
<1>1. CASE LoopLock
  <2>1. TypeOK'
    BY <1>1 DEF TypeOK, LoopLock, PCs
  <2>2. TaskFits'
    BY <1>1 DEF TypeOK, TaskFits, LoopLock
  <2>3. QED
    BY <2>1, <2>2
<1>2. CASE LoopSettled
  BY <1>2, FinishType DEF LoopSettled, TypeOK
<1>3. CASE LoopNodes
  <2>1. TypeOK'
    BY <1>3 DEF TypeOK, LoopNodes, PCs
  <2>2. TaskFits'
    BY <1>3 DEF TypeOK, TaskFits, LoopNodes
  <2>3. QED
    BY <2>1, <2>2
<1>4. CASE Flip
  <2>1. barred' \subseteq Tokens
    BY <1>4 DEF TypeOK, Flip, IsUserFile
  <2>2. TypeOK'
    BY <1>4, <2>1 DEF TypeOK, Flip, procs
  <2>3. TaskFits'
    BY <1>4 DEF TaskFits, Flip, procs
  <2>4. QED
    BY <2>2, <2>3
<1>5. ASSUME NEW p \in Procs, GiveUp(p) PROVE TypeOK' /\ TaskFits'
  <2>1. IsNodeFile(Nothing) /\ IsUserFile(Nothing) /\ Idle \in Task
    BY DEF Nothing, IsNodeFile, IsUserFile, Task
  <2>2. excused' \subseteq Nodes
    <3>1. CASE pc[p] \in Uncascaded
      <4>1. task[p] \in Task /\ task[p].op = "delete"
        BY <3>1 DEF TypeOK, TaskFits, Uncascaded
      <4>2. task[p].id \in Nodes
        BY <4>1, TaskFields
      <4>3. QED
        BY <1>5, <3>1, <4>2 DEF TypeOK, GiveUp
    <3>2. CASE pc[p] \notin Uncascaded
      BY <1>5, <3>2 DEF TypeOK, GiveUp
    <3>3. QED
      BY <3>1, <3>2
  <2>3. /\ {nodeLock', userLock'} \subseteq Procs \cup {NoOne}
        /\ behind' \in BOOLEAN
    BY <1>5 DEF TypeOK, GiveUp, FreedBy
  <2>4. TypeOK'
    <3>1. IsNodeFile(nodes') /\ IsUserFile(users') /\ barred' \subseteq Tokens
          /\ running' \in [listen: SUBSET (Nodes \X Ports), names: SUBSET Names]
          /\ issued' \subseteq Nodes
      BY <1>5 DEF TypeOK, GiveUp
    <3>2. pc' \in [Procs -> PCs] /\ task' \in [Procs -> Task]
          /\ judged' \in [Procs -> SUBSET Tokens]
      BY <1>5, <2>1 DEF TypeOK, GiveUp, PCs
    <3>3. snap' = [q \in Procs |-> snap'[q]] /\ copy' = [q \in Procs |-> copy'[q]]
          /\ \A q \in Procs : IsNodeFile(snap'[q]) /\ IsUserFile(copy'[q])
      BY <1>5, <2>1 DEF TypeOK, GiveUp
    <3>4. {edits', faults', flips'} \subseteq Nat
      BY <1>5 DEF TypeOK, GiveUp
    <3>5. QED
      BY <2>2, <2>3, <3>1, <3>2, <3>3, <3>4 DEF TypeOK
  <2>5. TaskFits'
    BY <1>5 DEF TypeOK, TaskFits, GiveUp
  <2>6. QED
    BY <2>4, <2>5
<1>6. QED
  BY <1>1, <1>2, <1>3, <1>4, <1>5

\* Every step keeps the types and the fit of the task.
LEMMA StepType == TypeOK /\ TaskFits /\ [Next]_vars => TypeOK' /\ TaskFits'
<1> SUFFICES ASSUME TypeOK, TaskFits, [Next]_vars PROVE TypeOK' /\ TaskFits'
  OBVIOUS
<1>1. CASE UNCHANGED vars
  BY <1>1 DEF vars, files, locks, procs, world, bounds, history, TypeOK, TaskFits
<1>2. CASE Next
  BY <1>2, NodeScreensType, AccountScreensType, DeploymentType, OtherType
  DEF Next
<1>3. QED
  BY <1>1, <1>2

\* Every variable keeps its type.
THEOREM NodeTypeCorrect == Spec => []TypeOK
<1>1. Init => TypeOK /\ TaskFits
  BY InitType
<1>2. QED
  BY <1>1, StepType, PTL DEF Spec


-----------------------------------------------------------------------------
(***************************************************************************)
(* The node file.  What is validated and written is a copy; that it is the *)
(* file itself follows from the lock, so the inductive invariant says so.  *)
(***************************************************************************)

\* Who changes the node file holds its lock, and what it loaded is the file.
NodesHeld == \A p \in Procs :
    pc[p] = "change" => nodeLock = p /\ snap[p] = nodes

NodeInv == NodesHeld /\ NodesAsDecided /\ Apart(nodes)

\* The steps that leave the node file and its lock alone, and bring nobody to
\* a change of it.
LEMMA NodesUntouched ==
    ASSUME NodeInv, nodes' = nodes, nodeLock' = nodeLock, decided' = decided,
           \A q \in Procs : pc'[q] = "change" =>
               pc[q] = "change" /\ snap'[q] = snap[q]
    PROVE  NodeInv'
BY DEF NodeInv, NodesHeld, NodesAsDecided, Apart, Enabled

\* The invariant of the nodes holds at the start,
LEMMA InitNodes == Init => NodeInv
<1> SUFFICES ASSUME Init PROVE NodeInv
  OBVIOUS
<1>1. \A p \in Procs : pc[p] = "idle"
  BY DEF Init
<1>2. Apart(nodes)
  BY NodeConstants DEF Init, Apart, Enabled
<1>3. QED
  BY <1>1, <1>2 DEF NodeInv, NodesHeld, NodesAsDecided, Init

\* every step keeps it,
LEMMA StepNodes == TypeOK /\ NodeInv /\ [Next]_vars => NodeInv'
<1> SUFFICES ASSUME TypeOK, NodeInv, [Next]_vars PROVE NodeInv'
  OBVIOUS
<1> USE DEF Goto, files, locks, world, bounds, history
<1>1. CASE UNCHANGED vars
  BY <1>1, NodesUntouched DEF vars, procs
<1>2. ASSUME NEW p \in Panels, NodeScreens(p) PROVE NodeInv'
  <2> p \in Procs
    BY DEF Procs
  <2>1. CASE NewNode(p) \/ EditNode(p) \/ AskDelete(p)
    BY <2>1, NodesUntouched DEF NewNode, EditNode, AskDelete, Begin, TypeOK
  <2>2. CASE Confirm(p) \/ Decline(p)
    BY <2>2, NodesUntouched DEF Confirm, Decline, TypeOK
  <2>3. CASE LockNodes(p)
    <3>1. \A q \in Procs : pc[q] # "change"
      BY <2>3, NodeConstants DEF LockNodes, NodeInv, NodesHeld
    <3>2. \A q \in Procs : pc'[q] = "change" => q = p
      BY <2>3, <3>1 DEF LockNodes, TypeOK
    <3>3. snap'[p] = nodes /\ nodes' = nodes /\ nodeLock' = p /\ decided' = decided
      BY <2>3 DEF LockNodes, TypeOK
    <3>4. QED
      BY <3>2, <3>3 DEF NodeInv, NodesHeld, NodesAsDecided, Apart, Enabled
  <2>4. CASE ChangeNodes(p)
    <3>1. snap[p] = nodes /\ decided = nodes /\ nodeLock = p
      BY <2>4 DEF ChangeNodes, NodeInv, NodesHeld, NodesAsDecided
    <3>2. nodes' = Edited(nodes, task[p]) /\ decided' = nodes'
      BY <2>4, <3>1 DEF ChangeNodes
    <3>3. Apart(nodes')
      BY <2>4, <3>1, <3>2, EditedApart DEF ChangeNodes, TypeOK, NodeInv
    <3>4. \A q \in Procs : pc'[q] # "change"
      BY <2>4, <3>1 DEF ChangeNodes, TypeOK, NodeInv, NodesHeld
    <3>5. Apart(nodes)'
      BY <3>3 DEF Apart, Enabled
    <3>6. QED
      BY <3>2, <3>4, <3>5 DEF NodeInv, NodesHeld, NodesAsDecided
  <2>5. CASE RefuseNodes(p)
    <3>1. \A q \in Procs : pc'[q] # "change"
      BY <2>5 DEF RefuseNodes, TypeOK, NodeInv, NodesHeld
    <3>2. nodes' = nodes /\ decided' = decided
      BY <2>5 DEF RefuseNodes
    <3>3. QED
      BY <3>1, <3>2 DEF NodeInv, NodesHeld, NodesAsDecided, Apart, Enabled
  <2>6. CASE LockCascade(p) \/ Cascade(p)
    BY <2>6, NodesUntouched DEF LockCascade, Cascade, TypeOK
  <2>7. QED
    BY <1>2, <2>1, <2>2, <2>3, <2>4, <2>5, <2>6 DEF NodeScreens
<1>3. ASSUME NEW p \in Panels, AccountScreens(p) PROVE NodeInv'
  <2> p \in Procs
    BY DEF Procs
  <2>1. CASE ToggleUserNode(p) \/ NewUser(p)
    BY <2>1, NodesUntouched DEF ToggleUserNode, NewUser, Begin, TypeOK
  <2>2. CASE LockUsers(p) \/ LookUpNodes(p)
    BY <2>2, NodesUntouched DEF LockUsers, LookUpNodes, TypeOK
  <2>3. CASE CommitUsers(p) \/ RefuseUsers(p)
    BY <2>3, NodesUntouched DEF CommitUsers, RefuseUsers, TypeOK
  <2>4. QED
    BY <1>3, <2>1, <2>2, <2>3 DEF AccountScreens
<1>4. ASSUME NEW p \in Procs, Deployment(p) PROVE NodeInv'
  <2>1. CASE LoadNodes(p) \/ LockAccounts(p) \/ Apply(p)
    BY <2>1, NodesUntouched DEF LoadNodes, LockAccounts, Apply, TypeOK
  <2>2. CASE ApplyNothing(p) \/ SaveAccounts(p)
    BY <2>2, NodesUntouched DEF ApplyNothing, SaveAccounts, Finish, TypeOK
  <2>3. QED
    BY <1>4, <2>1, <2>2 DEF Deployment
<1>5. CASE LoopLock \/ LoopSettled \/ LoopNodes
  <2> Loop \in Procs
    BY DEF Procs
  <2>1. QED
    BY <1>5, NodesUntouched DEF LoopLock, LoopSettled, LoopNodes, Finish, TypeOK
<1>6. CASE Flip
  BY <1>6, NodesUntouched DEF Flip, procs
<1>7. ASSUME NEW p \in Procs, GiveUp(p) PROVE NodeInv'
  <2>1. nodes' = nodes /\ decided' = decided
    BY <1>7 DEF GiveUp
  <2>2. \A q \in Procs : pc'[q] = "change" =>
            q # p /\ pc[q] = "change" /\ snap'[q] = snap[q]
    BY <1>7 DEF GiveUp, TypeOK
  <2>3. \A q \in Procs : q # p /\ nodeLock = q => nodeLock' = q
    BY <1>7 DEF GiveUp, FreedBy
  <2>4. QED
    BY <2>1, <2>2, <2>3 DEF NodeInv, NodesHeld, NodesAsDecided, Apart, Enabled
<1>8. QED
  BY <1>1, <1>2, <1>3, <1>4, <1>5, <1>6, <1>7 DEF Next

\* and so it holds always.
LEMMA NodeInvAlways == Spec => [](TypeOK /\ NodeInv)
<1>1. Init => TypeOK /\ TaskFits /\ NodeInv
  BY InitType, InitNodes
<1>2. (TypeOK /\ TaskFits /\ NodeInv) /\ [Next]_vars
          => (TypeOK /\ TaskFits /\ NodeInv)'
  BY StepType, StepNodes
<1>3. QED
  BY <1>1, <1>2, PTL DEF Spec

\* No panel writes back a node file it read before another panel's change
\* (node.Locked).
THEOREM NodeFileIsDecided == Spec => []NodesAsDecided
<1>1. NodeInv => NodesAsDecided
  BY DEF NodeInv
<1>2. QED
  BY <1>1, NodeInvAlways, PTL

\* Two enabled nodes never share a port (Store.Validate).
THEOREM PortsNeverShared == Spec => []PortsDistinct
<1>1. NodeInv => PortsDistinct
  BY DEF NodeInv, Apart, PortsDistinct
<1>2. QED
  BY <1>1, NodeInvAlways, PTL


-----------------------------------------------------------------------------
(***************************************************************************)
(* The account lock.  Whoever is between its load and its save holds the   *)
(* lock, and its copy selects what the file selects.                       *)
(***************************************************************************)
UserHolding == {"deselect", "look", "commit", "check", "apply", "save"}

SameSelections(us, vs) ==
    DOMAIN us = DOMAIN vs /\ \A t \in DOMAIN us : us[t].nodes = vs[t].nodes

UsersHeld == \A p \in Procs : pc[p] \in UserHolding => userLock = p

CopiesFit == \A p \in Procs :
    pc[p] \in UserHolding => SameSelections(copy[p], users)

LoopPlace == pc[Loop] \in {"idle", "check", "apply", "save"}

UserInv == UsersHeld /\ CopiesFit /\ LoopPlace

\* A step that neither takes nor releases the lock.
LEMMA LockKept ==
    ASSUME UserInv, users' = users, userLock' = userLock,
           \A q \in Procs : pc'[q] \in UserHolding =>
               /\ pc[q] \in UserHolding
               /\ copy'[q] = copy[q] \/ SameSelections(copy'[q], copy[q]),
           LoopPlace'
    PROVE  UserInv'
BY DEF UserInv, UsersHeld, CopiesFit, SameSelections

\* A step of p that takes the lock.
LEMMA LockTaken ==
    ASSUME UserInv, NEW p \in Procs, userLock = NoOne, userLock' = p,
           users' = users, copy'[p] = users,
           \A q \in Procs : q # p => pc'[q] = pc[q] \/ pc'[q] = "idle",
           LoopPlace'
    PROVE  UserInv'
<1>1. \A q \in Procs : pc[q] \notin UserHolding
  BY NodeConstants DEF UserInv, UsersHeld
<1>2. \A q \in Procs : pc'[q] \in UserHolding => q = p
  BY <1>1 DEF UserHolding
<1>3. QED
  BY <1>2 DEF UserInv, UsersHeld, CopiesFit, SameSelections

\* A step of p, which held the lock, that releases it.
LEMMA LockReleased ==
    ASSUME UserInv, NEW p \in Procs, pc[p] \in UserHolding,
           pc'[p] \notin UserHolding,
           \A q \in Procs : q # p => pc'[q] = pc[q],
           LoopPlace'
    PROVE  UserInv'
<1>1. \A q \in Procs : q # p => pc[q] \notin UserHolding
  BY DEF UserInv, UsersHeld
<1>2. \A q \in Procs : pc'[q] \notin UserHolding
  BY <1>1
<1>3. QED
  BY <1>2 DEF UserInv, UsersHeld, CopiesFit

\* The invariant of the users holds at the start,
LEMMA InitUsers == Init => UserInv
<1> SUFFICES ASSUME Init PROVE UserInv
  OBVIOUS
<1>1. \A p \in Procs : pc[p] = "idle"
  BY DEF Init
<1>2. QED
  BY <1>1 DEF UserInv, UsersHeld, CopiesFit, LoopPlace, UserHolding, Procs

\* Marking the flags changes no selection.
LEMMA FlaggedSelections ==
    ASSUME NEW us, IsUserFile(us), NEW out
    PROVE  SameSelections(Flagged(us, out), us)
<1>1. \A m \in Member : \A b : [m EXCEPT !.applied = b].nodes = m.nodes
  BY DEF Member
<1>2. \A t \in DOMAIN us : us[t] \in Member
  BY DEF IsUserFile
<1>3. DOMAIN Flagged(us, out) = DOMAIN us
  BY DEF Flagged
<1>4. \A t \in DOMAIN us : Flagged(us, out)[t].nodes = us[t].nodes
  <2> TAKE t \in DOMAIN us
  <2>1. Flagged(us, out)[t] = [us[t] EXCEPT !.applied = t \in MayConnect(us, out)]
    BY Zenon DEF Flagged
  <2>2. QED
    BY <1>1, <1>2, <2>1, Zenon
<1>5. QED
  BY <1>3, <1>4 DEF SameSelections

\* and every step keeps it.
LEMMA StepUsers == TypeOK /\ UserInv /\ [Next]_vars => UserInv'
<1> SUFFICES ASSUME TypeOK, UserInv, [Next]_vars PROVE UserInv'
  OBVIOUS
<1> USE DEF Goto, files, locks, world, bounds, history
<1>1. CASE UNCHANGED vars
  BY <1>1, LockKept DEF vars, procs, UserInv, LoopPlace
<1>2. ASSUME NEW p \in Panels, NodeScreens(p) PROVE UserInv'
  <2>1. p \in Procs /\ p # Loop /\ Loop \in Procs
    BY NodeConstants DEF Procs
  <2>2. CASE NewNode(p) \/ EditNode(p) \/ AskDelete(p)
    BY <2>1, <2>2, LockKept
    DEF NewNode, EditNode, AskDelete, Begin, TypeOK, UserHolding, UserInv, LoopPlace
  <2>3. CASE Confirm(p) \/ Decline(p)
    BY <2>1, <2>3, LockKept
    DEF Confirm, Decline, TypeOK, UserHolding, UserInv, LoopPlace
  <2>4. CASE LockNodes(p) \/ ChangeNodes(p) \/ RefuseNodes(p)
    BY <2>1, <2>4, LockKept
    DEF LockNodes, ChangeNodes, RefuseNodes, TypeOK, UserHolding, UserInv, LoopPlace
  <2>5. CASE LockCascade(p)
    BY <2>1, <2>5, LockTaken DEF LockCascade, TypeOK, UserInv, LoopPlace
  <2>6. CASE Cascade(p)
    BY <2>1, <2>6, LockReleased
    DEF Cascade, TypeOK, UserHolding, UserInv, LoopPlace
  <2>7. QED
    BY <1>2, <2>2, <2>3, <2>4, <2>5, <2>6 DEF NodeScreens
<1>3. ASSUME NEW p \in Panels, AccountScreens(p) PROVE UserInv'
  <2>1. p \in Procs /\ p # Loop /\ Loop \in Procs
    BY NodeConstants DEF Procs
  <2>2. CASE ToggleUserNode(p) \/ NewUser(p)
    BY <2>1, <2>2, LockKept
    DEF ToggleUserNode, NewUser, Begin, TypeOK, UserHolding, UserInv, LoopPlace
  <2>3. CASE LockUsers(p)
    BY <2>1, <2>3, LockTaken DEF LockUsers, TypeOK, UserInv, LoopPlace
  <2>4. CASE LookUpNodes(p)
    BY <2>1, <2>4, LockKept
    DEF LookUpNodes, TypeOK, UserHolding, UserInv, LoopPlace
  <2>5. CASE CommitUsers(p) \/ RefuseUsers(p)
    BY <2>1, <2>5, LockReleased
    DEF CommitUsers, RefuseUsers, TypeOK, UserHolding, UserInv, LoopPlace
  <2>6. QED
    BY <1>3, <2>2, <2>3, <2>4, <2>5 DEF AccountScreens
<1>4. ASSUME NEW p \in Procs, Deployment(p) PROVE UserInv'
  <2> Loop \in Procs
    BY DEF Procs
  <2>1. CASE LoadNodes(p)
    BY <2>1, LockKept DEF LoadNodes, TypeOK, UserHolding, UserInv, LoopPlace
  <2>2. CASE LockAccounts(p)
    BY <2>2, LockTaken DEF LockAccounts, TypeOK, UserInv, LoopPlace
  <2>3. CASE Apply(p)
    <3>1. SameSelections(copy'[p], copy[p])
      BY <2>3, FlaggedSelections DEF Apply, TypeOK
    <3>2. QED
      BY <2>3, <3>1, LockKept DEF Apply, TypeOK, UserHolding, UserInv, LoopPlace
  <2>4. CASE ApplyNothing(p) \/ SaveAccounts(p)
    BY <2>4, LockReleased
    DEF ApplyNothing, SaveAccounts, Finish, TypeOK, UserHolding, UserInv, LoopPlace
  <2>5. QED
    BY <1>4, <2>1, <2>2, <2>3, <2>4 DEF Deployment
<1>5. CASE LoopLock \/ LoopSettled \/ LoopNodes
  <2> Loop \in Procs
    BY DEF Procs
  <2>1. CASE LoopLock
    BY <2>1, LockTaken DEF LoopLock, TypeOK, UserInv, LoopPlace
  <2>2. CASE LoopSettled
    BY <2>2, LockReleased
    DEF LoopSettled, Finish, TypeOK, UserHolding, UserInv, LoopPlace
  <2>3. CASE LoopNodes
    BY <2>3, LockKept DEF LoopNodes, TypeOK, UserHolding, UserInv, LoopPlace
  <2>4. QED
    BY <1>5, <2>1, <2>2, <2>3
<1>6. CASE Flip
  BY <1>6, LockKept DEF Flip, procs, UserInv, LoopPlace
<1>7. ASSUME NEW p \in Procs, GiveUp(p) PROVE UserInv'
  <2> Loop \in Procs
    BY DEF Procs
  <2>1. users' = users
        /\ \A q \in Procs : pc'[q] \in UserHolding =>
               q # p /\ pc[q] \in UserHolding /\ copy'[q] = copy[q]
    BY <1>7 DEF GiveUp, TypeOK, UserHolding
  <2>2. \A q \in Procs : q # p /\ userLock = q => userLock' = q
    BY <1>7 DEF GiveUp, FreedBy
  <2>3. LoopPlace'
    BY <1>7 DEF GiveUp, TypeOK, UserInv, LoopPlace
  <2>4. QED
    BY <2>1, <2>2, <2>3 DEF UserInv, UsersHeld, CopiesFit, SameSelections
<1>8. QED
  BY <1>1, <1>2, <1>3, <1>4, <1>5, <1>6, <1>7 DEF Next


-----------------------------------------------------------------------------
(***************************************************************************)
(* The cascade.  A selection of a node that is gone is excused or about to *)
(* be removed; and a delete that will not cascade has nothing to remove.   *)
(***************************************************************************)

\* A panel that removed n and has yet to take it out of the accounts.
Cascading(n) == \E q \in Panels : pc[q] \in Uncascaded /\ task[q].id = n

SelectedSomewhere == UNION {users[t].nodes : t \in DOMAIN users}

DanglingCovered ==
    \A n \in SelectedSomewhere : n \in DOMAIN nodes \/ n \in excused \/ Cascading(n)

NothingToCascade ==
    \A q \in Panels :
        /\ pc[q] \in {"confirm", "nodes", "change"}
        /\ task[q].op = "delete" /\ ~task[q].affected
        => task[q].id \notin SelectedSomewhere \/ task[q].id \in excused

CascadeInv == DanglingCovered /\ NothingToCascade

\* A step that selects nothing new, removes no node, and lets no cascade go.
LEMMA CascadeUntouched ==
    ASSUME CascadeInv, SelectedSomewhere' \subseteq SelectedSomewhere,
           DOMAIN nodes \subseteq DOMAIN nodes', excused \subseteq excused',
           \A q \in Panels : pc[q] \in Uncascaded =>
               \/ pc'[q] \in Uncascaded /\ task'[q] = task[q]
               \/ task[q].id \in excused' \/ task[q].id \notin SelectedSomewhere',
           \A q \in Panels : pc'[q] \in {"confirm", "nodes", "change"} =>
               \/ task'[q].op # "delete"
               \/ /\ pc[q] \in {"confirm", "nodes", "change"}
                  /\ task'[q] = task[q]
    PROVE  CascadeInv'
<1>1. DanglingCovered'
  BY DEF CascadeInv, DanglingCovered, Cascading
<1>2. NothingToCascade'
  BY DEF CascadeInv, NothingToCascade
<1>3. QED
  BY <1>1, <1>2 DEF CascadeInv

\* The invariant of the cascade holds at the start,
LEMMA InitCascade == Init => CascadeInv
<1> SUFFICES ASSUME Init PROVE CascadeInv
  OBVIOUS
<1>1. SelectedSomewhere \subseteq DOMAIN nodes
  BY DEF Init, SelectedSomewhere
<1>2. \A q \in Panels : pc[q] = "idle"
  BY DEF Init, Procs
<1>3. QED
  BY <1>1, <1>2 DEF CascadeInv, DanglingCovered, NothingToCascade

\* The file selects what the copy it is written from selects.
LEMMA SameSelected ==
    ASSUME NEW us, NEW vs, SameSelections(us, vs)
    PROVE  UNION {us[t].nodes : t \in DOMAIN us} = UNION {vs[t].nodes : t \in DOMAIN vs}
BY DEF SameSelections

\* every step keeps it,
LEMMA StepCascade ==
    TypeOK /\ TaskFits /\ NodeInv /\ UserInv /\ CascadeInv /\ [Next]_vars => CascadeInv'
<1> SUFFICES ASSUME TypeOK, TaskFits, NodeInv, UserInv, CascadeInv, [Next]_vars
             PROVE  CascadeInv'
  OBVIOUS
<1> USE DEF Goto, files, locks, world, bounds, history
<1>1. CASE UNCHANGED vars
  BY <1>1, CascadeUntouched DEF vars, procs, SelectedSomewhere
<1>2. ASSUME NEW p \in Panels, NodeScreens(p) PROVE CascadeInv'
  <2> p \in Procs /\ \A q \in Panels : q \in Procs
    BY DEF Procs
  <2>1. CASE NewNode(p) \/ EditNode(p)
    BY <2>1, CascadeUntouched
    DEF NewNode, EditNode, Begin, TypeOK, Uncascaded, SelectedSomewhere
  <2>2. CASE AskDelete(p)
    <3> PICK n \in DOMAIN nodes :
          Begin(p, [op |-> "delete", id |-> n,
                    affected |-> SelectedBy(users, n) # {}], "confirm")
      BY <2>2 DEF AskDelete
    <3>1. task'[p].id = n /\ task'[p].affected = (SelectedBy(users, n) # {})
      BY DEF Begin, TypeOK
    <3>2. ~task'[p].affected => n \notin SelectedSomewhere
      BY <3>1 DEF SelectedBy, SelectedSomewhere
    <3>3. /\ users' = users /\ nodes' = nodes /\ excused' = excused
          /\ pc[p] = "idle"
          /\ \A q \in Panels : q # p => pc'[q] = pc[q] /\ task'[q] = task[q]
      BY DEF Begin, TypeOK
    <3>4. DanglingCovered'
      BY <3>3 DEF CascadeInv, DanglingCovered, Cascading, SelectedSomewhere, Uncascaded
    <3>5. NothingToCascade'
      BY <3>1, <3>2, <3>3 DEF CascadeInv, NothingToCascade, SelectedSomewhere
    <3>6. QED
      BY <3>4, <3>5 DEF CascadeInv
  <2>3. CASE Confirm(p) \/ Decline(p)
    BY <2>3, CascadeUntouched
    DEF Confirm, Decline, TypeOK, Uncascaded, SelectedSomewhere, Idle
  <2>4. CASE LockNodes(p)
    BY <2>4, CascadeUntouched DEF LockNodes, TypeOK, Uncascaded, SelectedSomewhere
  <2>5. CASE ChangeNodes(p)
    <3>1. /\ pc[p] = "change" /\ snap[p] = nodes /\ Accepted(nodes, task[p])
          /\ nodes' = Edited(nodes, task[p])
          /\ users' = users /\ excused' = excused /\ task' = task
          /\ \A q \in Panels : q # p => pc'[q] = pc[q]
          /\ pc'[p] = IF task[p].op = "delete" /\ task[p].affected
                      THEN "cascade" ELSE "deploy"
      BY <2>5 DEF ChangeNodes, NodeInv, NodesHeld, TypeOK
    <3>2. NothingToCascade'
      BY <3>1 DEF CascadeInv, NothingToCascade, SelectedSomewhere
    <3>3. \A n \in DOMAIN nodes : \/ n \in DOMAIN nodes'
                                  \/ task[p].op = "delete" /\ n = task[p].id
      BY <3>1 DEF Accepted, Edited, Put, Drop
    <3>4. ASSUME NEW n \in SelectedSomewhere'
          PROVE  n \in DOMAIN nodes' \/ n \in excused' \/ Cascading(n)'
      <4>1. n \in SelectedSomewhere
        BY <3>1 DEF SelectedSomewhere
      <4>2. CASE Cascading(n)
        BY <3>1, <4>2 DEF Cascading, Uncascaded
      <4>3. CASE n \in excused
        BY <3>1, <4>3
      <4>4. CASE n \in DOMAIN nodes
        <5>1. CASE n \in DOMAIN nodes'
          BY <5>1
        <5>2. CASE task[p].op = "delete" /\ n = task[p].id /\ task[p].affected
          BY <3>1, <5>2 DEF Cascading, Uncascaded
        <5>3. CASE task[p].op = "delete" /\ n = task[p].id /\ ~task[p].affected
          BY <3>1, <4>1, <5>3 DEF CascadeInv, NothingToCascade
        <5>4. QED
          BY <3>3, <4>4, <5>1, <5>2, <5>3
      <4>5. QED
        BY <4>1, <4>2, <4>3, <4>4 DEF CascadeInv, DanglingCovered
    <3>5. QED
      BY <3>2, <3>4 DEF CascadeInv, DanglingCovered
  <2>6. CASE RefuseNodes(p)
    BY <2>6, CascadeUntouched
    DEF RefuseNodes, TypeOK, Uncascaded, SelectedSomewhere
  <2>7. CASE LockCascade(p)
    BY <2>7, CascadeUntouched DEF LockCascade, TypeOK, Uncascaded, SelectedSomewhere
  <2>8. CASE Cascade(p)
    <3>1. SameSelections(copy[p], users) /\ IsUserFile(copy[p])
      BY <2>8 DEF Cascade, UserInv, CopiesFit, UserHolding, TypeOK
    <3>2. DOMAIN users' = DOMAIN users
          /\ \A t \in DOMAIN users : users'[t].nodes = users[t].nodes \ {task[p].id}
      BY <2>8, <3>1 DEF Cascade, SameSelections, IsUserFile, Member
    <3>3. SelectedSomewhere' = SelectedSomewhere \ {task[p].id}
      BY <3>2 DEF SelectedSomewhere
    <3>4. /\ nodes' = nodes /\ excused' = excused /\ task' = task
          /\ pc'[p] = "deploy" /\ \A q \in Panels : q # p => pc'[q] = pc[q]
      BY <2>8 DEF Cascade, TypeOK
    <3>5. QED
      BY <3>3, <3>4, CascadeUntouched DEF Uncascaded
  <2>9. QED
    BY <1>2, <2>1, <2>2, <2>3, <2>4, <2>5, <2>6, <2>7, <2>8 DEF NodeScreens
<1>3. ASSUME NEW p \in Panels, AccountScreens(p) PROVE CascadeInv'
  <2> p \in Procs /\ \A q \in Panels : q \in Procs
    BY DEF Procs
  <2>1. CASE ToggleUserNode(p) \/ NewUser(p)
    BY <2>1, CascadeUntouched
    DEF ToggleUserNode, NewUser, Begin, TypeOK, Uncascaded, SelectedSomewhere
  <2>2. CASE LockUsers(p) \/ LookUpNodes(p)
    BY <2>2, CascadeUntouched
    DEF LockUsers, LookUpNodes, TypeOK, Uncascaded, SelectedSomewhere
  <2>3. CASE CommitUsers(p)
    <3>1. /\ nodes' = nodes /\ task' = task /\ excused \subseteq excused'
          /\ pc[p] = "commit" /\ pc'[p] = "deploy"
          /\ \A q \in Panels : q # p => pc'[q] = pc[q]
      BY <2>3 DEF CommitUsers, TypeOK
    <3>2. IsUserFile(users')
      BY <2>3, SelectionType DEF TypeOK, CommitUsers
    <3>3. ASSUME NEW n \in SelectedSomewhere', n \notin SelectedSomewhere,
                 n \notin DOMAIN nodes \/ Deleting(n)
          PROVE  n \in excused'
      <4>1. n \in Nodes
        BY <3>2, <3>3 DEF SelectedSomewhere, IsUserFile, Member
      <4>2. SelectedBy(users', n) \ SelectedBy(users, n) # {}
        BY <3>3 DEF SelectedSomewhere, SelectedBy
      <4>3. QED
        BY <2>3, <3>3, <4>1, <4>2 DEF CommitUsers
    <3>4. DanglingCovered'
      BY <3>1, <3>3 DEF CascadeInv, DanglingCovered, Cascading, Uncascaded
    <3>5. NothingToCascade'
      BY <3>1, <3>3 DEF CascadeInv, NothingToCascade, Deleting
    <3>6. QED
      BY <3>4, <3>5 DEF CascadeInv
  <2>4. CASE RefuseUsers(p)
    BY <2>4, CascadeUntouched
    DEF RefuseUsers, TypeOK, Uncascaded, SelectedSomewhere
  <2>5. QED
    BY <1>3, <2>1, <2>2, <2>3, <2>4 DEF AccountScreens
<1>4. ASSUME NEW p \in Procs, Deployment(p) PROVE CascadeInv'
  <2> \A q \in Panels : q \in Procs
    BY DEF Procs
  <2>1. CASE LoadNodes(p) \/ LockAccounts(p) \/ Apply(p)
    BY <2>1, CascadeUntouched
    DEF LoadNodes, LockAccounts, Apply, TypeOK, Uncascaded, SelectedSomewhere
  <2>2. CASE ApplyNothing(p)
    BY <2>2, CascadeUntouched
    DEF ApplyNothing, Finish, TypeOK, Uncascaded, SelectedSomewhere
  <2>3. CASE SaveAccounts(p)
    <3>1. SameSelections(users', users)
      BY <2>3 DEF SaveAccounts, UserInv, CopiesFit, UserHolding
    <3>2. SelectedSomewhere' = SelectedSomewhere
      BY <3>1, SameSelected DEF SelectedSomewhere
    <3>3. QED
      BY <2>3, <3>2, CascadeUntouched DEF SaveAccounts, Finish, TypeOK, Uncascaded
  <2>4. QED
    BY <1>4, <2>1, <2>2, <2>3 DEF Deployment
<1>5. CASE LoopLock \/ LoopSettled \/ LoopNodes
  <2> \A q \in Panels : q \in Procs /\ q # Loop
    BY NodeConstants DEF Procs
  <2>1. QED
    BY <1>5, CascadeUntouched
    DEF LoopLock, LoopSettled, LoopNodes, Finish, TypeOK, Uncascaded, SelectedSomewhere
<1>6. CASE Flip
  BY <1>6, CascadeUntouched DEF Flip, procs, SelectedSomewhere
<1>7. ASSUME NEW p \in Procs, GiveUp(p) PROVE CascadeInv'
  <2>1. /\ nodes' = nodes /\ users' = users
        /\ excused' = IF pc[p] \in Uncascaded THEN excused \cup {task[p].id} ELSE excused
        /\ pc'[p] = "idle"
        /\ \A q \in Panels : q # p => pc'[q] = pc[q] /\ task'[q] = task[q]
    BY <1>7 DEF GiveUp, TypeOK, Procs
  <2>2. QED
    BY <2>1, CascadeUntouched DEF SelectedSomewhere
<1>8. QED
  BY <1>1, <1>2, <1>3, <1>4, <1>5, <1>6, <1>7 DEF Next

\* and so it holds always.
LEMMA CascadeInvAlways == Spec => [](TypeOK /\ NodeInv /\ UserInv /\ CascadeInv)
<1>1. Init => TypeOK /\ TaskFits /\ NodeInv /\ UserInv /\ CascadeInv
  BY InitType, InitNodes, InitUsers, InitCascade
<1>2. (TypeOK /\ TaskFits /\ NodeInv /\ UserInv /\ CascadeInv) /\ [Next]_vars
          => (TypeOK /\ TaskFits /\ NodeInv /\ UserInv /\ CascadeInv)'
  BY StepType, StepNodes, StepUsers, StepCascade
<1>3. QED
  BY <1>1, <1>2, PTL DEF Spec

\* An account keeps selecting a deleted node only if the cascade was cut short
\* or the selection was made while the node was being deleted (deleteNode).
THEOREM DanglingAlwaysExcused == Spec => []DanglingIsExcused
<1>1. CascadeInv => DanglingIsExcused
  <2>1. Quiet => \A n : ~Cascading(n)
    BY DEF Quiet, Cascading, Uncascaded
  <2>2. Dangling = SelectedSomewhere \ DOMAIN nodes
    BY DEF Dangling, SelectedSomewhere
  <2>3. QED
    BY <2>1, <2>2 DEF CascadeInv, DanglingCovered, DanglingIsExcused
<1>2. QED
  BY <1>1, CascadeInvAlways, PTL


-----------------------------------------------------------------------------
(***************************************************************************)
(* The core.  What it runs is recorded in the files by the flags, so the   *)
(* invariant compares it with the document the flags stand for, as soon as *)
(* no panel has a deployment ahead of it that will change it.              *)
(***************************************************************************)

\* The document of the flagged accounts.
Recorded(ns, us) ==
    [listen |-> {<<n, ns[n].port>> : n \in Enabled(ns)},
     names  |-> {name \in Names : /\ name[1] \in DOMAIN us
                                  /\ us[name[1]].applied
                                  /\ name[2] \in us[name[1]].nodes
                                  /\ name[2] \in Enabled(ns)}]

\* A panel whose task has yet to install what it committed.  A deployment that
\* found no enabled node installs nothing; if there is one now, whoever enabled
\* it deploys.
Ahead(q) ==
    \/ pc[q] \in {"cascade", "deselect", "deploy", "save"}
    \/ pc[q] \in {"queued", "apply"}
          /\ (Enabled(snap[q]) # {} \/ Enabled(nodes) = {})

\* Between an installation and the save the flags are in the copy.
SavedFits == \A p \in Procs :
    /\ pc[p] = "save" /\ ~behind /\ Enabled(nodes) # {}
    /\ \A q \in Panels \ {p} : ~Ahead(q)
    => running = Recorded(nodes, copy[p])

RunningFits ==
    /\ ~behind /\ Enabled(nodes) # {}
    /\ pc[Loop] # "save" /\ \A q \in Panels : ~Ahead(q)
    => running = Recorded(nodes, users)

CoreInv == SavedFits /\ RunningFits

\* The flags of a copy stand for who may connect.
LEMMA FlaggedRecorded ==
    ASSUME NEW ns, NEW us, IsUserFile(us), NEW out
    PROVE  Document(ns, us, out) = Recorded(ns, Flagged(us, out))
<1>1. \A t \in DOMAIN us : Flagged(us, out)[t].applied = (t \in MayConnect(us, out))
  <2>1. \A m \in Member : \A b \in BOOLEAN : [m EXCEPT !.applied = b].applied = b
    BY DEF Member
  <2> TAKE t \in DOMAIN us
  <2>2. us[t] \in Member /\ (t \in MayConnect(us, out)) \in BOOLEAN
    BY DEF IsUserFile
  <2>3. Flagged(us, out)[t] = [us[t] EXCEPT !.applied = t \in MayConnect(us, out)]
    BY Zenon DEF Flagged
  <2>4. QED
    BY <2>1, <2>2, <2>3, Zenon
<1>2. SameSelections(Flagged(us, out), us)
  BY FlaggedSelections
<1>3. MayConnect(us, out) \subseteq DOMAIN us
  BY DEF MayConnect
<1>4. QED
  BY <1>1, <1>2, <1>3 DEF Document, Recorded, SameSelections

\* If no flag disagrees with who may connect, the flags stand for them.
LEMMA SettledRecorded ==
    ASSUME NEW ns, NEW us, NEW out, ~Changed(us, out)
    PROVE  Document(ns, us, out) = Recorded(ns, us)
<1>1. \A t \in DOMAIN us : us[t].applied = (t \in MayConnect(us, out))
  BY Zenon DEF Changed
<1>2. MayConnect(us, out) \subseteq DOMAIN us
  BY DEF MayConnect
<1>3. QED
  BY <1>1, <1>2 DEF Document, Recorded

\* A step that changes nothing the invariant speaks about, but may put a panel
\* ahead or leave the last deployment behind.
LEMMA CoreUntouched ==
    ASSUME CoreInv, nodes' = nodes, users' = users, running' = running,
           behind => behind',
           ~behind' => \A q \in Panels : Ahead(q) => Ahead(q)',
           ~behind' => (pc[Loop] = "save" => pc'[Loop] = "save"),
           \A q \in Procs : pc'[q] = "save" => pc[q] = "save" /\ copy'[q] = copy[q]
    PROVE  CoreInv'
BY DEF CoreInv, SavedFits, RunningFits, Enabled, Recorded

\* A step of p that leaves files, core and flags alone, and p no less ahead.
LEMMA CoreStepOf ==
    ASSUME CoreInv, NEW p \in Procs, Panels \subseteq Procs, Loop \in Procs,
           nodes' = nodes, users' = users, running' = running, behind' = behind,
           \A q \in Procs : q # p => /\ pc'[q] = pc[q] /\ snap'[q] = snap[q]
                                    /\ copy'[q] = copy[q],
           pc[p] \notin {"save", "cascade", "deselect", "deploy", "queued", "apply"},
           pc'[p] # "save"
    PROVE  CoreInv'
<1>1. \A q \in Panels : Ahead(q) => Ahead(q)'
  BY DEF Ahead, Enabled
<1>2. pc[Loop] = "save" => pc'[Loop] = "save"
  OBVIOUS
<1>3. \A q \in Procs : pc'[q] = "save" => pc[q] = "save" /\ copy'[q] = copy[q]
  OBVIOUS
<1>4. QED
  BY <1>1, <1>2, <1>3, CoreUntouched

\* A step after which a panel other than the one that saves is ahead.
LEMMA CoreAhead ==
    ASSUME NEW p \in Panels, Ahead(p)', pc'[p] # "save"
    PROVE  CoreInv'
BY DEF CoreInv, SavedFits, RunningFits

\* The invariant of the core holds at the start,
LEMMA InitCore == Init => CoreInv
<1> SUFFICES ASSUME Init PROVE CoreInv
  OBVIOUS
<1>1. \A p \in Procs : pc[p] = "idle"
  BY DEF Init
<1>2. \A t \in DOMAIN users : users[t].applied = (t \in MayConnect(users, {}))
  <2>1. users = [t \in Subscribed |-> [nodes |-> Deployed, applied |-> Deployed # {}]]
    BY DEF Init
  <2>2. \A t \in Subscribed : t \in MayConnect(users, {}) <=> Deployed # {}
    BY <2>1 DEF MayConnect
  <2>3. \A t \in Subscribed : users[t].applied = (Deployed # {})
    BY <2>1
  <2>4. QED
    BY <2>1, <2>2, <2>3
<1>3. ~Changed(users, {})
  BY <1>2, Zenon DEF Changed
<1>4. running = Recorded(nodes, users)
  BY <1>3, SettledRecorded DEF Init
<1>5. QED
  BY <1>1, <1>4 DEF CoreInv, SavedFits, RunningFits


\* every step keeps it,
LEMMA StepCore ==
    TypeOK /\ NodeInv /\ UserInv /\ CoreInv /\ [Next]_vars => CoreInv'
<1> SUFFICES ASSUME TypeOK, NodeInv, UserInv, CoreInv, [Next]_vars
             PROVE  CoreInv'
  OBVIOUS
<1> USE DEF Goto, files, locks, world, bounds, history
<1>1. CASE UNCHANGED vars
  BY <1>1, CoreUntouched DEF vars, procs, Ahead
<1>2. ASSUME NEW p \in Panels, NodeScreens(p) PROVE CoreInv'
  <2> p \in Procs /\ Panels \subseteq Procs /\ Loop \in Procs
    BY DEF Procs
  <2>1. CASE NewNode(p) \/ EditNode(p) \/ AskDelete(p)
    BY <2>1, CoreStepOf DEF NewNode, EditNode, AskDelete, Begin, TypeOK
  <2>2. CASE Confirm(p) \/ Decline(p)
    BY <2>2, CoreStepOf DEF Confirm, Decline, TypeOK
  <2>3. CASE LockNodes(p) \/ RefuseNodes(p)
    BY <2>3, CoreStepOf DEF LockNodes, RefuseNodes, TypeOK
  <2>4. CASE ChangeNodes(p)
    <3>1. pc'[p] \in {"cascade", "deploy"}
      BY <2>4 DEF ChangeNodes, TypeOK
    <3>2. QED
      BY <3>1, CoreAhead DEF Ahead
  <2>5. CASE LockCascade(p)
    BY <2>5, CoreUntouched DEF LockCascade, TypeOK, Ahead
  <2>6. CASE Cascade(p)
    <3>1. pc'[p] = "deploy"
      BY <2>6 DEF Cascade, TypeOK
    <3>2. QED
      BY <3>1, CoreAhead DEF Ahead
  <2>7. QED
    BY <1>2, <2>1, <2>2, <2>3, <2>4, <2>5, <2>6 DEF NodeScreens
<1>3. ASSUME NEW p \in Panels, AccountScreens(p) PROVE CoreInv'
  <2> p \in Procs /\ Panels \subseteq Procs /\ Loop \in Procs
    BY DEF Procs
  <2>1. CASE ToggleUserNode(p) \/ NewUser(p)
    BY <2>1, CoreStepOf DEF ToggleUserNode, NewUser, Begin, TypeOK
  <2>2. CASE LockUsers(p) \/ LookUpNodes(p)
    BY <2>2, CoreStepOf DEF LockUsers, LookUpNodes, TypeOK
  <2>3. CASE CommitUsers(p)
    <3>1. pc'[p] = "deploy"
      BY <2>3 DEF CommitUsers, TypeOK
    <3>2. QED
      BY <3>1, CoreAhead DEF Ahead
  <2>4. CASE RefuseUsers(p)
    BY <2>4, CoreUntouched DEF RefuseUsers, TypeOK, Ahead
  <2>5. QED
    BY <1>3, <2>1, <2>2, <2>3, <2>4 DEF AccountScreens
<1>4. ASSUME NEW p \in Procs, Deployment(p) PROVE CoreInv'
  <2> Loop \in Procs /\ \A q \in Panels : q \in Procs /\ q # Loop
    BY NodeConstants DEF Procs
  <2>1. CASE LoadNodes(p)
    <3>1. p \in Panels
      BY <2>1 DEF LoadNodes, UserInv, LoopPlace, Procs
    <3>2. Ahead(p)'
      BY <2>1 DEF LoadNodes, TypeOK, Ahead, Enabled
    <3>3. pc'[p] # "save"
      BY <2>1 DEF LoadNodes, TypeOK
    <3>4. QED
      BY <3>1, <3>2, <3>3, CoreAhead
  <2>2. CASE LockAccounts(p)
    BY <2>2, CoreUntouched DEF LockAccounts, TypeOK, Ahead
  <2>3. CASE Apply(p)
    <3>1. IsUserFile(copy[p])
      BY DEF TypeOK
    <3>2. /\ pc[p] = "apply" /\ pc'[p] = "save" /\ nodes' = nodes
          /\ running' = Document(snap[p], copy[p], judged[p])
          /\ copy'[p] = Flagged(copy[p], judged[p])
          /\ ~behind' => snap[p] = nodes
          /\ \A q \in Procs : q # p => pc'[q] = pc[q]
      BY <2>3 DEF Apply, TypeOK
    <3>3. ~behind' => running' = Recorded(nodes, copy'[p])
      BY <3>1, <3>2, FlaggedRecorded
    <3>4. \A q \in Procs : q # p => pc'[q] # "save"
      BY <3>2 DEF UserInv, UsersHeld, UserHolding
    <3>5. SavedFits'
      <4>1. ASSUME NEW q \in Procs, pc'[q] = "save", ~behind'
            PROVE  running' = Recorded(nodes, copy[q])'
        <5>1. q = p
          BY <3>4, <4>1
        <5>2. Recorded(nodes, copy[q])' = Recorded(nodes, copy'[p])
          BY <3>2, <5>1 DEF Recorded, Enabled
        <5>3. QED
          BY <3>3, <4>1, <5>2
      <4>2. QED
        BY <4>1 DEF SavedFits
    <3>6. RunningFits'
      <4>1. CASE p = Loop
        BY <3>2, <4>1 DEF RunningFits
      <4>2. CASE p \in Panels
        BY <3>2, <4>2 DEF RunningFits, Ahead
      <4>3. QED
        BY <4>1, <4>2 DEF Procs
    <3>7. QED
      BY <3>5, <3>6 DEF CoreInv
  <2>4. CASE ApplyNothing(p)
    <3>1. /\ pc[p] = "apply" /\ Enabled(snap[p]) = {} /\ pc'[p] = "idle"
          /\ nodes' = nodes /\ users' = users /\ running' = running
          /\ behind' = behind
          /\ \A q \in Procs : q # p => /\ pc'[q] = pc[q] /\ copy'[q] = copy[q]
                                       /\ snap'[q] = snap[q]
      BY <2>4 DEF ApplyNothing, Finish, TypeOK
    <3>2. CASE Enabled(nodes) = {}
      <4>1. Enabled(nodes)' = {}
        BY <3>1, <3>2 DEF Enabled
      <4>2. QED
        BY <4>1 DEF CoreInv, SavedFits, RunningFits
    <3>3. CASE Enabled(nodes) # {}
      <4>1. ~Ahead(p)
        BY <3>1, <3>3 DEF Ahead
      <4>2. \A q \in Panels : Ahead(q) => Ahead(q)'
        BY <3>1, <4>1 DEF Ahead, Enabled
      <4>3. pc[Loop] = "save" => pc'[Loop] = "save"
        BY <3>1
      <4>4. \A q \in Procs : pc'[q] = "save" => pc[q] = "save" /\ copy'[q] = copy[q]
        BY <3>1
      <4>5. QED
        BY <3>1, <4>2, <4>3, <4>4, CoreUntouched
    <3>4. QED
      BY <3>2, <3>3
  <2>5. CASE SaveAccounts(p)
    <3>1. /\ pc[p] = "save" /\ pc'[p] = "idle" /\ users' = copy[p]
          /\ nodes' = nodes /\ running' = running /\ behind' = behind
          /\ \A q \in Procs : q # p => pc'[q] = pc[q] /\ snap'[q] = snap[q]
      BY <2>5 DEF SaveAccounts, Finish, TypeOK
    <3>2. \A q \in Procs : pc'[q] # "save"
      BY <3>1 DEF UserInv, UsersHeld, UserHolding
    <3>3. \A q \in Panels \ {p} : Ahead(q) => Ahead(q)'
      BY <3>1 DEF Ahead, Enabled
    <3>4. RunningFits'
      <4>1. SUFFICES ASSUME ~behind', (Enabled(nodes) # {})',
                            \A q \in Panels : ~Ahead(q)'
                     PROVE  (running = Recorded(nodes, users))'
        BY DEF RunningFits
      <4>2. ~behind /\ Enabled(nodes) # {} /\ \A q \in Panels \ {p} : ~Ahead(q)
        BY <3>1, <3>3, <4>1 DEF Enabled
      <4>3. running = Recorded(nodes, copy[p])
        BY <3>1, <4>2 DEF CoreInv, SavedFits
      <4>4. QED
        BY <3>1, <4>3 DEF Recorded, Enabled
    <3>5. SavedFits'
      BY <3>2 DEF SavedFits
    <3>6. QED
      BY <3>4, <3>5 DEF CoreInv
  <2>6. QED
    BY <1>4, <2>1, <2>2, <2>3, <2>4, <2>5 DEF Deployment
<1>5. CASE LoopLock \/ LoopSettled \/ LoopNodes
  <2> Loop \in Procs /\ \A q \in Panels : q \in Procs /\ q # Loop
    BY NodeConstants DEF Procs
  <2>1. QED
    BY <1>5, CoreUntouched DEF LoopLock, LoopSettled, LoopNodes, Finish, TypeOK, Ahead
<1>6. CASE Flip
  BY <1>6, CoreUntouched DEF Flip, procs, Ahead
<1>7. ASSUME NEW p \in Procs, GiveUp(p) PROVE CoreInv'
  <2> Loop \in Procs /\ \A q \in Panels : q \in Procs /\ q # Loop
    BY NodeConstants DEF Procs
  <2>1. /\ nodes' = nodes /\ users' = users /\ running' = running
        /\ behind' = (behind \/ pc[p] \in Undeployed)
        /\ pc'[p] = "idle"
        /\ \A q \in Procs : q # p => /\ pc'[q] = pc[q] /\ copy'[q] = copy[q]
                                     /\ snap'[q] = snap[q]
    BY <1>7 DEF GiveUp, TypeOK
  <2>2. ~behind' => pc[p] \notin Undeployed
    BY <2>1, Zenon
  <2>3. ~behind' => \A q \in Panels : Ahead(q) => Ahead(q)'
    <3>1. \A q \in Procs : q # p /\ Ahead(q) => Ahead(q)'
      BY <2>1 DEF Ahead, Enabled
    <3>2. ~behind' => ~Ahead(p)
      BY <2>2 DEF Ahead, Undeployed
    <3>3. QED
      BY <3>1, <3>2
  <2>4. ~behind' => (pc[Loop] = "save" => pc'[Loop] = "save")
    BY <2>1, <2>2 DEF Undeployed
  <2>5. \A q \in Procs : pc'[q] = "save" => pc[q] = "save" /\ copy'[q] = copy[q]
    BY <2>1
  <2>6. behind => behind'
    BY <2>1, Zenon
  <2>7. nodes' = nodes /\ users' = users /\ running' = running
    BY <2>1
  <2>8. QED
    BY <2>3, <2>4, <2>5, <2>6, <2>7, CoreUntouched
<1>8. QED
  BY <1>1, <1>2, <1>3, <1>4, <1>5, <1>6, <1>7 DEF Next

\* and so it holds always.
LEMMA CoreInvAlways == Spec => [](UserInv /\ CoreInv)
<1>1. Init => TypeOK /\ NodeInv /\ UserInv /\ CoreInv
  BY InitType, InitNodes, InitUsers, InitCore
<1>2. (TypeOK /\ NodeInv /\ UserInv /\ CoreInv) /\ [Next]_vars
          => UserInv' /\ CoreInv'
  BY StepUsers, StepCore
<1>3. QED
  BY <1>1, <1>2, NodeInvAlways, PTL DEF Spec

\* When nothing is under way the core runs what the two files say, with the
\* exceptions CoreMatchesFiles names (deploy.ApplyStore, stats.Loop.Tick).
THEOREM CoreAlwaysMatchesFiles == Spec => []CoreMatchesFiles
<1>1. UserInv /\ CoreInv => CoreMatchesFiles
  <2> SUFFICES ASSUME UserInv, CoreInv, Quiet, ~behind, Enabled(nodes) # {},
                      ~Changed(users, barred)
               PROVE  running = Document(nodes, users, barred)
    BY DEF CoreMatchesFiles
  <2>1. \A q \in Panels : ~Ahead(q)
    BY DEF Quiet, Ahead
  <2>2. pc[Loop] # "save"
    BY NodeConstants DEF Quiet, UserInv, UsersHeld, UserHolding, Procs
  <2>3. running = Recorded(nodes, users)
    BY <2>1, <2>2 DEF CoreInv, RunningFits
  <2>4. QED
    BY <2>3, SettledRecorded
<1>2. QED
  BY <1>1, CoreInvAlways, PTL


=============================================================================
