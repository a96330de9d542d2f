-------------------------- MODULE MigrationProofs --------------------------
(***************************************************************************)
(* Proofs about Migration, for any number of starting processes, protocols *)
(* and accounts and any kills: no protocol becomes two nodes, no selection *)
(* dangles, none is lost but for the two named causes, whoever is past its *)
(* start finds accounts of this version, and edits are not undone.         *)
(***************************************************************************)
EXTENDS Migration, TLAPS

\* The initial state is well typed.
LEMMA InitType == Init => TypeOK
<1> SUFFICES ASSUME Init PROVE TypeOK
  OBVIOUS
<1>1. NoCopy \in Accounts
  BY DEF NoCopy, Accounts, Ids
<1>2. DOMAIN NoNodes = {}
  BY DEF NoNodes
<1>3. /\ index = [p \in Starters |-> index[p]]
      /\ \A p \in Starters : DOMAIN index[p] = {}
  BY <1>2 DEF Init
<1>4. /\ pc \in [Starters -> PCs] /\ legacy \in [Starters -> BOOLEAN]
      /\ snap \in [Starters -> SUBSET Node]
      /\ todo \in [Starters -> SUBSET Protocols]
      /\ copy \in [Starters -> Accounts]
  BY <1>1 DEF Init, PCs
<1>5. /\ nodes \subseteq Node /\ users \in Accounts
      /\ {nodeLock, userLock} \subseteq Starters \cup {NoOne}
      /\ {minted, faults, edits} \subseteq Nat
  BY <1>1 DEF Init
<1>6. keys \in BOOLEAN /\ {cut, early, overtaken} \subseteq BOOLEAN
  BY DEF Init
<1>7. decided \in [Users -> BOOLEAN]
  BY DEF Init
<1>8. QED
  BY <1>3, <1>4, <1>5, <1>6, <1>7 DEF Init, TypeOK

\* What a process leaves behind is well typed.
LEMMA EndsType ==
    ASSUME TypeOK, NEW p \in Starters, Ends(p)
    PROVE  /\ {nodeLock', userLock'} \subseteq Starters \cup {NoOne}
           /\ legacy' \in [Starters -> BOOLEAN]
           /\ snap' \in [Starters -> SUBSET Node]
           /\ todo' \in [Starters -> SUBSET Protocols]
           /\ index' = [q \in Starters |-> index'[q]]
           /\ \A q \in Starters : /\ DOMAIN index'[q] \subseteq Protocols
                                  /\ \A k \in DOMAIN index'[q] : index'[q][k] \in Ids
           /\ copy' \in [Starters -> Accounts]
           /\ pc' \in [Starters -> PCs]
<1>1. NoCopy \in Accounts
  BY DEF NoCopy, Accounts, Ids
<1>2. DOMAIN NoNodes = {}
  BY DEF NoNodes
<1>3. pc' \in [Starters -> PCs]
  BY DEF TypeOK, Ends, Goto, PCs
<1>4. QED
  BY <1>1, <1>2, <1>3 DEF TypeOK, Ends, FreedBy

\* The nodes that answer for the protocols.
LEMMA ProtocolIndexFits ==
    ASSUME NEW ns, ns \subseteq Node
    PROVE  /\ DOMAIN ProtocolIndex(ns) = Served(ns)
           /\ \A k \in Served(ns) : \E n \in ns :
                  n.protocol = k /\ ProtocolIndex(ns)[k] = n.id
<1>1. \A k \in Served(ns) : \E n \in ns : n.protocol = k
  BY DEF Served
<1>2. QED
  BY <1>1 DEF ProtocolIndex

\* A translated account file is an account file.
LEMMA ConvertedType ==
    ASSUME NEW us \in Accounts, NEW of,
           \A k \in DOMAIN of : of[k] \in Ids
    PROVE  /\ Converted(us, of) \in Accounts
           /\ Converted(us, of).version = 2
           /\ Converted(us, of).enabled = us.enabled
           /\ \A u \in Users : Converted(us, of).nodes[u] =
                  {of[k] : k \in old.selected[u] \cap DOMAIN of}
<1> DEFINE chosen == [u \in Users |-> {of[k] : k \in old.selected[u] \cap DOMAIN of}]
           upgraded == [us EXCEPT !.version = 2]
<1>1. chosen \in [Users -> SUBSET Ids]
  OBVIOUS
<1>2. upgraded \in Accounts /\ upgraded.version = 2 /\ upgraded.enabled = us.enabled
  BY DEF Accounts
<1> HIDE DEF upgraded
<1>3. \A sel \in [Users -> SUBSET Ids] :
         /\ [upgraded EXCEPT !.nodes = sel] \in Accounts
         /\ [upgraded EXCEPT !.nodes = sel].version = 2
         /\ [upgraded EXCEPT !.nodes = sel].enabled = us.enabled
         /\ [upgraded EXCEPT !.nodes = sel].nodes = sel
  BY <1>2 DEF Accounts
<1>4. Converted(us, of) = [upgraded EXCEPT !.nodes = chosen]
  BY DEF Converted, upgraded
<1> HIDE DEF chosen
<1>5. /\ Converted(us, of) \in Accounts
      /\ Converted(us, of).version = 2
      /\ Converted(us, of).enabled = us.enabled
      /\ Converted(us, of).nodes = chosen
  BY <1>1, <1>3, <1>4
<1>6. QED
  BY <1>5 DEF chosen

\* Every step keeps the types.
LEMMA NextType == TypeOK /\ [Next]_vars => TypeOK'
<1> SUFFICES ASSUME TypeOK, [Next]_vars PROVE TypeOK'
  OBVIOUS
<1> USE DEF files, locks, procs, history, Goto, PCs
<1>1. ASSUME NEW p \in Starters, Start(p) PROVE TypeOK'
  BY <1>1 DEF Start, TypeOK
<1>2. ASSUME NEW p \in Starters, FoundNodes(p) PROVE TypeOK'
  BY <1>2 DEF FoundNodes, TypeOK
<1>3. ASSUME NEW p \in Starters, NothingToMigrate(p) PROVE TypeOK'
  BY <1>3 DEF NothingToMigrate, TypeOK
<1>4. ASSUME NEW p \in Starters, NoNodesYet(p) PROVE TypeOK'
  BY <1>4 DEF NoNodesYet, TypeOK
<1>5. ASSUME NEW p \in Starters, LockNodes(p) PROVE TypeOK'
  BY <1>5 DEF LockNodes, TypeOK
<1>6. ASSUME NEW p \in Starters, AddNode(p) PROVE TypeOK'
  <2>1. PICK k \in Protocols :
           /\ snap' = [snap EXCEPT ![p] = @ \cup {[id |-> minted, protocol |-> k]}]
           /\ nodes' = snap'[p]
           /\ todo' = [todo EXCEPT ![p] = @ \ {k}]
           /\ minted' = minted + 1
           /\ UNCHANGED <<old, keys, users, locks, pc, legacy, index, copy, faults,
                          edits, history>>
    BY <1>6 DEF AddNode
  <2>2. [id |-> minted, protocol |-> k] \in Node
    BY DEF TypeOK, Node, Ids
  <2>3. snap' \in [Starters -> SUBSET Node] /\ nodes' \subseteq Node
    BY <2>1, <2>2 DEF TypeOK
  <2>4. todo' \in [Starters -> SUBSET Protocols] /\ minted' \in Nat
    BY <2>1 DEF TypeOK
  <2>5. QED
    BY <2>1, <2>3, <2>4 DEF TypeOK
<1>7. ASSUME NEW p \in Starters, AddRefused(p) PROVE TypeOK'
  <2>1. Ends(p) /\ cut' \in BOOLEAN /\ UNCHANGED faults
    BY <1>7 DEF AddRefused, TypeOK
  <2>2. UNCHANGED <<old, files, minted, edits, decided, early, overtaken>>
    BY <2>1 DEF Ends
  <2>3. QED
    BY <2>1, <2>2, EndsType DEF TypeOK
<1>8. ASSUME NEW p \in Starters, AllAdded(p) PROVE TypeOK'
  BY <1>8 DEF AllAdded, TypeOK
<1>9. ASSUME NEW p \in Starters, LoadIndex(p) PROVE TypeOK'
  <2>1. /\ DOMAIN ProtocolIndex(nodes) \subseteq Protocols
        /\ \A k \in DOMAIN ProtocolIndex(nodes) : ProtocolIndex(nodes)[k] \in Ids
    <3>1. nodes \subseteq Node
      BY DEF TypeOK
    <3>2. \A n \in nodes : n.id \in Ids /\ n.protocol \in Protocols
      BY <3>1 DEF Node
    <3>3. /\ DOMAIN ProtocolIndex(nodes) = Served(nodes)
          /\ \A k \in Served(nodes) : \E n \in nodes :
                 n.protocol = k /\ ProtocolIndex(nodes)[k] = n.id
      BY <3>1, ProtocolIndexFits
    <3>4. QED
      BY <3>2, <3>3
  <2>2. /\ index' = [q \in Starters |-> index'[q]]
        /\ \A q \in Starters : /\ DOMAIN index'[q] \subseteq Protocols
                               /\ \A k \in DOMAIN index'[q] : index'[q][k] \in Ids
    BY <1>9, <2>1 DEF LoadIndex, TypeOK
  <2>3. early' \in BOOLEAN
    BY <1>9 DEF LoadIndex, TypeOK
  <2>4. QED
    BY <1>9, <2>2, <2>3 DEF LoadIndex, TypeOK
<1>10. ASSUME NEW p \in Starters, UpToDate(p) PROVE TypeOK'
  BY <1>10 DEF UpToDate, Unlocks, FreedBy, TypeOK
<1>11. ASSUME NEW p \in Starters, ReadOldAccounts(p) PROVE TypeOK'
  BY <1>11 DEF ReadOldAccounts, TypeOK
<1>12. ASSUME NEW p \in Starters, SaveAccounts(p) PROVE TypeOK'
  <2>1. users' \in Accounts
    BY <1>12, ConvertedType DEF SaveAccounts, TypeOK
  <2>2. NoCopy \in Accounts
    BY DEF NoCopy, Accounts, Ids
  <2>3. QED
    BY <1>12, <2>1, <2>2 DEF SaveAccounts, Unlocks, FreedBy, TypeOK
<1>13. ASSUME NEW p \in Starters, SaveState(p) PROVE TypeOK'
  BY <1>13 DEF SaveState, TypeOK
<1>14. ASSUME NEW p \in Starters, LockUsers(p) PROVE TypeOK'
  BY <1>14 DEF LockUsers, TypeOK
<1>15. ASSUME NEW p \in Starters, EditAccount(p) PROVE TypeOK'
  <2>1. PICK u \in Users :
           /\ users' = [copy[p] EXCEPT !.enabled[u] = ~@]
           /\ decided' = [decided EXCEPT ![u] = ~@]
    BY <1>15 DEF EditAccount
  <2>2. copy[p] \in Accounts /\ decided \in [Users -> BOOLEAN]
    BY DEF TypeOK
  <2>3. users' \in Accounts
    <3>1. [copy[p].enabled EXCEPT ![u] = ~@] \in [Users -> BOOLEAN]
      BY <2>2, Zenon DEF Accounts
    <3>2. \A e \in [Users -> BOOLEAN] : [copy[p] EXCEPT !.enabled = e] \in Accounts
      BY <2>2 DEF Accounts
    <3>3. users' = [copy[p] EXCEPT !.enabled = [copy[p].enabled EXCEPT ![u] = ~@]]
      BY <2>1
    <3>4. QED
      BY <3>1, <3>2, <3>3
  <2>4. decided' \in [Users -> BOOLEAN]
    BY <2>1, <2>2, Zenon
  <2>5. NoCopy \in Accounts
    BY DEF NoCopy, Accounts, Ids
  <2>6. QED
    BY <1>15, <2>3, <2>4, <2>5 DEF EditAccount, TypeOK
<1>16. ASSUME NEW p \in Starters, Stop(p) PROVE TypeOK'
  <2>1. Ends(p) /\ UNCHANGED <<faults, cut>>
    BY <1>16 DEF Stop
  <2>2. UNCHANGED <<old, files, minted, edits, decided, early, overtaken>>
    BY <2>1 DEF Ends
  <2>3. QED
    BY <2>1, <2>2, EndsType DEF TypeOK
<1>17. ASSUME NEW p \in Starters, Killed(p) PROVE TypeOK'
  <2>1. Ends(p) /\ cut' \in BOOLEAN /\ faults' \in Nat
    BY <1>17 DEF Killed, TypeOK
  <2>2. UNCHANGED <<old, files, minted, edits, decided, early, overtaken>>
    BY <2>1 DEF Ends
  <2>3. QED
    BY <2>1, <2>2, EndsType DEF TypeOK
<1>18. CASE UNCHANGED vars
  BY <1>18 DEF vars, TypeOK
<1>19. QED
  BY <1>1, <1>2, <1>3, <1>4, <1>5, <1>6, <1>7, <1>8, <1>9, <1>10, <1>11, <1>12,
     <1>13, <1>14, <1>15, <1>16, <1>17, <1>18 DEF Next, Nodes, Selections, Work

-----------------------------------------------------------------------------
\* Whoever adds nodes or edits accounts holds the lock; the nodes it adds to
\* are those of the file.
Exclusive == \A p \in Starters :
    /\ pc[p] = "add" => nodeLock = p /\ snap[p] = nodes
    /\ pc[p] = "edit" => userLock = p

Found == {n.id : n \in nodes}

Reads(p) == pc[p] \in {"read", "save"}

\* What a process has read of the nodes still is in the file, and so is all that
\* any account file selects.
IndexFits == \A p \in Starters : Reads(p) =>
    \A k \in DOMAIN index[p] :
        \E n \in nodes : n.protocol = k /\ n.id = index[p][k]

CopiesFit == \A p \in Starters : \A u \in Users :
    copy[p].nodes[u] \subseteq Found

\* Only what p holds is given up when it ends.
LEMMA EndsFrame ==
    ASSUME TypeOK, NEW p \in Starters, Ends(p)
    PROVE  /\ UNCHANGED <<old, keys, nodes, users, decided, early, overtaken>>
           /\ pc'[p] = "off"
           /\ \A q \in Starters \ {p} : /\ pc'[q] = pc[q] /\ index'[q] = index[q]
                                        /\ todo'[q] = todo[q] /\ copy'[q] = copy[q]
<1>1. pc'[p] = "off" /\ \A q \in Starters \ {p} : pc'[q] = pc[q]
  BY DEF Ends, Goto, TypeOK
<1>2. \A q \in Starters \ {p} : index'[q] = index[q]
  BY DEF Ends, TypeOK
<1>3. \A q \in Starters \ {p} : todo'[q] = todo[q] /\ copy'[q] = copy[q]
  BY DEF Ends, TypeOK
<1>4. QED
  BY <1>1, <1>2, <1>3 DEF Ends, files

\* The node file only grows, and only its lock's holder makes it.
LEMMA StepExclusive ==
    ASSUME TypeOK, Exclusive, [Next]_vars
    PROVE  Exclusive' /\ nodes \subseteq nodes'
<1> USE DEF files, locks, procs, history, Goto
<1>1. ASSUME NEW p \in Starters, Start(p)
      PROVE  Exclusive' /\ nodes \subseteq nodes'
  BY <1>1 DEF Start, Exclusive, TypeOK
<1>2. ASSUME NEW p \in Starters, FoundNodes(p)
      PROVE  Exclusive' /\ nodes \subseteq nodes'
  BY <1>2 DEF FoundNodes, Exclusive, TypeOK
<1>3. ASSUME NEW p \in Starters, NothingToMigrate(p)
      PROVE  Exclusive' /\ nodes \subseteq nodes'
  BY <1>3 DEF NothingToMigrate, Exclusive, TypeOK
<1>4. ASSUME NEW p \in Starters, NoNodesYet(p)
      PROVE  Exclusive' /\ nodes \subseteq nodes'
  BY <1>4 DEF NoNodesYet, Exclusive, TypeOK
<1>5. ASSUME NEW p \in Starters, LockNodes(p)
      PROVE  Exclusive' /\ nodes \subseteq nodes'
  BY <1>5, MigrationConstants DEF LockNodes, Exclusive, TypeOK
<1>6. ASSUME NEW p \in Starters, AddNode(p)
      PROVE  Exclusive' /\ nodes \subseteq nodes'
  BY <1>6 DEF AddNode, Exclusive, TypeOK
<1>7. ASSUME NEW p \in Starters, AddRefused(p)
      PROVE  Exclusive' /\ nodes \subseteq nodes'
  BY <1>7 DEF AddRefused, Ends, FreedBy, Exclusive, TypeOK
<1>8. ASSUME NEW p \in Starters, AllAdded(p)
      PROVE  Exclusive' /\ nodes \subseteq nodes'
  BY <1>8 DEF AllAdded, Exclusive, TypeOK
<1>9. ASSUME NEW p \in Starters, LoadIndex(p)
      PROVE  Exclusive' /\ nodes \subseteq nodes'
  BY <1>9 DEF LoadIndex, Exclusive, TypeOK
<1>10. ASSUME NEW p \in Starters, UpToDate(p)
      PROVE  Exclusive' /\ nodes \subseteq nodes'
  BY <1>10 DEF UpToDate, Unlocks, FreedBy, Exclusive, TypeOK
<1>11. ASSUME NEW p \in Starters, ReadOldAccounts(p)
      PROVE  Exclusive' /\ nodes \subseteq nodes'
  BY <1>11 DEF ReadOldAccounts, Exclusive, TypeOK
<1>12. ASSUME NEW p \in Starters, SaveAccounts(p)
      PROVE  Exclusive' /\ nodes \subseteq nodes'
  BY <1>12 DEF SaveAccounts, Unlocks, FreedBy, Exclusive, TypeOK
<1>13. ASSUME NEW p \in Starters, SaveState(p)
      PROVE  Exclusive' /\ nodes \subseteq nodes'
  BY <1>13 DEF SaveState, Exclusive, TypeOK
<1>14. ASSUME NEW p \in Starters, LockUsers(p)
      PROVE  Exclusive' /\ nodes \subseteq nodes'
  BY <1>14, MigrationConstants DEF LockUsers, Exclusive, TypeOK
<1>15. ASSUME NEW p \in Starters, EditAccount(p)
      PROVE  Exclusive' /\ nodes \subseteq nodes'
  BY <1>15 DEF EditAccount, Exclusive, TypeOK
<1>16. ASSUME NEW p \in Starters, Stop(p)
      PROVE  Exclusive' /\ nodes \subseteq nodes'
  BY <1>16 DEF Stop, Ends, FreedBy, Exclusive, TypeOK
<1>17. ASSUME NEW p \in Starters, Killed(p)
      PROVE  Exclusive' /\ nodes \subseteq nodes'
  BY <1>17 DEF Killed, Ends, FreedBy, Exclusive, TypeOK
<1>18. CASE UNCHANGED vars
  BY <1>18 DEF vars, Exclusive
<1>19. QED
  BY <1>1, <1>2, <1>3, <1>4, <1>5, <1>6, <1>7, <1>8, <1>9, <1>10, <1>11, <1>12,
       <1>13, <1>14, <1>15, <1>16, <1>17, <1>18 DEF Next, Nodes, Selections, Work

\* A node is added only beside nodes of other protocols.
LEMMA StepOneNodeEach ==
    ASSUME TypeOK, Exclusive, OneNodeEach, [Next]_vars
    PROVE  OneNodeEach'
<1> USE DEF files, locks, procs, history, Goto
<1>1. ASSUME NEW p \in Starters, Start(p) PROVE OneNodeEach'
  BY <1>1 DEF Start, OneNodeEach, TypeOK
<1>2. ASSUME NEW p \in Starters, FoundNodes(p) PROVE OneNodeEach'
  BY <1>2 DEF FoundNodes, OneNodeEach, TypeOK
<1>3. ASSUME NEW p \in Starters, NothingToMigrate(p) PROVE OneNodeEach'
  BY <1>3 DEF NothingToMigrate, OneNodeEach, TypeOK
<1>4. ASSUME NEW p \in Starters, NoNodesYet(p) PROVE OneNodeEach'
  BY <1>4 DEF NoNodesYet, OneNodeEach, TypeOK
<1>5. ASSUME NEW p \in Starters, LockNodes(p) PROVE OneNodeEach'
  BY <1>5 DEF LockNodes, OneNodeEach, TypeOK
<1>6. ASSUME NEW p \in Starters, AddNode(p) PROVE OneNodeEach'
  <2>1. PICK k \in Protocols :
           /\ ~NameTaken(snap[p], k)
           /\ nodes' = snap[p] \cup {[id |-> minted, protocol |-> k]}
    BY <1>6 DEF AddNode, TypeOK
  <2>2. snap[p] = nodes
    BY <1>6 DEF AddNode, Exclusive
  <2>3. QED
    BY <2>1, <2>2 DEF OneNodeEach, NameTaken, Served
<1>7. ASSUME NEW p \in Starters, AddRefused(p) PROVE OneNodeEach'
  BY <1>7 DEF AddRefused, Ends, FreedBy, OneNodeEach, TypeOK
<1>8. ASSUME NEW p \in Starters, AllAdded(p) PROVE OneNodeEach'
  BY <1>8 DEF AllAdded, OneNodeEach, TypeOK
<1>9. ASSUME NEW p \in Starters, LoadIndex(p) PROVE OneNodeEach'
  BY <1>9 DEF LoadIndex, OneNodeEach, TypeOK
<1>10. ASSUME NEW p \in Starters, UpToDate(p) PROVE OneNodeEach'
  BY <1>10 DEF UpToDate, Unlocks, FreedBy, OneNodeEach, TypeOK
<1>11. ASSUME NEW p \in Starters, ReadOldAccounts(p) PROVE OneNodeEach'
  BY <1>11 DEF ReadOldAccounts, OneNodeEach, TypeOK
<1>12. ASSUME NEW p \in Starters, SaveAccounts(p) PROVE OneNodeEach'
  BY <1>12 DEF SaveAccounts, Unlocks, FreedBy, OneNodeEach, TypeOK
<1>13. ASSUME NEW p \in Starters, SaveState(p) PROVE OneNodeEach'
  BY <1>13 DEF SaveState, OneNodeEach, TypeOK
<1>14. ASSUME NEW p \in Starters, LockUsers(p) PROVE OneNodeEach'
  BY <1>14 DEF LockUsers, OneNodeEach, TypeOK
<1>15. ASSUME NEW p \in Starters, EditAccount(p) PROVE OneNodeEach'
  BY <1>15 DEF EditAccount, OneNodeEach, TypeOK
<1>16. ASSUME NEW p \in Starters, Stop(p) PROVE OneNodeEach'
  BY <1>16 DEF Stop, Ends, FreedBy, OneNodeEach, TypeOK
<1>17. ASSUME NEW p \in Starters, Killed(p) PROVE OneNodeEach'
  BY <1>17 DEF Killed, Ends, FreedBy, OneNodeEach, TypeOK
<1>18. CASE UNCHANGED vars
  BY <1>18 DEF vars, OneNodeEach
<1>19. QED
  BY <1>1, <1>2, <1>3, <1>4, <1>5, <1>6, <1>7, <1>8, <1>9, <1>10, <1>11, <1>12,
       <1>13, <1>14, <1>15, <1>16, <1>17, <1>18 DEF Next, Nodes, Selections, Work

\* What was read of the nodes stays true.
LEMMA StepIndexFits ==
    ASSUME TypeOK, Exclusive, IndexFits, [Next]_vars
    PROVE  IndexFits'
<1> USE DEF files, locks, procs, history, Goto
<1>0. nodes \subseteq nodes'
  BY StepExclusive
<1>1. ASSUME NEW p \in Starters, Start(p) PROVE IndexFits'
  BY <1>1 DEF Start, IndexFits, Reads, TypeOK
<1>2. ASSUME NEW p \in Starters, FoundNodes(p) PROVE IndexFits'
  BY <1>2 DEF FoundNodes, IndexFits, Reads, TypeOK
<1>3. ASSUME NEW p \in Starters, NothingToMigrate(p) PROVE IndexFits'
  BY <1>3 DEF NothingToMigrate, IndexFits, Reads, TypeOK
<1>4. ASSUME NEW p \in Starters, NoNodesYet(p) PROVE IndexFits'
  BY <1>4 DEF NoNodesYet, IndexFits, Reads, TypeOK
<1>5. ASSUME NEW p \in Starters, LockNodes(p) PROVE IndexFits'
  BY <1>5 DEF LockNodes, IndexFits, Reads, TypeOK
<1>6. ASSUME NEW p \in Starters, AddNode(p) PROVE IndexFits'
  BY <1>0, <1>6 DEF AddNode, IndexFits, Reads, TypeOK
<1>7. ASSUME NEW p \in Starters, AddRefused(p) PROVE IndexFits'
  BY <1>7, EndsFrame DEF AddRefused, IndexFits, Reads
<1>8. ASSUME NEW p \in Starters, AllAdded(p) PROVE IndexFits'
  BY <1>8 DEF AllAdded, IndexFits, Reads, TypeOK
<1>9. ASSUME NEW p \in Starters, LoadIndex(p) PROVE IndexFits'
  <2>1. nodes \subseteq Node
    BY DEF TypeOK
  <2>2. \A k \in DOMAIN ProtocolIndex(nodes) :
            \E n \in nodes : n.protocol = k /\ n.id = ProtocolIndex(nodes)[k]
    BY <2>1, ProtocolIndexFits
  <2>3. /\ index'[p] = ProtocolIndex(nodes) /\ nodes' = nodes
        /\ \A q \in Starters \ {p} : index'[q] = index[q] /\ pc'[q] = pc[q]
    BY <1>9 DEF LoadIndex, TypeOK
  <2>4. QED
    BY <2>2, <2>3 DEF IndexFits, Reads
<1>10. ASSUME NEW p \in Starters, UpToDate(p) PROVE IndexFits'
  BY <1>10 DEF UpToDate, Unlocks, FreedBy, IndexFits, Reads, TypeOK
<1>11. ASSUME NEW p \in Starters, ReadOldAccounts(p) PROVE IndexFits'
  BY <1>11 DEF ReadOldAccounts, IndexFits, Reads, TypeOK
<1>12. ASSUME NEW p \in Starters, SaveAccounts(p) PROVE IndexFits'
  BY <1>12 DEF SaveAccounts, Unlocks, FreedBy, IndexFits, Reads, TypeOK
<1>13. ASSUME NEW p \in Starters, SaveState(p) PROVE IndexFits'
  BY <1>13 DEF SaveState, IndexFits, Reads, TypeOK
<1>14. ASSUME NEW p \in Starters, LockUsers(p) PROVE IndexFits'
  BY <1>14 DEF LockUsers, IndexFits, Reads, TypeOK
<1>15. ASSUME NEW p \in Starters, EditAccount(p) PROVE IndexFits'
  BY <1>15 DEF EditAccount, IndexFits, Reads, TypeOK
<1>16. ASSUME NEW p \in Starters, Stop(p) PROVE IndexFits'
  BY <1>16, EndsFrame DEF Stop, IndexFits, Reads
<1>17. ASSUME NEW p \in Starters, Killed(p) PROVE IndexFits'
  BY <1>17, EndsFrame DEF Killed, IndexFits, Reads
<1>18. CASE UNCHANGED vars
  BY <1>18 DEF vars, IndexFits, Reads
<1>19. QED
  BY <1>1, <1>2, <1>3, <1>4, <1>5, <1>6, <1>7, <1>8, <1>9, <1>10, <1>11, <1>12,
       <1>13, <1>14, <1>15, <1>16, <1>17, <1>18 DEF Next, Nodes, Selections, Work

\* No account file, on disk or in a copy, selects a node that is not there.
LEMMA StepSelections ==
    ASSUME TypeOK, Exclusive, IndexFits, CopiesFit, SelectionsExist, [Next]_vars
    PROVE  CopiesFit' /\ SelectionsExist'
<1> USE DEF files, locks, procs, history, Goto
<1>0. nodes \subseteq nodes'
  BY StepExclusive
<1>a. \A u \in Users : NoCopy.nodes[u] = {}
  BY DEF NoCopy
<1>1. ASSUME NEW p \in Starters, Start(p) PROVE CopiesFit' /\ SelectionsExist'
  BY <1>1 DEF Start, CopiesFit, SelectionsExist, Found, TypeOK
<1>2. ASSUME NEW p \in Starters, FoundNodes(p)
      PROVE  CopiesFit' /\ SelectionsExist'
  BY <1>2 DEF FoundNodes, CopiesFit, SelectionsExist, Found, TypeOK
<1>3. ASSUME NEW p \in Starters, NothingToMigrate(p)
      PROVE  CopiesFit' /\ SelectionsExist'
  BY <1>3 DEF NothingToMigrate, CopiesFit, SelectionsExist, Found, TypeOK
<1>4. ASSUME NEW p \in Starters, NoNodesYet(p)
      PROVE  CopiesFit' /\ SelectionsExist'
  BY <1>4 DEF NoNodesYet, CopiesFit, SelectionsExist, Found, TypeOK
<1>5. ASSUME NEW p \in Starters, LockNodes(p)
      PROVE  CopiesFit' /\ SelectionsExist'
  BY <1>5 DEF LockNodes, CopiesFit, SelectionsExist, Found, TypeOK
<1>6. ASSUME NEW p \in Starters, AddNode(p) PROVE CopiesFit' /\ SelectionsExist'
  BY <1>0, <1>6 DEF AddNode, CopiesFit, SelectionsExist, Found, TypeOK
<1>7. ASSUME NEW p \in Starters, AddRefused(p)
      PROVE  CopiesFit' /\ SelectionsExist'
  BY <1>a, <1>7 DEF AddRefused, Ends, FreedBy, CopiesFit, SelectionsExist, Found,
       TypeOK
<1>8. ASSUME NEW p \in Starters, AllAdded(p)
      PROVE  CopiesFit' /\ SelectionsExist'
  BY <1>8 DEF AllAdded, CopiesFit, SelectionsExist, Found, TypeOK
<1>9. ASSUME NEW p \in Starters, LoadIndex(p)
      PROVE  CopiesFit' /\ SelectionsExist'
  BY <1>9 DEF LoadIndex, CopiesFit, SelectionsExist, Found, TypeOK
<1>10. ASSUME NEW p \in Starters, UpToDate(p)
      PROVE  CopiesFit' /\ SelectionsExist'
  BY <1>10 DEF UpToDate, Unlocks, FreedBy, CopiesFit, SelectionsExist, Found,
       TypeOK
<1>11. ASSUME NEW p \in Starters, ReadOldAccounts(p)
      PROVE  CopiesFit' /\ SelectionsExist'
  BY <1>11 DEF ReadOldAccounts, CopiesFit, SelectionsExist, Found, TypeOK
<1>12. ASSUME NEW p \in Starters, SaveAccounts(p)
      PROVE  CopiesFit' /\ SelectionsExist'
  <2>1. \A k \in DOMAIN index[p] : index[p][k] \in Ids
    BY DEF TypeOK
  <2>2. \A k \in DOMAIN index[p] : index[p][k] \in Found
    BY <1>12 DEF SaveAccounts, IndexFits, Reads, Found
  <2>3. \A u \in Users : users'.nodes[u] =
            {index[p][k] : k \in old.selected[u] \cap DOMAIN index[p]}
    BY <1>12, <2>1, ConvertedType DEF SaveAccounts, TypeOK
  <2>4. \A u \in Users : users'.nodes[u] \subseteq Found
    BY <2>2, <2>3
  <2>5. nodes' = nodes /\ copy' = [copy EXCEPT ![p] = NoCopy]
    BY <1>12 DEF SaveAccounts
  <2>6. QED
    BY <1>a, <2>4, <2>5 DEF CopiesFit, SelectionsExist, Found, TypeOK
<1>13. ASSUME NEW p \in Starters, SaveState(p)
      PROVE  CopiesFit' /\ SelectionsExist'
  BY <1>13 DEF SaveState, CopiesFit, SelectionsExist, Found, TypeOK
<1>14. ASSUME NEW p \in Starters, LockUsers(p)
      PROVE  CopiesFit' /\ SelectionsExist'
  BY <1>14 DEF LockUsers, CopiesFit, SelectionsExist, Found, TypeOK
<1>15. ASSUME NEW p \in Starters, EditAccount(p)
      PROVE  CopiesFit' /\ SelectionsExist'
  <2>1. users'.nodes = copy[p].nodes
    BY <1>15 DEF EditAccount, TypeOK, Accounts
  <2>2. nodes' = nodes /\ copy' = [copy EXCEPT ![p] = NoCopy]
    BY <1>15 DEF EditAccount
  <2>3. QED
    BY <1>a, <2>1, <2>2 DEF CopiesFit, SelectionsExist, Found, TypeOK
<1>16. ASSUME NEW p \in Starters, Stop(p) PROVE CopiesFit' /\ SelectionsExist'
  BY <1>a, <1>16 DEF Stop, Ends, FreedBy, CopiesFit, SelectionsExist, Found, TypeOK
<1>17. ASSUME NEW p \in Starters, Killed(p) PROVE CopiesFit' /\ SelectionsExist'
  BY <1>a, <1>17 DEF Killed, Ends, FreedBy, CopiesFit, SelectionsExist, Found, TypeOK
<1>18. CASE UNCHANGED vars
  BY <1>18 DEF vars, CopiesFit, SelectionsExist, Found
<1>19. QED
  BY <1>1, <1>2, <1>3, <1>4, <1>5, <1>6, <1>7, <1>8, <1>9, <1>10, <1>11, <1>12,
       <1>13, <1>14, <1>15, <1>16, <1>17, <1>18 DEF Next, Nodes, Selections, Work

\* Who is past its start, or saw a state file without the old keys, has
\* accounts of this version; a copy that is about to be saved over an account
\* file that nobody has upgraded or edited since is that file.
VersionFits ==
    /\ AccountsReadable
    /\ ~keys => users.version = 2
    /\ \A p \in Starters :
        /\ pc[p] = "stat" /\ ~legacy[p] => users.version = 2
        /\ pc[p] = "edit" => copy[p].version = 2
        /\ pc[p] = "save" /\ users.version = 1 => copy[p] = users
        /\ pc[p] = "edit" /\ ~overtaken => copy[p].enabled = users.enabled

\* Nobody goes back to the old accounts.
LEMMA StepVersion ==
    ASSUME TypeOK, Exclusive, VersionFits, EditsSurvive, [Next]_vars
    PROVE  VersionFits' /\ EditsSurvive'
<1> USE DEF files, locks, procs, history, Goto
<1>1. ASSUME NEW p \in Starters, Start(p) PROVE VersionFits' /\ EditsSurvive'
  BY <1>1 DEF Start, VersionFits, AccountsReadable, EditsSurvive, TypeOK
<1>2. ASSUME NEW p \in Starters, FoundNodes(p)
      PROVE  VersionFits' /\ EditsSurvive'
  BY <1>2 DEF FoundNodes, VersionFits, AccountsReadable, EditsSurvive, TypeOK
<1>3. ASSUME NEW p \in Starters, NothingToMigrate(p)
      PROVE  VersionFits' /\ EditsSurvive'
  BY <1>3 DEF NothingToMigrate, VersionFits, AccountsReadable, EditsSurvive,
       TypeOK
<1>4. ASSUME NEW p \in Starters, NoNodesYet(p)
      PROVE  VersionFits' /\ EditsSurvive'
  BY <1>4 DEF NoNodesYet, VersionFits, AccountsReadable, EditsSurvive, TypeOK
<1>5. ASSUME NEW p \in Starters, LockNodes(p)
      PROVE  VersionFits' /\ EditsSurvive'
  BY <1>5 DEF LockNodes, VersionFits, AccountsReadable, EditsSurvive, TypeOK
<1>6. ASSUME NEW p \in Starters, AddNode(p) PROVE VersionFits' /\ EditsSurvive'
  BY <1>6 DEF AddNode, VersionFits, AccountsReadable, EditsSurvive, TypeOK
<1>7. ASSUME NEW p \in Starters, AddRefused(p)
      PROVE  VersionFits' /\ EditsSurvive'
  BY <1>7 DEF AddRefused, Ends, FreedBy, VersionFits, AccountsReadable,
       EditsSurvive, TypeOK
<1>8. ASSUME NEW p \in Starters, AllAdded(p) PROVE VersionFits' /\ EditsSurvive'
  BY <1>8 DEF AllAdded, VersionFits, AccountsReadable, EditsSurvive, TypeOK
<1>9. ASSUME NEW p \in Starters, LoadIndex(p)
      PROVE  VersionFits' /\ EditsSurvive'
  BY <1>9 DEF LoadIndex, VersionFits, AccountsReadable, EditsSurvive, TypeOK
<1>10. ASSUME NEW p \in Starters, UpToDate(p)
      PROVE  VersionFits' /\ EditsSurvive'
  BY <1>10 DEF UpToDate, Unlocks, FreedBy, VersionFits, AccountsReadable,
       EditsSurvive, TypeOK
<1>11. ASSUME NEW p \in Starters, ReadOldAccounts(p)
      PROVE  VersionFits' /\ EditsSurvive'
  BY <1>11 DEF ReadOldAccounts, VersionFits, AccountsReadable, EditsSurvive,
       TypeOK
<1>12. ASSUME NEW p \in Starters, SaveAccounts(p)
      PROVE  VersionFits' /\ EditsSurvive'
  <2>1. \A k \in DOMAIN index[p] : index[p][k] \in Ids
    BY DEF TypeOK
  <2>2. users'.version = 2 /\ users'.enabled = copy[p].enabled
    BY <1>12, <2>1, ConvertedType DEF SaveAccounts, TypeOK
  <2>3. ~overtaken' => users.version = 1 /\ copy[p] = users
    BY <1>12 DEF SaveAccounts, VersionFits, TypeOK, Accounts
  <2>4. VersionFits'
    BY <1>12, <2>2, <2>3 DEF SaveAccounts, VersionFits, AccountsReadable, TypeOK
  <2>5. EditsSurvive'
    BY <1>12, <2>2, <2>3 DEF SaveAccounts, EditsSurvive, TypeOK
  <2>6. QED
    BY <2>4, <2>5
<1>13. ASSUME NEW p \in Starters, SaveState(p)
      PROVE  VersionFits' /\ EditsSurvive'
  BY <1>13 DEF SaveState, VersionFits, AccountsReadable, EditsSurvive, TypeOK
<1>14. ASSUME NEW p \in Starters, LockUsers(p)
      PROVE  VersionFits' /\ EditsSurvive'
  BY <1>14 DEF LockUsers, VersionFits, AccountsReadable, EditsSurvive, TypeOK
<1>15. ASSUME NEW p \in Starters, EditAccount(p)
      PROVE  VersionFits' /\ EditsSurvive'
  <2>1. PICK u \in Users :
           /\ users' = [copy[p] EXCEPT !.enabled[u] = ~@]
           /\ decided' = [decided EXCEPT ![u] = ~@]
    BY <1>15 DEF EditAccount
  <2>2. /\ users'.version = copy[p].version
        /\ users'.enabled = [copy[p].enabled EXCEPT ![u] = ~@]
    BY <2>1 DEF TypeOK, Accounts
  <2>3. users'.version = 2
    BY <1>15, <2>2 DEF EditAccount, VersionFits
  <2>4. EditsSurvive'
    <3>1. overtaken' = overtaken /\ pc[p] = "edit"
      BY <1>15 DEF EditAccount
    <3>2. ~overtaken => copy[p].enabled = decided
      BY <3>1 DEF VersionFits, EditsSurvive
    <3>3. QED
      BY <2>1, <2>2, <3>1, <3>2 DEF EditsSurvive
  <2>5. \A q \in Starters : pc'[q] = "edit" => FALSE
    BY <1>15, MigrationConstants DEF EditAccount, Exclusive, TypeOK
  <2>6. VersionFits'
    BY <1>15, <2>3, <2>5 DEF EditAccount, VersionFits, AccountsReadable, TypeOK
  <2>7. QED
    BY <2>4, <2>6
<1>16. ASSUME NEW p \in Starters, Stop(p) PROVE VersionFits' /\ EditsSurvive'
  BY <1>16 DEF Stop, Ends, FreedBy, VersionFits, AccountsReadable,
       EditsSurvive, TypeOK
<1>17. ASSUME NEW p \in Starters, Killed(p) PROVE VersionFits' /\ EditsSurvive'
  BY <1>17 DEF Killed, Ends, FreedBy, VersionFits, AccountsReadable,
       EditsSurvive, TypeOK
<1>18. CASE UNCHANGED vars
  BY <1>18 DEF vars, VersionFits, AccountsReadable, EditsSurvive
<1>19. QED
  BY <1>1, <1>2, <1>3, <1>4, <1>5, <1>6, <1>7, <1>8, <1>9, <1>10, <1>11, <1>12,
       <1>13, <1>14, <1>15, <1>16, <1>17, <1>18 DEF Next, Nodes, Selections, Work


-----------------------------------------------------------------------------
\* Every protocol of the old host has its node.
Complete == old.enabled \subseteq Served(nodes)

\* Only a process that ended between its first and its last node leaves a file
\* of which a part is missing and nobody is adding it.  Who adds nodes has the
\* missing ones yet to do, and meets a name that is taken only if none is.
NodesFit ==
    /\ ~cut /\ nodes # {} => Complete \/ \E p \in Starters : pc[p] = "add"
    /\ \A p \in Starters :
        /\ pc[p] = "add" => /\ old.enabled \subseteq Served(nodes) \cup todo[p]
                            /\ ~cut => Complete \/ todo[p] \cap Served(nodes) = {}
        /\ pc[p] = "index" => nodes # {} \/ Complete
        /\ Reads(p) /\ ~cut /\ ~early => old.enabled \subseteq DOMAIN index[p]

\* The node file is whole when it is read, but for the two named causes.
LEMMA StepNodes ==
    ASSUME TypeOK, Exclusive, NodesFit, [Next]_vars
    PROVE  NodesFit'
<1> USE DEF files, locks, procs, history, Goto
<1>1. ASSUME NEW p \in Starters, Start(p) PROVE NodesFit'
  BY <1>1 DEF Start, NodesFit, Complete, Reads, TypeOK
<1>2. ASSUME NEW p \in Starters, FoundNodes(p) PROVE NodesFit'
  BY <1>2 DEF FoundNodes, NodesFit, Complete, Reads, TypeOK
<1>3. ASSUME NEW p \in Starters, NothingToMigrate(p) PROVE NodesFit'
  BY <1>3 DEF NothingToMigrate, NodesFit, Complete, Reads, TypeOK
<1>4. ASSUME NEW p \in Starters, NoNodesYet(p) PROVE NodesFit'
  BY <1>4 DEF NoNodesYet, NodesFit, Complete, Reads, TypeOK
<1>5. ASSUME NEW p \in Starters, LockNodes(p) PROVE NodesFit'
  <2>1. \A q \in Starters : pc[q] # "add"
    BY <1>5, MigrationConstants DEF LockNodes, Exclusive
  <2>2. todo'[p] = old.enabled /\ \A q \in Starters \ {p} : pc'[q] = pc[q]
    BY <1>5 DEF LockNodes, TypeOK
  <2>3. nodes = {} => Served(nodes) = {}
    BY DEF Served
  <2>4. ~cut => Complete \/ todo'[p] \cap Served(nodes) = {}
    BY <2>1, <2>3 DEF NodesFit
  <2>5. UNCHANGED <<old, nodes, index, cut, early>> /\ pc'[p] = "add"
    BY <1>5 DEF LockNodes, TypeOK
  <2>6. QED
    BY <2>1, <2>2, <2>4, <2>5 DEF NodesFit, Complete, Reads
<1>6. ASSUME NEW p \in Starters, AddNode(p) PROVE NodesFit'
  <2>1. PICK k \in Protocols :
           /\ nodes' = snap[p] \cup {[id |-> minted, protocol |-> k]}
           /\ todo' = [todo EXCEPT ![p] = @ \ {k}]
    BY <1>6 DEF AddNode, TypeOK
  <2>2. /\ UNCHANGED <<old, pc, index, cut, early>>
        /\ pc[p] = "add" /\ snap[p] = nodes /\ nodeLock = p
    BY <1>6 DEF AddNode, Exclusive
  <2> DEFINE new == [id |-> minted, protocol |-> k]
  <2>3. Served(nodes') = Served(nodes) \cup {k}
    <3>1. nodes' = nodes \cup {new} /\ new.protocol = k
      BY <2>1, <2>2
    <3> HIDE DEF new
    <3>2. QED
      BY <3>1 DEF Served
  <2>4. \A q \in Starters : pc[q] = "add" => q = p
    BY <2>2 DEF Exclusive
  <2>5. todo'[p] = todo[p] \ {k} /\ nodes' # {}
    BY <2>1 DEF TypeOK
  <2>6. QED
    BY <2>2, <2>3, <2>4, <2>5 DEF NodesFit, Complete, Reads
<1>7. ASSUME NEW p \in Starters, AddRefused(p) PROVE NodesFit'
  <2>1. PICK k \in todo[p] : cut' = (cut \/ k \notin Served(nodes))
    BY <1>7 DEF AddRefused, Following, NameTaken, Exclusive
  <2>2. pc[p] = "add" /\ Ends(p)
    BY <1>7 DEF AddRefused
  <2>3. ~cut' => ~cut /\ Complete
    BY <2>1, <2>2 DEF NodesFit
  <2>4. QED
    BY <2>2, <2>3, EndsFrame DEF NodesFit, Complete, Reads
<1>8. ASSUME NEW p \in Starters, AllAdded(p) PROVE NodesFit'
  <2>1. Complete
    BY <1>8 DEF AllAdded, NodesFit, Complete
  <2>2. /\ UNCHANGED <<old, nodes, todo, index, cut, early>> /\ pc'[p] = "index"
        /\ \A q \in Starters \ {p} : pc'[q] = pc[q]
    BY <1>8 DEF AllAdded, TypeOK
  <2>3. QED
    BY <2>1, <2>2 DEF NodesFit, Complete, Reads
<1>9. ASSUME NEW p \in Starters, LoadIndex(p) PROVE NodesFit'
  <2>1. /\ UNCHANGED <<old, nodes, todo, cut>> /\ pc[p] = "index"
        /\ index'[p] = ProtocolIndex(nodes) /\ pc'[p] = "read"
        /\ \A q \in Starters \ {p} : pc'[q] = pc[q] /\ index'[q] = index[q]
    BY <1>9 DEF LoadIndex, TypeOK
  <2>2. ~early' => ~early /\ \A q \in Starters : pc[q] = "add" => todo[q] = {}
    BY <1>9, <2>1 DEF LoadIndex
  <2>3. DOMAIN ProtocolIndex(nodes) = Served(nodes)
    BY ProtocolIndexFits DEF TypeOK
  <2>4. ~cut /\ ~early' => Complete
    BY <2>1, <2>2 DEF NodesFit, Complete
  <2>5. QED
    BY <2>1, <2>2, <2>3, <2>4 DEF NodesFit, Complete, Reads
<1>10. ASSUME NEW p \in Starters, UpToDate(p) PROVE NodesFit'
  BY <1>10 DEF UpToDate, Unlocks, FreedBy, NodesFit, Complete, Reads, TypeOK
<1>11. ASSUME NEW p \in Starters, ReadOldAccounts(p) PROVE NodesFit'
  BY <1>11 DEF ReadOldAccounts, NodesFit, Complete, Reads, TypeOK
<1>12. ASSUME NEW p \in Starters, SaveAccounts(p) PROVE NodesFit'
  BY <1>12 DEF SaveAccounts, Unlocks, FreedBy, NodesFit, Complete, Reads, TypeOK
<1>13. ASSUME NEW p \in Starters, SaveState(p) PROVE NodesFit'
  BY <1>13 DEF SaveState, NodesFit, Complete, Reads, TypeOK
<1>14. ASSUME NEW p \in Starters, LockUsers(p) PROVE NodesFit'
  BY <1>14 DEF LockUsers, NodesFit, Complete, Reads, TypeOK
<1>15. ASSUME NEW p \in Starters, EditAccount(p) PROVE NodesFit'
  BY <1>15 DEF EditAccount, NodesFit, Complete, Reads, TypeOK
<1>16. ASSUME NEW p \in Starters, Stop(p) PROVE NodesFit'
  BY <1>16, EndsFrame DEF Stop, NodesFit, Complete, Reads
<1>17. ASSUME NEW p \in Starters, Killed(p) PROVE NodesFit'
  <2>1. Ends(p) /\ cut' = (cut \/ (pc[p] = "add" /\ nodes # {} /\ todo[p] # {}))
    BY <1>17 DEF Killed
  <2>2. ~cut' /\ nodes # {} /\ pc[p] = "add" => Complete
    BY <2>1 DEF NodesFit, Complete
  <2>3. /\ UNCHANGED <<old, nodes, early>> /\ (~cut' => ~cut) /\ pc'[p] = "off"
        /\ \A q \in Starters \ {p} : /\ pc'[q] = pc[q] /\ index'[q] = index[q]
                                     /\ todo'[q] = todo[q]
    BY <2>1, EndsFrame
  <2>4. ~cut' /\ nodes # {} => Complete \/ \E q \in Starters \ {p} : pc[q] = "add"
    BY <2>2, <2>3 DEF NodesFit
  <2>5. ~cut' /\ nodes' # {} => Complete' \/ \E q \in Starters : pc'[q] = "add"
    BY <2>3, <2>4 DEF Complete
  <2>6. QED
    BY <2>3, <2>5 DEF NodesFit, Complete, Reads
<1>18. CASE UNCHANGED vars
  BY <1>18 DEF vars, NodesFit, Complete, Reads
<1>19. QED
  BY <1>1, <1>2, <1>3, <1>4, <1>5, <1>6, <1>7, <1>8, <1>9, <1>10, <1>11, <1>12,
       <1>13, <1>14, <1>15, <1>16, <1>17, <1>18 DEF Next, Nodes, Selections, Work

\* us selects the node of every protocol that was enabled and selected.
Keeps(us) == \A u \in Users : \A k \in old.selected[u] \cap old.enabled :
    \E n \in nodes : n.protocol = k /\ n.id \in us.nodes[u]

\* Nothing is lost, in the file or in a copy that will replace it.
KeptFits ==
    /\ SelectionsKept
    /\ ~cut /\ ~early => \A p \in Starters : pc[p] = "edit" => Keeps(copy[p])

\* No selection is lost on the way.
LEMMA StepKept ==
    ASSUME TypeOK, Exclusive, IndexFits, VersionFits, NodesFit, KeptFits, [Next]_vars
    PROVE  KeptFits'
<1> USE DEF files, locks, procs, history, Goto
<1>0. nodes \subseteq nodes'
  BY StepExclusive
<1>1. ASSUME NEW p \in Starters, Start(p) PROVE KeptFits'
  BY <1>1 DEF Start, KeptFits, SelectionsKept, Keeps, TypeOK
<1>2. ASSUME NEW p \in Starters, FoundNodes(p) PROVE KeptFits'
  BY <1>2 DEF FoundNodes, KeptFits, SelectionsKept, Keeps, TypeOK
<1>3. ASSUME NEW p \in Starters, NothingToMigrate(p) PROVE KeptFits'
  BY <1>3 DEF NothingToMigrate, KeptFits, SelectionsKept, Keeps, TypeOK
<1>4. ASSUME NEW p \in Starters, NoNodesYet(p) PROVE KeptFits'
  BY <1>4 DEF NoNodesYet, KeptFits, SelectionsKept, Keeps, TypeOK
<1>5. ASSUME NEW p \in Starters, LockNodes(p) PROVE KeptFits'
  BY <1>5 DEF LockNodes, KeptFits, SelectionsKept, Keeps, TypeOK
<1>6. ASSUME NEW p \in Starters, AddNode(p) PROVE KeptFits'
  <2>1. UNCHANGED <<old, users, pc, copy, cut, early>>
    BY <1>6 DEF AddNode
  <2>2. QED
    BY <1>0, <2>1 DEF KeptFits, SelectionsKept, Keeps
<1>7. ASSUME NEW p \in Starters, AddRefused(p) PROVE KeptFits'
  <2>1. Ends(p) /\ (~cut' => ~cut)
    BY <1>7 DEF AddRefused
  <2>2. QED
    BY <2>1, EndsFrame DEF KeptFits, SelectionsKept, Keeps
<1>8. ASSUME NEW p \in Starters, AllAdded(p) PROVE KeptFits'
  BY <1>8 DEF AllAdded, KeptFits, SelectionsKept, Keeps, TypeOK
<1>9. ASSUME NEW p \in Starters, LoadIndex(p) PROVE KeptFits'
  <2>1. UNCHANGED <<old, nodes, users, copy, cut>> /\ (~early' => ~early)
    BY <1>9 DEF LoadIndex
  <2>2. \A q \in Starters : pc'[q] = "edit" => pc[q] = "edit"
    BY <1>9 DEF LoadIndex, TypeOK
  <2>3. QED
    BY <2>1, <2>2 DEF KeptFits, SelectionsKept, Keeps
<1>10. ASSUME NEW p \in Starters, UpToDate(p) PROVE KeptFits'
  BY <1>10 DEF UpToDate, Unlocks, FreedBy, KeptFits, SelectionsKept, Keeps,
       TypeOK
<1>11. ASSUME NEW p \in Starters, ReadOldAccounts(p) PROVE KeptFits'
  BY <1>11 DEF ReadOldAccounts, KeptFits, SelectionsKept, Keeps, TypeOK
<1>12. ASSUME NEW p \in Starters, SaveAccounts(p) PROVE KeptFits'
  <2>1. \A k \in DOMAIN index[p] : index[p][k] \in Ids
    BY DEF TypeOK
  <2>2. \A u \in Users : users'.nodes[u] =
            {index[p][k] : k \in old.selected[u] \cap DOMAIN index[p]}
    BY <1>12, <2>1, ConvertedType DEF SaveAccounts, TypeOK
  <2>3. /\ UNCHANGED <<old, nodes, cut, early>> /\ Reads(p)
        /\ \A q \in Starters : pc'[q] = "edit" => pc[q] = "edit" /\ copy'[q] = copy[q]
    BY <1>12 DEF SaveAccounts, TypeOK, Reads
  <2>4. ASSUME ~cut, ~early,
               NEW u \in Users, NEW k \in old.selected[u] \cap old.enabled
        PROVE  \E n \in nodes : n.protocol = k /\ n.id \in users'.nodes[u]
    <3>1. k \in DOMAIN index[p]
      BY <2>3, <2>4 DEF NodesFit
    <3>2. PICK n \in nodes : n.protocol = k /\ n.id = index[p][k]
      BY <2>3, <3>1 DEF IndexFits
    <3>3. QED
      BY <2>2, <3>1, <3>2
  <2>5. QED
    BY <2>3, <2>4 DEF KeptFits, SelectionsKept, Keeps
<1>13. ASSUME NEW p \in Starters, SaveState(p) PROVE KeptFits'
  BY <1>13 DEF SaveState, KeptFits, SelectionsKept, Keeps, TypeOK
<1>14. ASSUME NEW p \in Starters, LockUsers(p) PROVE KeptFits'
  <2>1. /\ UNCHANGED <<old, nodes, users, cut, early>> /\ users.version = 2
        /\ copy'[p] = users
        /\ \A q \in Starters \ {p} : pc'[q] = pc[q] /\ copy'[q] = copy[q]
    BY <1>14 DEF LockUsers, TypeOK
  <2>2. QED
    BY <2>1 DEF KeptFits, SelectionsKept, Keeps
<1>15. ASSUME NEW p \in Starters, EditAccount(p) PROVE KeptFits'
  <2>1. users'.nodes = copy[p].nodes
    BY <1>15 DEF EditAccount, TypeOK, Accounts
  <2>2. /\ UNCHANGED <<old, nodes, cut, early>> /\ pc[p] = "edit"
        /\ \A q \in Starters : pc'[q] = "edit" => pc[q] = "edit" /\ copy'[q] = copy[q]
    BY <1>15 DEF EditAccount, TypeOK
  <2>3. QED
    BY <2>1, <2>2 DEF KeptFits, SelectionsKept, Keeps
<1>16. ASSUME NEW p \in Starters, Stop(p) PROVE KeptFits'
  BY <1>16, EndsFrame DEF Stop, KeptFits, SelectionsKept, Keeps
<1>17. ASSUME NEW p \in Starters, Killed(p) PROVE KeptFits'
  <2>1. Ends(p) /\ (~cut' => ~cut)
    BY <1>17 DEF Killed
  <2>2. QED
    BY <2>1, EndsFrame DEF KeptFits, SelectionsKept, Keeps
<1>18. CASE UNCHANGED vars
  BY <1>18 DEF vars, KeptFits, SelectionsKept, Keeps
<1>19. QED
  BY <1>1, <1>2, <1>3, <1>4, <1>5, <1>6, <1>7, <1>8, <1>9, <1>10, <1>11, <1>12,
       <1>13, <1>14, <1>15, <1>16, <1>17, <1>18 DEF Next, Nodes, Selections, Work

-----------------------------------------------------------------------------
\* The inductive invariant.  The names taken make OneNodeEach inductive only with
\* the lock (Exclusive); a dangling selection is excluded by what was read of the
\* nodes (IndexFits) and by the copies (CopiesFit); what is kept depends on
\* whether the file was whole when it was read (NodesFit).
UpgradeInv ==
    /\ TypeOK /\ Exclusive /\ OneNodeEach
    /\ IndexFits /\ CopiesFit /\ SelectionsExist
    /\ VersionFits /\ EditsSurvive
    /\ NodesFit /\ KeptFits

\* The invariant of upgrades holds at the start,
LEMMA InitUpgrade == Init => UpgradeInv
<1> SUFFICES ASSUME Init PROVE UpgradeInv
  OBVIOUS
<1>1. TypeOK
  BY InitType
<1>2. /\ NoCopy.version = 1
      /\ \A u \in Users : NoCopy.nodes[u] = {} /\ NoCopy.enabled[u]
  BY DEF NoCopy
<1>3. \A p \in Starters : pc[p] = "off" /\ copy[p] = NoCopy
  BY DEF Init
<1>4. Exclusive /\ OneNodeEach /\ IndexFits /\ NodesFit
  BY <1>3 DEF Init, Exclusive, OneNodeEach, IndexFits, NodesFit, Reads
<1>5. CopiesFit /\ SelectionsExist
  BY <1>2, <1>3 DEF Init, CopiesFit, SelectionsExist, Found
<1>6. VersionFits /\ KeptFits
  BY <1>2, <1>3 DEF Init, VersionFits, AccountsReadable, KeptFits, SelectionsKept
<1>7. EditsSurvive
  BY DEF Init, EditsSurvive, NoCopy
<1>8. QED
  BY <1>1, <1>4, <1>5, <1>6, <1>7 DEF UpgradeInv

\* and every step keeps it.
LEMMA NextUpgrade == UpgradeInv /\ [Next]_vars => UpgradeInv'
BY NextType, StepExclusive, StepOneNodeEach, StepIndexFits, StepSelections,
   StepVersion, StepNodes, StepKept DEF UpgradeInv

\* The inductive invariant holds throughout.
THEOREM UpgradeInvariant == Spec => []UpgradeInv
BY InitUpgrade, NextUpgrade, PTL DEF Spec

\* Every variable keeps its type.
THEOREM MigrationTypeCorrect == Spec => []TypeOK
BY UpgradeInvariant, PTL DEF UpgradeInv

\* However many processes upgrade the host at once, wherever they are killed, a
\* protocol becomes at most one node (node.Migrate under node.Locked).
THEOREM NeverTwoNodes == Spec => []OneNodeEach
BY UpgradeInvariant, PTL DEF UpgradeInv

\* No account selects a node that does not exist (user.MigrateV2 through
\* node.ProtocolIndex).
THEOREM SelectionsAlwaysExist == Spec => []SelectionsExist
BY UpgradeInvariant, PTL DEF UpgradeInv

\* A selection is lost only if a process ended halfway through its nodes, or
\* another one read the node file at that moment.
THEOREM SelectionsAlwaysKept == Spec => []SelectionsKept
<1>1. UpgradeInv => SelectionsKept
  BY DEF UpgradeInv, KeptFits
<1>2. QED
  BY <1>1, UpgradeInvariant, PTL

\* Who gets past its start finds an account file of this version
\* (main.migrateStores).
THEOREM AccountsAlwaysReadable == Spec => []AccountsReadable
<1>1. UpgradeInv => AccountsReadable
  BY DEF UpgradeInv, VersionFits
<1>2. QED
  BY <1>1, UpgradeInvariant, PTL

\* A change of an account is undone only by an upgrade that had read the old
\* file before (user.MigrateV2 saves without the account lock).
THEOREM EditsAlwaysSurvive == Spec => []EditsSurvive
BY UpgradeInvariant, PTL DEF UpgradeInv

=============================================================================
