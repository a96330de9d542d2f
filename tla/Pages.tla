------------------------------- MODULE Pages -------------------------------
(***************************************************************************)
(* The pages of the panel (internal/tui): a stack of menus with one cursor,*)
(* prompts and tasks opened from their rows, and the account and node      *)
(* files behind them, which other processes change too.  Menus are built   *)
(* when a page is pushed and keep what they captured: tokens, node ids,    *)
(* and the list their first row opens.  Timing inside a task, and leaving  *)
(* the panel, are in module Panel.                                         *)
(***************************************************************************)
EXTENDS Integers, Sequences, FiniteSets, SequencesExt

CONSTANTS Names,        \* names an account can be given
          NodeIds,      \* nodes that can exist
          Published,    \* most kernels a fetch can list
          BoxRows,      \* rows the box of a section page shows in one column
          MaxActs       \* bound on prompts, tasks, fetches of the kernel list and
                        \* changes by other processes, together

ASSUME PagesAssumption ==
    /\ IsFiniteSet(Names) /\ Cardinality(Names) >= 2
    /\ NodeIds \subseteq Nat \ {0} /\ IsFiniteSet(NodeIds) /\ NodeIds # {}
    /\ {Published, BoxRows} \subseteq Nat \ {0}
    /\ MaxActs \in Nat

(* The files, and what the panel last read of them for its labels.         *)
VARIABLES
    accounts,  \* the account file: who, name, token and chosen nodes
    nodes,     \* the node file: ids in order
    seen,      \* a.accounts and a.nodes
    issued     \* tokens handed out so far; the first of an account names it

(* What is on screen.                                                      *)
VARIABLES
    stack, index, section,
    system,    \* the system page is open
    form,      \* the open prompt
    task,      \* the task screen
    cards,     \* the grid of links: how many, and its cursor
    fetches    \* fetches of the kernel list on their way

(* History and bounds.                                                     *)
VARIABLES
    entered,   \* the row of the main menu walked through last
    hit,       \* the account a finished task was meant for, and the one it changed
    moved,     \* another process changed accounts since the prompt or task began
    acts

files == <<accounts, nodes, seen, issued>>
place == <<stack, index, section, system>>
overlays == <<form, task, cards>>
history == <<entered, hit, moved>>
vars == <<files, place, overlays, fetches, history, acts>>

NoForm == [op |-> "none", of |-> 0, name |-> "", who |-> 0]
NoTask == [at |-> "none", ask |-> NoForm, to |-> "", pick |-> 0]
NoCards == [count |-> 0, cursor |-> 0]
NoHit == [meant |-> 0, got |-> 0, byName |-> FALSE]

-----------------------------------------------------------------------------
(* The account file.                                                       *)

WithToken(s, t) == {i \in DOMAIN s : s[i].token = t}
WithName(s, n) == {i \in DOMAIN s : s[i].name = n}
Unused(n) == WithName(accounts, n) = {}

\* The account a token was given to.
Holder(t) == {accounts[i].who : i \in WithToken(accounts, t)}

Account(t, name, picks) == [who |-> t, name |-> name, token |-> t, picks |-> picks]

-----------------------------------------------------------------------------
(* Pages and their rows.                                                   *)

Page(id, of, list) == [id |-> id, of |-> of, list |-> list]

\* Entries that open a page of plain tasks and prompts are all like "domain".
Root == <<"node", "domain", "subscribe", "users", "system", "bbr">>
Sections == {"domain", "subscribe", "bbr"}

TokensOf(s) == [i \in DOMAIN s |-> s[i].token]

usersMenu(s) == Page("users", 0, TokensOf(s.accounts))
userListMenu(list) == Page("user-list", 0, list)
accountPicker(s, act) == Page(act, 0, TokensOf(s.accounts))
userMenu(t) == Page("user-detail", t, seen.nodes)
userNodesMenu(t, list) == Page("user-nodes", t, list)
nodeMenu(s) == Page("node", 0, s.nodes)
nodeListMenu(list) == Page("node-list", 0, list)
nodeDetailMenu(n) ==
    IF n \in ToSet(seen.nodes) THEN Page("node-detail", n, <<>>) ELSE nodeMenu(seen)
bbrVersionsMenu == Page("bbr-versions", 0, <<0>>)

Pickers == {"pick-cards", "pick-task"}
Lists == {"user-list", "user-nodes", "node-list"} \cup Pickers

\* The rows of a page; an empty list has one row that offers to fill it.
Count(p) ==
    CASE p.id = "root" -> Len(Root)
      [] p.id \in Lists -> IF p.list = <<>> THEN 1 ELSE Len(p.list)
      [] p.id = "bbr-versions" -> Len(p.list)
      [] p.id \in {"user-detail"} -> 7
      [] p.id \in {"subscribe", "node", "node-detail"} -> 3
      [] p.id \in {"users", "bbr"} -> 2
      [] OTHER -> 1

Top == stack[Len(stack)]
hasNavRow == Len(stack) > 1
itemCount == Count(Top) + (IF hasNavRow THEN 1 ELSE 0)
onNavRow == hasNavRow /\ index >= Count(Top)

Inside(k) == \E i \in 2..Len(stack) : stack[i].id = Root[k]
FirstInside == {k \in DOMAIN Root : Inside(k) /\ \A m \in 1..(k - 1) : ~Inside(m)}

\* The first entry of the main menu with a page on the stack.
sectionID ==
    IF section # "" THEN section
    ELSE IF FirstInside = {} THEN "" ELSE Root[CHOOSE k \in FirstInside : TRUE]

Push(p) == stack' = Append(stack, p) /\ index' = 0

Pop ==
    /\ stack' = Front(stack) /\ index' = 0
    /\ section' = IF Len(stack) = 2 THEN "" ELSE section

-----------------------------------------------------------------------------
(* The cursor.                                                             *)

colHalf == (itemCount + 1) \div 2

\* The columns the page is drawn in, on a narrow or a wide terminal.
menuColumns(wide) ==
    IF wide /\ (sectionID = "" \/ itemCount > BoxRows) THEN 2 ELSE 1

columnStart == IF index < colHalf THEN 0 ELSE colHalf
columnHeight == IF index < colHalf THEN colHalf ELSE itemCount - colHalf

Moved(wide, d) ==
    IF menuColumns(wide) < 2 THEN (index + d + itemCount) % itemCount
    ELSE columnStart + ((index - columnStart + d + columnHeight) % columnHeight)

LesserOf(i, j) == IF i < j THEN i ELSE j

MovedAside(d) ==
    CASE index < colHalf /\ d > 0 ->
            colHalf + LesserOf(index, itemCount - colHalf - 1)
      [] index >= colHalf /\ d < 0 -> LesserOf(index - colHalf, colHalf - 1)
      [] OTHER -> index

AtPage == form = NoForm /\ task = NoTask /\ cards = NoCards /\ ~system

moveRows ==
    /\ AtPage /\ \E wide \in BOOLEAN, d \in {-1, 1} : index' = Moved(wide, d)
    /\ UNCHANGED <<files, stack, section, system, overlays, fetches, history, acts>>

moveColumn ==
    /\ AtPage /\ menuColumns(TRUE) = 2 /\ \E d \in {-1, 1} : index' = MovedAside(d)
    /\ UNCHANGED <<files, stack, section, system, overlays, fetches, history, acts>>

\* A digit picks a row, 0 the way back.
Digit ==
    /\ AtPage
    /\ \/ hasNavRow /\ index' = Count(Top)
       \/ \E n \in 1..LesserOf(9, Count(Top)) : index' = n - 1
    /\ UNCHANGED <<files, stack, section, system, overlays, fetches, history, acts>>

\* esc, or enter on the row that leads back.
Back ==
    /\ AtPage /\ Len(stack) > 1 /\ Pop
    /\ UNCHANGED <<files, system, overlays, fetches, history, acts>>

-----------------------------------------------------------------------------
(* What the rows do.                                                       *)

\* Enter runs the row under the cursor, counted from one.
EnterOn(id, row) == AtPage /\ ~onNavRow /\ Top.id = id /\ index + 1 = row
Listed == Top.list[index + 1]

\* The main menu: only an entry with a page of its own sets the section.
EnterRoot ==
    /\ AtPage /\ Top.id = "root" /\ entered' = Root[index + 1]
    /\ \/ /\ entered' \in Sections
          /\ section' = entered' /\ Push(Page(entered', 0, <<>>))
          /\ UNCHANGED <<seen, system>>
       \/ /\ entered' = "users"
          /\ seen' = [accounts |-> accounts, nodes |-> nodes] /\ Push(usersMenu(seen'))
          /\ UNCHANGED <<section, system>>
       \/ /\ entered' = "node"
          /\ seen' = [seen EXCEPT !.nodes = nodes] /\ Push(nodeMenu(seen'))
          /\ UNCHANGED <<section, system>>
       \/ /\ entered' = "system"
          /\ section' = "system" /\ system' = TRUE
          /\ UNCHANGED <<seen, stack, index>>
    /\ UNCHANGED <<accounts, nodes, issued, overlays, fetches, hit, moved, acts>>

CloseSystem ==
    /\ system /\ system' = FALSE /\ section' = ""
    /\ UNCHANGED <<files, stack, index, overlays, fetches, history, acts>>

\* A row that pushes the page it captured, or builds it from the snapshot.
EnterPage ==
    /\ \/ EnterOn("users", 1) /\ Push(userListMenu(Top.list)) /\ UNCHANGED seen
       \/ EnterOn("user-list", index + 1) /\ Top.list # <<>> /\ Push(userMenu(Listed))
          /\ UNCHANGED seen
       \/ EnterOn("user-detail", 4) /\ Push(userNodesMenu(Top.of, Top.list)) /\ UNCHANGED seen
       \/ EnterOn("node", 1) /\ Push(nodeListMenu(Top.list)) /\ UNCHANGED seen
       \/ EnterOn("node", 3) /\ Push(Page("params", 0, <<>>)) /\ UNCHANGED seen
       \/ EnterOn("node-list", index + 1) /\ Top.list # <<>> /\ Push(nodeDetailMenu(Listed))
          /\ UNCHANGED seen
       \/ /\ EnterOn("subscribe", index + 1) /\ index < 2
          /\ seen' = [seen EXCEPT !.accounts = accounts]
          /\ Push(accountPicker(seen', IF index = 0 THEN "pick-cards" ELSE "pick-task"))
    /\ UNCHANGED <<accounts, nodes, issued, section, system, overlays, fetches, history, acts>>

EnterVersions ==
    /\ EnterOn("bbr", 2) /\ acts < MaxActs /\ acts' = acts + 1
    /\ fetches' = fetches + 1 /\ Push(bbrVersionsMenu)
    /\ UNCHANGED <<files, section, system, overlays, history>>

\* The grid of one account's endpoints or share links; without an account, a
\* domain or a link there is only a message.
ShowCards(t) ==
    /\ WithToken(accounts, t) # {}
    /\ \E n \in 1..3 : cards' = [count |-> n, cursor |-> 0]
    /\ UNCHANGED <<files, place, form, task, fetches, history, acts>>

EnterCards ==
    \/ EnterOn("user-detail", 1) /\ ShowCards(Top.of)
    \/ EnterOn("pick-cards", index + 1) /\ Top.list # <<>> /\ ShowCards(Listed)

\* The grid has one to three columns, depending on the terminal.
MoveCards ==
    /\ cards # NoCards
    /\ \/ \E d \in {-3, -2, -1, 1, 2, 3} :
            LET to == cards.cursor + d
            IN  cards' = [cards EXCEPT !.cursor =
                            IF to < 0 THEN 0 ELSE LesserOf(to, cards.count - 1)]
       \/ \E n \in 1..cards.count : cards' = [cards EXCEPT !.cursor = n - 1]
       \/ cards' = NoCards
    /\ UNCHANGED <<files, place, form, task, fetches, history, acts>>

-----------------------------------------------------------------------------
(* Prompts.                                                                *)

\* What a prompt or a task is about: a page's token or node, the name it looks
\* the account up by, if it does, and the account the operator means.
About(op, of, name) ==
    [op |-> op, of |-> of, name |-> name,
     who |-> IF Holder(of) = {} THEN 0 ELSE CHOOSE w \in Holder(of) : TRUE]

Begin == /\ acts < MaxActs /\ acts' = acts + 1 /\ moved' = FALSE
         /\ UNCHANGED <<files, place, cards, fetches, entered, hit>>

OpenForm(op, of, name) == Begin /\ form' = About(op, of, name) /\ UNCHANGED task

\* A prompt about an account reads the file and keeps the name it finds.
UserForm(op, t) ==
    \E i \in WithToken(accounts, t) : OpenForm(op, t, accounts[i].name)

\* A prompt about a node only opens for a node that exists.
NodeForm(op, n) == n \in ToSet(nodes) /\ OpenForm(op, n, "")

\* The one row of an empty list.
EnterNone(lists) == \E id \in lists : EnterOn(id, 1) /\ Top.list = <<>>

EnterForm ==
    \/ EnterOn("users", 2) /\ OpenForm("add-user", 0, "")
    \/ EnterNone({"user-list"} \cup Pickers) /\ OpenForm("add-user", 0, "")
    \/ EnterOn("user-detail", 2) /\ UserForm("rename", Top.of)
    \/ EnterOn("user-detail", 3) /\ UserForm("edit", Top.of)
    \/ EnterOn("user-detail", 7) /\ UserForm("delete", Top.of)
    \/ EnterOn("node", 2) /\ OpenForm("name-node", 0, "")
    \/ EnterNone({"user-nodes", "node-list"}) /\ OpenForm("name-node", 0, "")
    \/ EnterOn("node-new-proto", 1) /\ OpenForm("add-node", 0, "")
    \/ EnterOn("node-detail", 2) /\ NodeForm("edit-node", Top.of)
    \/ EnterOn("node-detail", 3) /\ NodeForm("delete-node", Top.of)

\* esc drops a prompt.
DropForm ==
    /\ form # NoForm /\ form' = NoForm
    /\ UNCHANGED <<files, place, task, cards, fetches, history, acts>>

\* The name of a new node is followed by the choice of its protocol.
SubmitName ==
    /\ form.op = "name-node" /\ form' = NoForm /\ Push(Page("node-new-proto", 0, <<>>))
    /\ UNCHANGED <<files, section, system, task, cards, fetches, history, acts>>

\* An accepted value starts the task; a refused one leaves the prompt open.
SubmitForm ==
    /\ form # NoForm /\ form.op # "name-node" /\ form' = NoForm
    /\ \E to \in (IF form.op \in {"add-user", "rename"} THEN Names ELSE {""}) :
          task' = [at |-> "runs", ask |-> form, to |-> to, pick |-> 0]
    /\ UNCHANGED <<files, place, cards, fetches, history, acts>>

-----------------------------------------------------------------------------
(* Tasks.                                                                  *)

StartTask(ask, pick) ==
    /\ Begin /\ UNCHANGED form
    /\ task' = [at |-> "runs", ask |-> ask, to |-> "", pick |-> pick]

\* Mutant: the account is looked up by the name its label shows.
UserTaskByName(op, t, n) ==
    \E i \in WithToken(seen.accounts, t) : StartTask(About(op, t, seen.accounts[i].name), n)

\* Switch, reset and rotate, and a box of the page of nodes, act by token.
UserTask(op, t, n) == StartTask(About(op, t, ""), n)

\* A row that starts a task of another component.
PlainRow ==
    \/ EnterOn("domain", 1) \/ EnterOn("params", 1) \/ EnterOn("bbr", 1)
    \/ EnterOn("subscribe", 3)
    \/ EnterOn("pick-task", index + 1) /\ Top.list # <<>>
    \/ EnterOn("bbr-versions", index + 1) /\ Listed > 0

EnterTask ==
    \/ PlainRow /\ StartTask(About("plain", 0, ""), 0)
    \/ EnterOn("user-detail", 5) /\ UserTask("switch", Top.of, 0)
    \/ EnterOn("user-detail", 6) /\ UserTask("rotate", Top.of, 0)
    \/ EnterOn("user-nodes", index + 1) /\ Top.list # <<>> /\ UserTask("pick", Top.of, Listed)
    \/ EnterOn("node-detail", 1) /\ StartTask(About("edit-node", 0, ""), Top.of)

\* The account a task changes: by the name of its prompt, or by token.
Subject(k) == IF k.ask.name # "" THEN WithName(accounts, k.ask.name)
              ELSE WithToken(accounts, k.ask.of)

UserOps == {"rename", "edit", "delete", "switch", "rotate", "pick"}

\* One locked cycle: the file is read, changed and saved.  What a switch, a
\* reset or a field holds is in module Accounts.
ChangeUser(i) ==
    /\ task.ask.op \in UserOps /\ i \in Subject(task)
    /\ hit' = [meant |-> task.ask.who, got |-> accounts[i].who, byName |-> task.ask.name # ""]
    /\ CASE task.ask.op = "rename" ->
              /\ task.to = accounts[i].name \/ Unused(task.to)
              /\ accounts' = [accounts EXCEPT ![i].name = task.to] /\ UNCHANGED issued
         [] task.ask.op = "delete" -> accounts' = RemoveAt(accounts, i) /\ UNCHANGED issued
         [] task.ask.op = "rotate" ->
              /\ issued' = issued + 1
              /\ accounts' = [accounts EXCEPT ![i].token = issued']
         [] task.ask.op = "pick" ->
              /\ task.pick \in ToSet(nodes) /\ UNCHANGED issued
              /\ accounts' = [accounts EXCEPT ![i].picks =
                                IF task.pick \in @ THEN @ \ {task.pick} ELSE @ \cup {task.pick}]
         [] OTHER -> UNCHANGED <<accounts, issued>>

AddUser ==
    /\ task.ask.op = "add-user" /\ Unused(task.to) /\ issued' = issued + 1
    /\ accounts' = Append(accounts, Account(issued', task.to, ToSet(nodes)))

ChangeNode ==
    \/ /\ task.ask.op = "add-node" /\ \E n \in NodeIds \ ToSet(nodes) : nodes' = Append(nodes, n)
       /\ UNCHANGED accounts
    \/ /\ task.ask.op = "delete-node" /\ \E i \in DOMAIN nodes :
             nodes[i] = task.ask.of /\ nodes' = RemoveAt(nodes, i)
       /\ accounts' = [i \in DOMAIN accounts |->
                          [accounts[i] EXCEPT !.picks = @ \ {task.ask.of}]]

\* A task changes what it was asked to, or fails and changes nothing.
Run ==
    /\ task.at = "runs" /\ task' = [task EXCEPT !.at = "over"]
    /\ \/ \E i \in DOMAIN accounts : ChangeUser(i) /\ UNCHANGED nodes
       \/ AddUser /\ UNCHANGED <<nodes, hit>>
       \/ ChangeNode /\ UNCHANGED <<issued, hit>>
       \/ UNCHANGED <<accounts, nodes, issued, hit>>
    /\ UNCHANGED <<seen, place, form, cards, fetches, entered, moved, acts>>

\* The menus after a task: the first page of the section is rebuilt, and the
\* page on top where it is the list.
Rebuilt(s, id, page, list, listPage) ==
    LET at == {i \in DOMAIN s : s[i].id = id /\ \A j \in 1..(i - 1) : s[j].id # id}
    IN  [i \in DOMAIN s |-> IF i \in at THEN page
                            ELSE IF i = Len(s) /\ s[i].id = list THEN listPage ELSE s[i]]

Done ==
    /\ task.at = "over" /\ task' = [task EXCEPT !.at = "done"]
    /\ seen' = [accounts |-> accounts, nodes |-> nodes]
    /\ LET users == usersMenu(seen')
           node == nodeMenu(seen')
       IN  stack' = Rebuilt(Rebuilt(stack, "users", users, "user-list", userListMenu(users.list)),
                            "node", node, "node-list", nodeListMenu(node.list))
    /\ UNCHANGED <<accounts, nodes, issued, index, section, system, form, cards, fetches,
                   history, acts>>

\* esc leaves a finished task.
LeaveTask ==
    /\ task.at = "done" /\ task' = NoTask /\ hit' = NoHit
    /\ UNCHANGED <<files, place, form, cards, fetches, entered, moved, acts>>

-----------------------------------------------------------------------------
(* Fetches of the kernel list, and other processes.                        *)

\* The page is redrawn if it is still on top; its rows are zeros until a list
\* is there: loading, failed, nothing published.
Land(rows) ==
    /\ stack' = [stack EXCEPT ![Len(stack)].list = rows]
    /\ index' = IF index >= Len(rows) THEN 0 ELSE index

FetchLands ==
    /\ fetches > 0 /\ fetches' = fetches - 1
    /\ \E n \in 0..Published :
          IF Top.id = "bbr-versions"
          THEN Land(IF n = 0 THEN <<0>> ELSE [i \in 1..n |-> i])
          ELSE UNCHANGED <<stack, index>>
    /\ UNCHANGED <<files, section, system, overlays, history, acts>>

Other == acts < MaxActs /\ acts' = acts + 1
         /\ UNCHANGED <<seen, place, overlays, fetches, entered, hit>>

\* Another panel, or provisioning, changes the accounts.
OtherAccounts ==
    /\ moved' = TRUE /\ UNCHANGED nodes
    /\ \/ \E i \in DOMAIN accounts :
             \/ /\ \E n \in Names : Unused(n) /\ accounts' = [accounts EXCEPT ![i].name = n]
                /\ UNCHANGED issued
             \/ accounts' = RemoveAt(accounts, i) /\ UNCHANGED issued
             \/ /\ issued' = issued + 1
                /\ accounts' = [accounts EXCEPT ![i].token = issued']
       \/ /\ issued' = issued + 1
          /\ \E n \in Names : /\ Unused(n)
                              /\ accounts' = Append(accounts, Account(issued', n, {}))
    /\ Other

OtherNodes ==
    /\ \/ \E n \in NodeIds \ ToSet(nodes) : nodes' = Append(nodes, n)
       \/ \E i \in DOMAIN nodes : nodes' = RemoveAt(nodes, i)
    /\ UNCHANGED <<accounts, issued, moved>>
    /\ Other

-----------------------------------------------------------------------------
Init ==
    /\ \E s \in {f \in [1..2 -> Names] : f[1] # f[2]} :
          accounts = [i \in 1..2 |-> Account(i, s[i], {})]
    /\ nodes \in {<<>>} \cup {<<n>> : n \in NodeIds}
    /\ seen = [accounts |-> <<>>, nodes |-> <<>>] /\ issued = 2
    /\ stack = <<Page("root", 0, <<>>)>> /\ index = 0 /\ section = "" /\ system = FALSE
    /\ form = NoForm /\ task = NoTask /\ cards = NoCards /\ fetches = 0
    /\ entered = "" /\ hit = NoHit /\ moved = FALSE
    /\ acts = 0

Move == moveRows \/ moveColumn \/ Digit \/ Back
Enter == EnterRoot \/ EnterPage \/ EnterVersions \/ EnterCards \/ EnterForm \/ EnterTask
Overlay == CloseSystem \/ MoveCards \/ DropForm \/ SubmitName \/ SubmitForm
Background == Run \/ Done \/ LeaveTask \/ FetchLands \/ OtherAccounts \/ OtherNodes

Next == Move \/ Enter \/ Overlay \/ Background

Spec == Init /\ [][Next]_vars

-----------------------------------------------------------------------------
(* Properties.                                                             *)

\* A task changes the account whose page it was started from, whatever the
\* labels, the menus and the order of the file have become since: a menu acts by
\* token.  A prompt keeps the name it was opened with, so it is excused if
\* another process changed the accounts while it was open.
ActsOnItsAccount ==
    hit # NoHit => hit.got = hit.meant \/ (hit.byName /\ moved)

\* Every action of an account's pages acts on that account (users.go:181-182).
\* It does not hold: a prompt acts by the name it was opened with.
ActsByToken == hit # NoHit => hit.got = hit.meant

\* The cursor is on a row of the page, or on the row that leads back, after
\* every move in one column or two, after every list that lands or is rebuilt
\* under it, and in the grid of links.
CursorOnRow ==
    /\ index \in 0..(itemCount - 1)
    /\ cards # NoCards => cards.cursor \in 0..(cards.count - 1)

\* The frame of a page belongs to the entry of the main menu that led there,
\* also for the sections that are not recorded, and to none on the main menu.
SectionIsEntered ==
    sectionID = IF Len(stack) = 1 /\ ~system THEN "" ELSE entered
=============================================================================
