------------------------------- MODULE Panel -------------------------------
(***************************************************************************)
(* The event loop of the panel (internal/tui): the screens it can show, a  *)
(* task on its own goroutine that hands lines to the task screen through a *)
(* bounded channel, the prompts, and the toolbox with its board, which a   *)
(* run of `--tool` on the same host writes too.                            *)
(***************************************************************************)
EXTENDS Integers, Sequences, FiniteSets, SequencesExt

CONSTANTS Tools,        \* the toolbox entries
          Defaults,     \* those a board nobody chose for shows
          Capacity,     \* lines the channel of a task holds
          MaxActs,      \* bound on entries the operator runs
          MaxLines,     \* bound on the lines of one task
          MaxRuns,      \* bound on runs of --tool
          MaxFaults,    \* bound on failed writes and killed runs
          MaxStarts     \* bound on starts of the panel

ASSUME PanelAssumption ==
    /\ Defaults \subseteq Tools /\ IsFiniteSet(Tools)
    /\ Capacity \in Nat \ {0}
    /\ {MaxActs, MaxLines, MaxRuns, MaxFaults, MaxStarts} \subseteq Nat
    /\ {"plain", "none", "unset", "menu", "aside"} \cap Tools = {}

Kinds == Tools \cup {"plain"}
Records == [Tools -> Nat]       \* per tool the time of a run, 0 for none
NoRecords == [t \in Tools |-> 0]
Mark == <<0, 0>>                \* a line of the panel's own: cancelled, failed, copied

VARIABLES
    screen,    \* the menu, a page beside it (links, system), or a report
    form,      \* a prompt is open over it
    task,      \* the task screen: which task, whether it is done, the log
    jobs,      \* the goroutines the panel started
    waits,     \* commands that wait on a channel of a task
    mail,      \* messages to the event loop
    busy,      \* the event loop waits for, or holds, the lock of the board
    results,   \* toolResults: the last outcome per tool
    choice,    \* the selection of the board, or unset
    alive      \* the panel runs

(* Shared with other processes.                                            *)
VARIABLES
    board,     \* easysb-toolbox.json
    stored,    \* the selection in the preferences
    lock,      \* who holds the lock of the board
    cli,       \* a run of --tool
    acts, runs, faults, starts

(* History, for stating properties.                                        *)
VARIABLES
    clock,     \* the time of the last run
    newest,    \* per tool the run that was written down last
    held,      \* the outcomes the panel wrote with its last save
    wanted     \* the entries the operator wants on the board

NoTask == [job |-> 0, done |-> FALSE, log |-> <<>>]
NoRun == [at |-> "none", copy |-> NoRecords]

view == <<screen, form, task>>
running == <<jobs, waits, mail>>
files == <<board, stored, lock, cli>>
bounds == <<acts, runs, faults, starts>>
history == <<clock, newest, held, wanted>>
vars == <<view, running, busy, results, choice, alive, files, bounds, history>>

-----------------------------------------------------------------------------
(* The selection of the board.                                             *)

Unset == {"unset"}

\* What the board shows for a selection.
Selected(c) == IF c = Unset THEN Defaults ELSE c

\* The stored form: an empty value means nobody chose, "none" an empty choice.
BoardStored(c) == IF c = {} THEN {"none"} ELSE c

BoardFromPrefs(s) == IF s = {"none"} THEN {} ELSE s

-----------------------------------------------------------------------------
(* Tasks.                                                                  *)

Job(kind) == [kind |-> kind, at |-> "runs", said |-> 0, chan |-> <<>>,
              result |-> 0, cancelled |-> FALSE, err |-> FALSE]
Gone == [Job("none") EXCEPT !.at = "over"]

\* newProgress and Init: the goroutine starts and one command waits for a line.
StartTask(kind) ==
    LET j == Len(jobs) + 1
    IN  /\ jobs' = Append(jobs, Job(kind))
        /\ task' = [job |-> j, done |-> FALSE, log |-> <<>>]
        /\ waits' = waits \cup {[job |-> j, for |-> "line"]}

\* The task screen is left; a goroutine that is over leaves nothing behind.
LeaveTask ==
    /\ task' = NoTask
    /\ jobs' = IF jobs[task.job].at = "over" THEN [jobs EXCEPT ![task.job] = Gone] ELSE jobs

\* The task reports a line.
Log(j) ==
    /\ alive /\ jobs[j].at = "runs" /\ jobs[j].said < MaxLines
    /\ jobs' = [jobs EXCEPT ![j].at = "logs", ![j].said = @ + 1]
    /\ UNCHANGED <<view, waits, mail, busy, results, choice, alive, files, bounds, history>>

\* The channel takes it once there is room.
Hand(j) ==
    /\ alive /\ jobs[j].at = "logs" /\ Len(jobs[j].chan) < Capacity
    /\ jobs' = [jobs EXCEPT ![j].at = "runs",
                            ![j].chan = Append(@, <<j, jobs[j].said>>)]
    /\ UNCHANGED <<view, waits, mail, busy, results, choice, alive, files, bounds, history>>

\* The task returns: a tool has handed its outcome over, the error is sent and
\* the channel closed.  A cancelled task may return an error or finish anyway.
Return(j) ==
    /\ alive /\ jobs[j].at = "runs"
    /\ \E err \in BOOLEAN :
          jobs' = [jobs EXCEPT ![j].at = "over", ![j].err = err,
                               ![j].result = IF jobs[j].kind \in Tools THEN clock + 1 ELSE 0]
    /\ clock' = IF jobs[j].kind \in Tools THEN clock + 1 ELSE clock
    /\ UNCHANGED <<view, waits, mail, busy, results, choice, alive, files, bounds,
                   newest, held, wanted>>

\* waitLog: the command ends with the next line, or with the end of the log.
WaitLog(w) ==
    LET j == w.job
    IN  /\ alive /\ w.for = "line" /\ waits' = waits \ {w}
        /\ \/ /\ jobs[j].chan # <<>>
              /\ jobs' = [jobs EXCEPT ![j].chan = Tail(@)]
              /\ mail' = mail \cup {[type |-> "line", line |-> Head(jobs[j].chan)]}
           \/ /\ jobs[j].chan = <<>> /\ jobs[j].at = "over"
              /\ mail' = mail \cup {[type |-> "closed", line |-> Mark]}
              /\ UNCHANGED jobs
    /\ UNCHANGED <<view, busy, results, choice, alive, files, bounds, history>>

WaitErr(w) ==
    /\ alive /\ w.for = "err" /\ waits' = waits \ {w}
    /\ mail' = mail \cup {[type |-> "done", line |-> Mark]}
    /\ UNCHANGED <<view, jobs, busy, results, choice, alive, files, bounds, history>>

-----------------------------------------------------------------------------
(* Messages.  Those about the host and the terminal change nothing here.   *)

\* The event loop is free for the next message or key.
Free == alive /\ busy = "no"

\* While a prompt is open every message goes to it.
Swallowed(m) ==
    /\ Free /\ form /\ mail' = mail \ {m}
    /\ UNCHANGED <<view, jobs, waits, busy, results, choice, alive, files, bounds, history>>

LogLine(m) ==
    /\ Free /\ ~form /\ m.type = "line" /\ mail' = mail \ {m}
    /\ IF task = NoTask THEN UNCHANGED <<task, waits>>
       ELSE /\ task' = [task EXCEPT !.log = Append(@, m.line)]
            /\ waits' = waits \cup {[job |-> task.job, for |-> "line"]}
    /\ UNCHANGED <<screen, form, jobs, busy, results, choice, alive, files, bounds, history>>

LogsClosed(m) ==
    /\ Free /\ ~form /\ m.type = "closed" /\ mail' = mail \ {m}
    /\ waits' = IF task = NoTask THEN waits
                ELSE waits \cup {[job |-> task.job, for |-> "err"]}
    /\ UNCHANGED <<view, jobs, busy, results, choice, alive, files, bounds, history>>

\* The end of a task: the menus are refreshed, and the outcome of a tool takes
\* the place of the task screen as soon as the board is saved.
TaskDone(m) ==
    /\ Free /\ ~form /\ m.type = "done" /\ mail' = mail \ {m}
    /\ IF task = NoTask THEN UNCHANGED <<screen, task, busy, results>>
       ELSE LET j == jobs[task.job]
            IN  /\ task' = [task EXCEPT !.done = TRUE,
                                        !.log = IF j.err THEN Append(@, Mark) ELSE @]
                /\ IF j.kind \in Tools
                   THEN /\ results' = [results EXCEPT ![j.kind] = j.result]
                        /\ screen' = j.kind /\ busy' = "lock"
                   ELSE UNCHANGED <<screen, busy, results>>
    /\ UNCHANGED <<form, jobs, waits, choice, alive, files, bounds, history>>

-----------------------------------------------------------------------------
(* The board, a file two processes read and write under its lock.          *)

\* Mutant: the board is written without waiting for its lock.
AcquireAnyway == /\ alive /\ busy = "lock" /\ busy' = "save"
                 /\ UNCHANGED <<view, running, results, choice, alive, files, bounds, history>>

AcquireBoard ==
    /\ alive /\ busy = "lock" /\ lock = "free"
    /\ busy' = "save" /\ lock' = "panel"
    /\ UNCHANGED <<view, running, results, choice, alive, board, stored, cli, bounds, history>>

\* What the panel writes: its own outcomes over what the file holds.
Merged == [t \in Tools |-> IF results[t] # 0 THEN results[t] ELSE board[t]]

\* An error is dropped: the report is on screen either way.
SaveBoard ==
    /\ alive /\ busy = "save"
    /\ busy' = "no" /\ lock' = "free" /\ LeaveTask
    /\ \/ /\ board' = Merged /\ UNCHANGED faults
          /\ newest' = [newest EXCEPT ![screen] = results[screen]] /\ held' = results
       \/ faults < MaxFaults /\ faults' = faults + 1 /\ UNCHANGED <<board, newest, held>>
    /\ UNCHANGED <<screen, form, waits, mail, results, choice, alive, stored, cli,
                   acts, runs, starts, clock, wanted>>

\* `--tool`: the run, then the record of it under the lock.
RunTool(t) ==
    /\ cli.at = "none" /\ runs < MaxRuns /\ runs' = runs + 1
    /\ clock' = clock + 1
    /\ cli' = [at |-> "lock", tool |-> t, time |-> clock', copy |-> NoRecords]
    /\ UNCHANGED <<view, running, busy, results, choice, alive, board, stored, lock,
                   acts, faults, starts, newest, held, wanted>>

RunToolLock ==
    /\ cli.at = "lock" /\ lock = "free" /\ lock' = "cli"
    /\ cli' = [cli EXCEPT !.at = "save", !.copy = board]
    /\ UNCHANGED <<view, running, busy, results, choice, alive, board, stored, bounds, history>>

\* Record; a run that is killed here leaves the file alone and the lock free.
RunToolSave ==
    /\ cli.at = "save" /\ lock' = "free" /\ cli' = NoRun
    /\ \/ /\ board' = [cli.copy EXCEPT ![cli.tool] = cli.time]
          /\ newest' = [newest EXCEPT ![cli.tool] = cli.time]
          /\ UNCHANGED faults
       \/ faults < MaxFaults /\ faults' = faults + 1 /\ UNCHANGED <<board, newest>>
    /\ UNCHANGED <<view, running, busy, results, choice, alive, stored,
                   acts, runs, starts, clock, held, wanted>>

-----------------------------------------------------------------------------
(* Keys.                                                                   *)

Stop == /\ alive' = FALSE /\ screen' = "menu" /\ form' = FALSE /\ task' = NoTask
        /\ waits' = {} /\ mail' = {} /\ busy' = "no"
        /\ jobs' = <<>>

\* q or ctrl+c, from every page and in the middle of a task; the goroutines end
\* with the process.  Neither key has a meaning of its own on any screen.
Quit ==
    /\ Free /\ Stop
    /\ UNCHANGED <<results, choice, files, bounds, history>>

\* A submitted prompt is refused and stays, or starts a task, or opens the next
\* prompt, or only moves; esc drops it.
FormKey ==
    /\ Free /\ form
    /\ \/ UNCHANGED <<form, task, jobs, waits>>
       \/ form' = FALSE /\ StartTask("plain")
       \/ form' = FALSE /\ UNCHANGED <<task, jobs, waits>>
    /\ UNCHANGED <<screen, mail, busy, results, choice, alive, files, bounds, history>>

\* Mutant: the entries of the menu behind a running task still react.
MenuAnyway == Free /\ ~form /\ screen = "menu"

\* The menu gets a key when nothing else is open.
AtMenu == Free /\ ~form /\ task = NoTask /\ screen = "menu"

\* Mutant: esc leaves a running task as it leaves a finished one.
EscAlways ==
    /\ Free /\ ~form /\ task # NoTask /\ LeaveTask
    /\ UNCHANGED <<screen, form, waits, mail, busy, results, choice, alive, files,
                   bounds, history>>

\* The log ends with a line of the panel's own; one is as good as many.
Marked == task.log # <<>> /\ Last(task.log) = Mark

\* esc leaves a finished task, and cancels a running one, which goes on until
\* it notices; c copies the log of a finished one.
TaskKey ==
    /\ Free /\ ~form /\ task # NoTask
    /\ \/ task.done /\ LeaveTask
       \/ /\ ~task.done /\ ~jobs[task.job].cancelled
          /\ jobs' = [jobs EXCEPT ![task.job].cancelled = TRUE]
          /\ task' = [task EXCEPT !.log = Append(@, Mark)]
       \/ /\ task.done /\ ~Marked
          /\ task' = [task EXCEPT !.log = Append(@, Mark)] /\ UNCHANGED jobs
    /\ UNCHANGED <<screen, form, waits, mail, busy, results, choice, alive, files, bounds,
                   history>>

\* esc closes the links, the system page and a report.
ScreenKey ==
    /\ Free /\ ~form /\ task = NoTask /\ screen # "menu" /\ screen' = "menu"
    /\ UNCHANGED <<form, task, running, busy, results, choice, alive, files, bounds, history>>

\* r runs the reported tool again.
RerunReport ==
    /\ Free /\ ~form /\ task = NoTask /\ screen \in Tools
    /\ acts < MaxActs /\ acts' = acts + 1
    /\ screen' = "menu" /\ StartTask(screen)
    /\ UNCHANGED <<form, mail, busy, results, choice, alive, files, runs, faults, starts,
                   history>>

\* An entry of the menu: a task, a prompt, the links or the system page.
Enter ==
    /\ AtMenu /\ acts < MaxActs /\ acts' = acts + 1
    /\ \/ \E kind \in Kinds : StartTask(kind) /\ UNCHANGED <<screen, form>>
       \/ form' = TRUE /\ UNCHANGED <<screen, task, jobs, waits>>
       \/ screen' = "aside" /\ UNCHANGED <<form, task, jobs, waits>>
    /\ UNCHANGED <<mail, busy, results, choice, alive, files, runs, faults, starts, history>>

\* The new selection is remembered; a failed write is dropped.
Choose(c) ==
    /\ AtMenu /\ acts < MaxActs /\ acts' = acts + 1
    /\ choice' = c
    /\ \/ stored' = BoardStored(c) /\ UNCHANGED faults
       \/ faults < MaxFaults /\ faults' = faults + 1 /\ UNCHANGED stored
    /\ UNCHANGED <<view, running, busy, results, alive, board, lock, cli, runs, starts,
                   clock, newest, held>>

Toggled(s, t) == IF t \in s THEN s \ {t} ELSE s \cup {t}

\* The first click starts from what the board shows.
ToggleBoard(t) ==
    /\ Choose(Toggled(Selected(choice), t))
    /\ wanted' = Toggled(wanted, t)

SetBoardAll ==
    \E c \in {Tools, {}} : Choose(c) /\ wanted' = c

-----------------------------------------------------------------------------
(* Start.                                                                  *)

Init ==
    /\ screen = "menu" /\ form = FALSE /\ task = NoTask
    /\ jobs = <<>> /\ waits = {} /\ mail = {} /\ busy = "no"
    /\ results = NoRecords /\ choice = Unset /\ alive = TRUE
    /\ board = NoRecords /\ stored = Unset /\ lock = "free" /\ cli = NoRun
    /\ acts = 0 /\ runs = 0 /\ faults = 0 /\ starts = 0
    /\ clock = 0 /\ newest = NoRecords /\ held = NoRecords /\ wanted = Defaults

\* New reads the board and the preferences.
Start ==
    /\ ~alive /\ starts < MaxStarts /\ starts' = starts + 1
    /\ alive' = TRUE /\ results' = board
    /\ choice' = BoardFromPrefs(stored)
    /\ wanted' = IF faults = 0 THEN wanted ELSE Selected(choice')
    /\ UNCHANGED <<view, running, busy, files, acts, runs, faults, clock, newest, held>>

Messages == \E m \in mail : Swallowed(m) \/ LogLine(m) \/ LogsClosed(m) \/ TaskDone(m)
Commands == \E w \in waits : WaitLog(w) \/ WaitErr(w)
Work == \E j \in DOMAIN jobs : Log(j) \/ Hand(j) \/ Return(j)
Save == AcquireBoard \/ SaveBoard
ToolRun == (\E t \in Tools : RunTool(t)) \/ RunToolLock \/ RunToolSave
Keys == Quit \/ FormKey \/ TaskKey \/ ScreenKey \/ RerunReport \/ Enter
            \/ (\E t \in Tools : ToggleBoard(t)) \/ SetBoardAll

Next == Messages \/ Commands \/ Work \/ Save \/ ToolRun \/ Keys \/ Start

Spec == Init /\ [][Next]_vars

\* The scheduler runs every goroutine that can move: the handler of the next
\* message, the commands, a task whose line has room, and a run of --tool that
\* holds the lock.  No task has to return and no key has to be pressed.
Fairness ==
    /\ WF_vars(Messages) /\ WF_vars(Commands)
    /\ WF_vars(\E j \in DOMAIN jobs : Hand(j))
    /\ SF_vars(AcquireBoard) /\ WF_vars(SaveBoard) /\ WF_vars(RunToolSave)

FairSpec == Spec /\ Fairness

-----------------------------------------------------------------------------
(* Properties.                                                             *)

Shown == {i \in DOMAIN task.log : task.log[i] # Mark}
Place(i) == Cardinality({k \in Shown : k <= i})

\* The task screen shows the lines of its own task, in the order they were
\* logged, none twice and none left out in between; once it says the task is
\* done none is missing, however fast the task talks, and whatever was cancelled
\* before.
LogIsComplete ==
    task # NoTask =>
        /\ \A i \in Shown : task.log[i] = <<task.job, Place(i)>>
        /\ Cardinality(Shown) <= jobs[task.job].said
        /\ task.done => Cardinality(Shown) = jobs[task.job].said

\* The screen catches up with its task: every line it logs is shown and, once
\* it has returned, that it is done, unless the operator quits or leaves it.  No
\* prompt, other message or wait for the lock of the board leaves a task that
\* talks without room in its channel, or a screen waiting for ever.
CaughtUp ==
    \/ ~alive \/ task = NoTask
    \/ /\ Cardinality(Shown) = jobs[task.job].said
       /\ jobs[task.job].at = "over" => task.done

ScreenCatchesUp == []<>CaughtUp

\* What is on the board for a tool is the run written down last, or, where the
\* panel has overwritten that, the outcome the panel held: neither writer loses
\* a tool or a record it did not itself replace.
RecordsAreKept ==
    \A t \in Tools :
        /\ board[t] \in {newest[t], held[t]}
        /\ board[t] = 0 => newest[t] = 0

\* A run recorded by `--tool` while the panel was open is kept.
NewestIsKept == \A t \in Tools : board[t] = newest[t]

\* The board shows the entries the operator asked for, click by click and after
\* a restart, also when that is none of them; only a preferences file that could
\* not be written is excused.
SelectionIsKept == alive => Selected(choice) = wanted
=============================================================================
