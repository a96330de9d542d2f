----------------------------- MODULE FrontProofs -----------------------------
(***************************************************************************)
(* Proofs about Panel and Endpoint, the programs somebody waits at: for    *)
(* any tools, tasks, lines, runs of --tool, requests, accounts, nodes and  *)
(* failures.  The panel shows every line of its task and loses no record;  *)
(* the endpoint answers with what is true and with what the core accepts.  *)
(***************************************************************************)
EXTENDS Panel, Endpoint, FiniteSetTheorems, SequenceTheorems, TLAPS

-----------------------------------------------------------------------------
(***************************************************************************)
(* Panel: types, and what refers to what.                                  *)
(***************************************************************************)
Line == Nat \X Nat
Message == [type : {"line", "closed", "done"}, line : Line]
Wait == [job : Nat, for : {"line", "err"}]
Goroutine ==
    [kind : Kinds \cup {"none"}, at : {"runs", "logs", "over"}, said : Nat,
     chan : Seq(Line), result : Nat, cancelled : BOOLEAN, err : BOOLEAN]
TaskScreen == [job : Nat, done : BOOLEAN, log : Seq(Line)]
ToolRunning == [at : {"lock", "save"}, tool : Tools, time : Nat \ {0}, copy : Records]

ViewTypes ==
    /\ screen \in {"menu", "aside"} \cup Tools
    /\ form \in BOOLEAN /\ task \in TaskScreen /\ busy \in {"no", "lock", "save"}
    /\ task # NoTask => task.job \in DOMAIN jobs
    /\ busy # "no" => task # NoTask /\ screen \in Tools

RunningTypes ==
    /\ jobs \in Seq(Goroutine) /\ mail \subseteq Message
    /\ waits \subseteq Wait /\ \A w \in waits : w.job \in DOMAIN jobs

BoardTypes ==
    /\ {results, board, newest, held} \subseteq Records
    /\ lock \in {"free", "panel", "cli"} /\ cli \in ToolRunning \cup {NoRun}
    /\ clock \in Nat /\ alive \in BOOLEAN
    /\ {acts, runs, faults, starts} \subseteq Nat

ChoiceTypes ==
    /\ choice = Unset \/ choice \subseteq Tools
    /\ stored \in {Unset, {"none"}} \/ stored \subseteq Tools
    /\ wanted \subseteq Tools

PanelTypes == ViewTypes /\ RunningTypes /\ BoardTypes /\ ChoiceTypes

\* Writing over one goroutine of the list.
LEMMA JobPut ==
    ASSUME NEW s \in Seq(Goroutine), NEW j \in DOMAIN s, NEW x \in Goroutine,
           NEW r, r = [s EXCEPT ![j] = x]
    PROVE  /\ r \in Seq(Goroutine) /\ DOMAIN r = DOMAIN s /\ Len(r) = Len(s)
           /\ r[j] = x /\ \A k \in DOMAIN s : k # j => r[k] = s[k]
OBVIOUS

\* A goroutine that moves on is one.
LEMMA JobMoves ==
    ASSUME NEW x \in Goroutine
    PROVE  /\ [x EXCEPT !.at = "over"] \in Goroutine
           /\ \A n \in Nat : [x EXCEPT !.at = "logs", !.said = n] \in Goroutine
           /\ \A chan \in Seq(Line) :
                 /\ [x EXCEPT !.at = "runs", !.chan = chan] \in Goroutine
                 /\ [x EXCEPT !.chan = chan] \in Goroutine
           /\ \A n \in Nat, b \in BOOLEAN :
                 [x EXCEPT !.at = "over", !.err = b, !.result = n] \in Goroutine
           /\ \A b \in BOOLEAN : [x EXCEPT !.cancelled = b] \in Goroutine
BY DEF Goroutine

LEMMA LineAppended ==
    ASSUME NEW log \in Seq(Line), NEW line \in Line
    PROVE  Append(log, line) \in Seq(Line)
OBVIOUS

\* Starting one.
LEMMA JobStarts ==
    ASSUME RunningTypes, NEW kind \in Kinds, StartTask(kind), mail' = mail
    PROVE  /\ RunningTypes' /\ task' \in TaskScreen /\ task' # NoTask
           /\ task' = [job |-> Len(jobs) + 1, done |-> FALSE, log |-> <<>>]
           /\ jobs' = Append(jobs, Job(kind)) /\ task'.job \in DOMAIN jobs'
           /\ jobs'[task'.job] = Job(kind)
           /\ \A j \in DOMAIN jobs : j \in DOMAIN jobs' /\ jobs'[j] = jobs[j]
<1>1. /\ task' = [job |-> Len(jobs) + 1, done |-> FALSE, log |-> <<>>]
      /\ jobs' = Append(jobs, Job(kind)) /\ jobs \in Seq(Goroutine) /\ Len(jobs) \in Nat
      /\ waits' = waits \cup {[job |-> Len(jobs) + 1, for |-> "line"]}
  BY DEF StartTask, RunningTypes
<1>2. Job(kind) \in Goroutine
  BY DEF Job, Goroutine
<1>3. /\ jobs' \in Seq(Goroutine) /\ Len(jobs) + 1 \in DOMAIN jobs'
      /\ jobs'[Len(jobs) + 1] = Job(kind)
      /\ \A j \in DOMAIN jobs : j \in DOMAIN jobs' /\ jobs'[j] = jobs[j]
  BY <1>1, <1>2
<1>4. waits' \subseteq Wait /\ \A w \in waits' : w.job \in DOMAIN jobs'
  BY <1>1, <1>3 DEF RunningTypes, Wait
<1>5. task' \in TaskScreen /\ task' # NoTask
  <2>1. task'.job # 0 /\ NoTask.job = 0
    BY <1>1 DEF NoTask
  <2>2. QED
    BY <1>1, <2>1 DEF TaskScreen
<1>6. QED
  BY <1>1, <1>3, <1>4, <1>5 DEF RunningTypes

\* Leaving the task screen.
LEMMA TaskLeft ==
    ASSUME RunningTypes, ViewTypes, task # NoTask, LeaveTask, UNCHANGED <<waits, mail>>
    PROVE  RunningTypes' /\ task' = NoTask
<1>1. task' = NoTask /\ task.job \in DOMAIN jobs
  BY DEF LeaveTask, ViewTypes
<1>2. Gone \in Goroutine
  <2>1. Job("none") \in Goroutine
    BY DEF Job, Goroutine
  <2>2. QED
    BY <2>1, JobMoves, Zenon DEF Gone
<1>3. jobs' \in Seq(Goroutine) /\ DOMAIN jobs' = DOMAIN jobs
  <2>1. CASE jobs' = jobs
    BY <2>1 DEF RunningTypes
  <2>2. CASE jobs' = [jobs EXCEPT ![task.job] = Gone]
    BY <1>1, <1>2, <2>2, JobPut DEF RunningTypes
  <2>3. QED
    BY <2>1, <2>2 DEF LeaveTask
<1>4. QED
  BY <1>1, <1>3 DEF RunningTypes

\* A line is appended to the log.
LEMMA LogGrows ==
    ASSUME task \in TaskScreen, NEW line \in Line,
           NEW t, \/ t = [task EXCEPT !.log = Append(@, line)]
                  \/ \E done \in BOOLEAN :
                        t = [task EXCEPT !.done = done, !.log = Append(@, line)]
    PROVE  t \in TaskScreen /\ t.job = task.job /\ t.log = Append(task.log, line)
<1>1. task.log \in Seq(Line)
  BY DEF TaskScreen
<1>2. Append(task.log, line) \in Seq(Line)
  BY <1>1, LineAppended
<1>3. QED
  BY <1>2 DEF TaskScreen

LEMMA MarkType == Mark \in Line /\ NoTask \in TaskScreen /\ NoTask.job = 0
BY DEF Mark, Line, NoTask, TaskScreen

\* A task screen shows a task.
LEMMA TaskTells ==
    ASSUME task \in TaskScreen, ViewTypes, RunningTypes
    PROVE  task # NoTask <=> task.job # 0
<1>1. task # NoTask => task.job # 0
  BY DEF ViewTypes, RunningTypes
<1>2. QED
  BY <1>1 DEF NoTask

\* What one goroutine does.
LEMMA WorkTypes ==
    ASSUME PanelTypes, NEW j \in DOMAIN jobs, Log(j) \/ Hand(j) \/ Return(j)
    PROVE  PanelTypes'
<1>1. jobs[j] \in Goroutine /\ j \in Nat
  BY DEF PanelTypes, RunningTypes
<1>2. /\ jobs' \in Seq(Goroutine) /\ DOMAIN jobs' = DOMAIN jobs
      /\ clock' \in Nat
  <2>1. CASE Log(j)
    <3> DEFINE x == [jobs[j] EXCEPT !.at = "logs", !.said = jobs[j].said + 1]
    <3>1. jobs[j].said + 1 \in Nat
      BY <1>1 DEF Goroutine
    <3>2. x \in Goroutine
      BY <1>1, <3>1, JobMoves, Zenon
    <3>3. jobs' = [jobs EXCEPT ![j] = x] /\ clock' = clock
      BY <2>1 DEF Log, history
    <3> HIDE DEF x
    <3>4. QED
      BY <3>2, <3>3, JobPut DEF PanelTypes, RunningTypes, BoardTypes
  <2>2. CASE Hand(j)
    <3>1. Append(jobs[j].chan, <<j, jobs[j].said>>) \in Seq(Line)
      BY <1>1 DEF Goroutine, Line
    <3> DEFINE x == [jobs[j] EXCEPT !.at = "runs",
                                    !.chan = Append(jobs[j].chan, <<j, jobs[j].said>>)]
    <3>2. x \in Goroutine
      BY <1>1, <3>1, JobMoves, Zenon
    <3>3. jobs' = [jobs EXCEPT ![j] = x] /\ clock' = clock
      BY <2>2 DEF Hand, history
    <3> HIDE DEF x
    <3>4. QED
      BY <3>2, <3>3, JobPut DEF PanelTypes, RunningTypes, BoardTypes
  <2>3. CASE Return(j)
    <3>1. PICK err \in BOOLEAN :
            jobs' = [jobs EXCEPT ![j].at = "over", ![j].err = err,
                                 ![j].result = IF jobs[j].kind \in Tools THEN clock + 1 ELSE 0]
      BY <2>3 DEF Return
    <3>2. clock \in Nat /\ clock' \in Nat
      <4>1. clock' = clock + 1 \/ clock' = clock
        BY <2>3, Zenon DEF Return
      <4>2. QED
        BY <4>1 DEF PanelTypes, BoardTypes
    <3> DEFINE r == IF jobs[j].kind \in Tools THEN clock + 1 ELSE 0
    <3>3. r \in Nat
      BY <3>2
    <3>4. [jobs[j] EXCEPT !.at = "over", !.err = err, !.result = r] \in Goroutine
      BY <1>1, <3>3, JobMoves, Zenon
    <3>5. jobs' = [jobs EXCEPT ![j] = [jobs[j] EXCEPT !.at = "over", !.err = err,
                                                      !.result = r]]
      BY <3>1
    <3> HIDE DEF r
    <3>6. QED
      BY <3>2, <3>4, <3>5, JobPut DEF PanelTypes, RunningTypes
  <2>4. QED
    BY <2>1, <2>2, <2>3
<1>3. /\ UNCHANGED <<view, waits, mail, busy, results, choice, alive, files, bounds>>
      /\ UNCHANGED <<newest, held, wanted>>
  BY DEF Log, Hand, Return, history
<1>4. QED
  BY <1>2, <1>3, SMTT(30) DEF PanelTypes, ViewTypes, RunningTypes, BoardTypes, ChoiceTypes,
     view, files, bounds, ToolRunning, Records, NoRun, NoRecords

\* What a command does.
LEMMA CommandTypes ==
    ASSUME PanelTypes, NEW w \in waits, WaitLog(w) \/ WaitErr(w)
    PROVE  PanelTypes'
<1>1. w.job \in DOMAIN jobs /\ jobs[w.job] \in Goroutine
  BY DEF PanelTypes, RunningTypes
<1>2. UNCHANGED <<view, busy, results, choice, alive, files, bounds, history>>
  BY DEF WaitLog, WaitErr
<1>3. waits' \subseteq waits
  BY DEF WaitLog, WaitErr
<1>4. CASE WaitErr(w)
  <2>1. mail' \subseteq Message /\ jobs' = jobs
    BY <1>4, MarkType DEF WaitErr, PanelTypes, RunningTypes, Message
  <2>2. RunningTypes'
    BY <1>3, <2>1 DEF PanelTypes, RunningTypes
  <2>3. QED
    BY <1>2, <2>1, <2>2 DEF PanelTypes, ViewTypes, BoardTypes, ChoiceTypes, view, files,
       bounds, history, Records, NoRun, NoRecords
<1>5. CASE WaitLog(w) /\ jobs' = jobs
  <2>1. mail' \subseteq Message
    <3>1. jobs[w.job].chan # <<>> => Head(jobs[w.job].chan) \in Line
      BY <1>1 DEF Goroutine
    <3>2. QED
      BY <1>5, <3>1, MarkType DEF WaitLog, PanelTypes, RunningTypes, Message
  <2>2. RunningTypes'
    BY <1>3, <1>5, <2>1 DEF PanelTypes, RunningTypes
  <2>3. QED
    BY <1>2, <1>5, <2>2 DEF PanelTypes, ViewTypes, BoardTypes, ChoiceTypes, view, files,
       bounds, history, Records, NoRun, NoRecords
<1>6. CASE WaitLog(w) /\ jobs[w.job].chan # <<>>
           /\ jobs' = [jobs EXCEPT ![w.job].chan = Tail(@)]
  <2>1. Tail(jobs[w.job].chan) \in Seq(Line) /\ Head(jobs[w.job].chan) \in Line
    BY <1>1, <1>6 DEF Goroutine
  <2>2. [jobs[w.job] EXCEPT !.chan = Tail(@)] \in Goroutine
    BY <1>1, <2>1 DEF Goroutine
  <2>3. jobs' = [jobs EXCEPT ![w.job] = [jobs[w.job] EXCEPT !.chan = Tail(@)]]
    BY <1>6
  <2>4. jobs' \in Seq(Goroutine) /\ DOMAIN jobs' = DOMAIN jobs
    BY <1>1, <2>2, <2>3, JobPut DEF PanelTypes, RunningTypes
  <2>5. mail' \subseteq Message
    BY <1>6, <2>1, MarkType DEF WaitLog, PanelTypes, RunningTypes, Message
  <2>6. RunningTypes'
    BY <1>3, <2>4, <2>5 DEF PanelTypes, RunningTypes
  <2>7. QED
    BY <1>2, <2>4, <2>6 DEF PanelTypes, ViewTypes, BoardTypes, ChoiceTypes, view, files,
       bounds, history, Records, NoRun, NoRecords
<1>7. QED
  BY <1>4, <1>5, <1>6 DEF WaitLog

\* What a message does.
LEMMA MessageTypes ==
    ASSUME PanelTypes, NEW m \in mail,
           Swallowed(m) \/ LogLine(m) \/ LogsClosed(m) \/ TaskDone(m)
    PROVE  PanelTypes'
<1>1. /\ UNCHANGED <<form, jobs, choice, alive, files, bounds, history>>
      /\ mail' \subseteq mail /\ busy = "no"
  BY DEF Swallowed, LogLine, LogsClosed, TaskDone, view, Free
<1>2. m \in Message /\ m.line \in Line
  BY DEF PanelTypes, RunningTypes, Message
<1>3. waits' \subseteq Wait /\ \A w \in waits' : w.job \in DOMAIN jobs
  <2>1. waits' = waits \/ (task # NoTask /\ \E f \in {"line", "err"} :
                              waits' = waits \cup {[job |-> task.job, for |-> f]})
    BY DEF Swallowed, LogLine, LogsClosed, TaskDone
  <2>2. task # NoTask => task.job \in Nat /\ task.job \in DOMAIN jobs
    BY DEF PanelTypes, ViewTypes, TaskScreen
  <2>3. QED
    BY <2>1, <2>2 DEF PanelTypes, RunningTypes, Wait
<1>4. task' \in TaskScreen /\ task'.job = task.job
  <2>1. task \in TaskScreen /\ task.log \in Seq(Line)
    BY DEF PanelTypes, ViewTypes, TaskScreen
  <2>2. CASE Swallowed(m) \/ LogsClosed(m) \/ task' = task
    BY <2>1, <2>2 DEF Swallowed, LogsClosed, view
  <2>3. CASE LogLine(m) /\ task' = [task EXCEPT !.log = Append(@, m.line)]
    BY <1>2, <2>1, <2>3, LogGrows, Zenon
  <2>4. CASE TaskDone(m) /\ task' # task
    <3>1. CASE task' = [task EXCEPT !.done = TRUE, !.log = Append(@, Mark)]
      BY <2>1, <3>1, LogGrows, MarkType, Zenon
    <3>2. CASE task' = [task EXCEPT !.done = TRUE, !.log = @]
      BY <2>1, <3>2 DEF TaskScreen
    <3>3. QED
      BY <2>4, <3>1, <3>2, Zenon DEF TaskDone
  <2>5. QED
    BY <2>2, <2>3, <2>4, Zenon DEF LogLine
<1>5. /\ task # NoTask <=> task' # NoTask
      /\ task' # NoTask => task'.job \in DOMAIN jobs
  <2>1. task = NoTask => task' = NoTask
    BY DEF Swallowed, LogLine, LogsClosed, TaskDone, view
  <2>2. task # NoTask => task.job \in DOMAIN jobs /\ task.job # 0
    BY DEF PanelTypes, ViewTypes, RunningTypes
  <2>3. QED
    BY <1>4, <2>1, <2>2, MarkType
<1>6. /\ screen' \in {"menu", "aside"} \cup Tools /\ busy' \in {"no", "lock", "save"}
      /\ busy' # "no" => task' # NoTask /\ screen' \in Tools
      /\ results' \in Records
  <2>1. CASE UNCHANGED <<screen, busy, results>>
    BY <1>1, <2>1 DEF PanelTypes, ViewTypes, BoardTypes
  <2>2. CASE /\ task # NoTask /\ jobs[task.job].kind \in Tools
             /\ results' = [results EXCEPT ![jobs[task.job].kind] = jobs[task.job].result]
             /\ screen' = jobs[task.job].kind /\ busy' = "lock"
    <3>1. jobs[task.job].result \in Nat
      <4>1. jobs[task.job] \in Goroutine
        BY <2>2 DEF PanelTypes, ViewTypes, RunningTypes
      <4>2. QED
        BY <4>1 DEF Goroutine
    <3>2. QED
      BY <1>5, <2>2, <3>1 DEF PanelTypes, BoardTypes, Records
  <2>3. QED
    BY <2>1, <2>2 DEF Swallowed, LogLine, LogsClosed, TaskDone, view
<1>7. QED
  <2>1. ViewTypes'
    BY <1>1, <1>4, <1>5, <1>6 DEF PanelTypes, ViewTypes
  <2>2. RunningTypes'
    BY <1>1, <1>3 DEF PanelTypes, RunningTypes
  <2>3. BoardTypes' /\ ChoiceTypes'
    BY <1>1, <1>6 DEF PanelTypes, BoardTypes, ChoiceTypes, files, bounds, history,
       ToolRunning, Records, NoRun, NoRecords
  <2>4. QED
    BY <2>1, <2>2, <2>3 DEF PanelTypes

\* What the board and the runs of --tool do.
LEMMA SaveTypes ==
    ASSUME PanelTypes, Save \/ ToolRun
    PROVE  PanelTypes'
<1>1. NoRecords \in Records /\ \A r \in Records, t \in Tools, n \in Nat :
         [r EXCEPT ![t] = n] \in Records
  BY DEF Records, NoRecords
<1>2. CASE AcquireBoard
  BY <1>2 DEF AcquireBoard, PanelTypes, ViewTypes, RunningTypes, BoardTypes, ChoiceTypes,
     view, running, bounds, history, Records, ToolRunning, NoRun, NoRecords
<1>3. CASE SaveBoard
  <2>1. task # NoTask /\ screen \in Tools
    BY <1>3 DEF SaveBoard, PanelTypes, ViewTypes
  <2>2. RunningTypes' /\ task' = NoTask
    BY <1>3, <2>1, TaskLeft DEF SaveBoard, PanelTypes
  <2>3. ViewTypes' /\ ChoiceTypes'
    BY <1>3, <2>2, MarkType DEF SaveBoard, PanelTypes, ViewTypes, ChoiceTypes
  <2>4. Merged \in Records
    BY DEF Merged, PanelTypes, BoardTypes, Records
  <2>5. results[screen] \in Nat
    BY <2>1 DEF PanelTypes, BoardTypes, Records
  <2>6. BoardTypes'
    BY <1>1, <1>3, <2>1, <2>4, <2>5
       DEF SaveBoard, PanelTypes, BoardTypes, ToolRunning
  <2>7. QED
    BY <2>2, <2>3, <2>6 DEF PanelTypes
<1>4. ASSUME NEW t \in Tools, RunTool(t)
      PROVE  PanelTypes'
  <2>1. cli' \in ToolRunning
    BY <1>1, <1>4 DEF RunTool, PanelTypes, BoardTypes, ToolRunning
  <2>2. BoardTypes'
    BY <1>4, <2>1 DEF RunTool, PanelTypes, BoardTypes
  <2>3. QED
    BY <1>4, <2>2 DEF RunTool, PanelTypes, ViewTypes, RunningTypes, ChoiceTypes, view, running
<1>5. CASE RunToolLock
  <2>1. cli' \in ToolRunning
    <3>1. cli \in ToolRunning /\ board \in Records
      BY <1>5 DEF RunToolLock, PanelTypes, BoardTypes, NoRun
    <3>2. cli' = [cli EXCEPT !.at = "save", !.copy = board]
      BY <1>5 DEF RunToolLock
    <3>3. QED
      BY <3>1, <3>2 DEF ToolRunning
  <2>2. BoardTypes'
    BY <1>5, <2>1 DEF RunToolLock, PanelTypes, BoardTypes, bounds, history
  <2>3. QED
    BY <1>5, <2>2 DEF RunToolLock, PanelTypes, ViewTypes, RunningTypes, ChoiceTypes, view,
       running, history
<1>6. CASE RunToolSave
  <2>1. cli.tool \in Tools /\ cli.time \in Nat /\ cli.copy \in Records
    BY <1>6 DEF RunToolSave, PanelTypes, BoardTypes, ToolRunning, NoRun
  <2>2. BoardTypes'
    BY <1>1, <1>6, <2>1 DEF RunToolSave, PanelTypes, BoardTypes, ToolRunning
  <2>3. QED
    BY <1>6, <2>2 DEF RunToolSave, PanelTypes, ViewTypes, RunningTypes, ChoiceTypes, view,
       running
<1>7. QED
  BY <1>2, <1>3, <1>4, <1>5, <1>6 DEF Save, ToolRun

\* A selection the operator makes.
LEMMA ChoiceMade ==
    ASSUME ChoiceTypes, NEW c, c \subseteq Tools, Choose(c)
    PROVE  /\ choice' \subseteq Tools /\ Selected(choice') = choice'
           /\ stored' \in {Unset, {"none"}} \/ stored' \subseteq Tools
<1>1. "unset" \notin Tools /\ "none" \notin Tools
  BY PanelAssumption
<1>2. QED
  BY <1>1 DEF Choose, ChoiceTypes, Selected, Unset, BoardStored

\* What a key does.
LEMMA KeyTypes ==
    ASSUME PanelTypes, Keys
    PROVE  PanelTypes'
<1>1. Defaults \subseteq Tools /\ Tools \subseteq Kinds /\ "plain" \in Kinds
  BY PanelAssumption DEF Kinds
<1>2. CASE Quit
  <2>1. jobs' \in Seq(Goroutine)
    BY <1>2 DEF Quit, Stop
  <2>2. QED
    BY <1>2, <2>1, MarkType DEF Quit, Stop, PanelTypes, ViewTypes, RunningTypes, BoardTypes,
       ChoiceTypes, files, bounds, history, ToolRunning, Records, NoRun, NoRecords
<1>3. ASSUME UNCHANGED <<mail, busy, results, alive, history, files>>, busy = "no",
             \/ UNCHANGED <<task, jobs, waits>>
             \/ \E kind \in Kinds : StartTask(kind),
             form' \in BOOLEAN, screen' \in {"menu", "aside"} \cup Tools,
             {acts', runs', faults', starts'} \subseteq Nat, choice' = choice
      PROVE  PanelTypes'
  <2>1. RunningTypes' /\ task' \in TaskScreen /\ (task' # NoTask => task'.job \in DOMAIN jobs')
    BY <1>3, JobStarts DEF PanelTypes, ViewTypes, RunningTypes
  <2>2. ViewTypes'
    BY <1>3, <2>1 DEF PanelTypes, ViewTypes
  <2>3. QED
    BY <1>3, <2>1, <2>2 DEF PanelTypes, BoardTypes, ChoiceTypes, files, history,
       ToolRunning, Records, NoRun, NoRecords
<1>4. {acts, runs, faults, starts} \subseteq Nat
  BY DEF PanelTypes, BoardTypes
<1>5. CASE FormKey \/ ScreenKey \/ Enter \/ RerunReport
  <2>1. /\ UNCHANGED <<mail, busy, results, alive, history, files, choice>> /\ busy = "no"
        /\ {acts', runs', faults', starts'} \subseteq Nat
    BY <1>4, <1>5 DEF FormKey, ScreenKey, Enter, RerunReport, Free, AtMenu, bounds, running
  <2>2. form' \in BOOLEAN /\ screen' \in {"menu", "aside"} \cup Tools
    BY <1>5 DEF FormKey, ScreenKey, Enter, RerunReport, PanelTypes, ViewTypes
  <2>3. UNCHANGED <<task, jobs, waits>> \/ \E kind \in Kinds : StartTask(kind)
    BY <1>1, <1>5 DEF FormKey, ScreenKey, Enter, RerunReport, running
  <2>4. QED
    BY <1>3, <2>1, <2>2, <2>3
<1>6. CASE TaskKey
  <2>1. /\ UNCHANGED <<screen, form, waits, mail, busy, results, choice, alive, files,
                       bounds, history>>
        /\ task # NoTask /\ busy = "no" /\ task \in TaskScreen
    BY <1>6 DEF TaskKey, Free, PanelTypes, ViewTypes
  <2>2. RunningTypes' /\ task' \in TaskScreen /\ (task' # NoTask => task'.job \in DOMAIN jobs')
    <3>1. CASE LeaveTask
      BY <2>1, <3>1, TaskLeft, MarkType DEF PanelTypes
    <3>2. CASE task' = [task EXCEPT !.log = Append(@, Mark)]
               /\ jobs' = [jobs EXCEPT ![task.job].cancelled = TRUE]
      <4>1. task' \in TaskScreen /\ task'.job = task.job
        BY <2>1, <3>2, LogGrows, MarkType, Zenon
      <4>2. task.job \in DOMAIN jobs /\ jobs[task.job] \in Goroutine
        BY <2>1 DEF PanelTypes, ViewTypes, RunningTypes
      <4> DEFINE x == [jobs[task.job] EXCEPT !.cancelled = TRUE]
      <4>3. x \in Goroutine
        BY <4>2, JobMoves, Zenon
      <4>4. jobs' = [jobs EXCEPT ![task.job] = x]
        BY <3>2
      <4> HIDE DEF x
      <4>5. jobs' \in Seq(Goroutine) /\ DOMAIN jobs' = DOMAIN jobs
        BY <4>2, <4>3, <4>4, JobPut DEF PanelTypes, RunningTypes
      <4>6. QED
        BY <2>1, <4>1, <4>2, <4>5 DEF PanelTypes, RunningTypes
    <3>3. CASE task' = [task EXCEPT !.log = Append(@, Mark)] /\ jobs' = jobs
      <4>1. task' \in TaskScreen /\ task'.job = task.job
        BY <2>1, <3>3, LogGrows, MarkType, Zenon
      <4>2. QED
        BY <2>1, <3>3, <4>1 DEF PanelTypes, ViewTypes, RunningTypes
    <3>4. QED
      BY <1>6, <3>1, <3>2, <3>3, Zenon DEF TaskKey
  <2>3. ViewTypes'
    BY <2>1, <2>2 DEF PanelTypes, ViewTypes
  <2>4. QED
    BY <2>1, <2>2, <2>3 DEF PanelTypes, BoardTypes, ChoiceTypes, files, bounds, history,
       ToolRunning, Records, NoRun, NoRecords
<1>7. ASSUME NEW c, c \subseteq Tools, Choose(c), wanted' \subseteq Tools
      PROVE  PanelTypes'
  <2>1. ChoiceTypes'
    BY <1>7, ChoiceMade DEF PanelTypes, ChoiceTypes
  <2>2. /\ UNCHANGED <<screen, form, task, busy, jobs, waits, mail>>
        /\ UNCHANGED <<results, board, newest, held, lock, cli, clock, alive>>
        /\ UNCHANGED <<runs, starts>> /\ acts' = acts + 1 /\ faults' \in {faults, faults + 1}
    BY <1>7 DEF Choose, view, running
  <2>3. ViewTypes' /\ RunningTypes'
    BY <2>2 DEF PanelTypes, ViewTypes, RunningTypes
  <2>4. {acts', runs', faults', starts'} \subseteq Nat
    BY <1>4, <2>2
  <2>5. BoardTypes'
    BY <2>2, <2>4 DEF PanelTypes, BoardTypes, ToolRunning, Records, NoRun, NoRecords
  <2>6. QED
    BY <2>1, <2>3, <2>5 DEF PanelTypes
<1>8. ASSUME NEW t \in Tools, ToggleBoard(t)
      PROVE  PanelTypes'
  <2>1. Toggled(Selected(choice), t) \subseteq Tools /\ wanted' \subseteq Tools
    BY <1>1, <1>8 DEF ToggleBoard, Toggled, Selected, PanelTypes, ChoiceTypes
  <2>2. QED
    BY <1>7, <1>8, <2>1 DEF ToggleBoard
<1>9. CASE SetBoardAll
  BY <1>7, <1>9 DEF SetBoardAll
<1>10. QED
  BY <1>2, <1>5, <1>6, <1>8, <1>9 DEF Keys

\* Every step keeps the types.
LEMMA PanelTypesStep == PanelTypes /\ [Next]_vars => PanelTypes'
<1> SUFFICES ASSUME PanelTypes, [Next]_vars PROVE PanelTypes'
  OBVIOUS
<1>1. CASE UNCHANGED vars
  BY <1>1, SMTT(30) DEF vars, PanelTypes, ViewTypes, RunningTypes, BoardTypes, ChoiceTypes, view,
     running, files, bounds, history, ToolRunning, Records, NoRun, NoRecords
<1>2. CASE Start
  <2>1. ChoiceTypes'
    <3>1. stored \subseteq Tools \/ stored \in {Unset, {"none"}}
      BY DEF PanelTypes, ChoiceTypes
    <3>2. choice' = Unset \/ choice' \subseteq Tools
      BY <1>2, <3>1 DEF Start, BoardFromPrefs
    <3>3. wanted' \subseteq Tools
      BY <1>2, <3>2, PanelAssumption DEF Start, Selected, PanelTypes, ChoiceTypes
    <3>4. QED
      BY <1>2, <3>1, <3>2, <3>3 DEF Start, files, ChoiceTypes
  <2>2. QED
    BY <1>2, <2>1, SMTT(30) DEF Start, PanelTypes, ViewTypes, RunningTypes, BoardTypes, view, running,
       files, ToolRunning, Records, NoRun, NoRecords
<1>3. QED
  BY <1>1, <1>2, MessageTypes, CommandTypes, WorkTypes, SaveTypes, KeyTypes
     DEF Next, Messages, Commands, Work

LEMMA PanelTypesInit == Init => PanelTypes
<1> SUFFICES ASSUME Init PROVE PanelTypes
  OBVIOUS
<1>1. jobs \in Seq(Goroutine) /\ NoRecords \in Records
  BY DEF Init, Records, NoRecords
<1>2. ViewTypes /\ RunningTypes
  BY <1>1, MarkType DEF Init, ViewTypes, RunningTypes
<1>3. BoardTypes
  BY <1>1 DEF Init, BoardTypes
<1>4. ChoiceTypes
  BY PanelAssumption DEF Init, ChoiceTypes
<1>5. QED
  BY <1>2, <1>3, <1>4 DEF PanelTypes

(***************************************************************************)
(* Every variable of the panel holds a value of its type; a task screen    *)
(* shows a task that was started, a command waits on one, and the event    *)
(* loop is busy with the board only while the report of a tool is up.      *)
(***************************************************************************)
THEOREM PanelTypeCorrect == Spec => []PanelTypes
BY PanelTypesInit, PanelTypesStep, PTL DEF Spec

-----------------------------------------------------------------------------
(***************************************************************************)
(* Panel: the log of a task.                                               *)
(***************************************************************************)
LinesOf(log) == {i \in DOMAIN log : log[i] # Mark}
Lines == Cardinality(LinesOf(task.log))

\* The lines of a log are those of one task, numbered as they come.
InPlace(log, j) ==
    \A i \in LinesOf(log) : log[i] = <<j, Cardinality({k \in LinesOf(log) : k <= i})>>

\* A line that a message carries, and one the task could not hand over yet.
OnTheWay == IF \E m \in mail : m.type = "line" THEN 1 ELSE 0
InHand(j) == IF jobs[j].at = "logs" THEN 1 ELSE 0

(* There is one command or one message for a task that is not done.        *)
OneReader ==
    \/ /\ ~task.done /\ mail = {}
       /\ \E f \in {"line", "err"} : waits = {[job |-> task.job, for |-> f]}
    \/ ~task.done /\ waits = {} /\ \E m \in mail : mail = {m}
    \/ task.done /\ waits = {} /\ mail = {}

(* What was said is in the log, on the way, in the channel or in hand, in  *)
(* this order.                                                             *)
InOrder(j) ==
    /\ InPlace(task.log, j)
    /\ \A m \in mail : m.type = "line" => m.line = <<j, Lines + 1>>
    /\ \A k \in DOMAIN jobs[j].chan : jobs[j].chan[k] = <<j, Lines + OnTheWay + k>>
    /\ jobs[j].said = Lines + OnTheWay + Len(jobs[j].chan) + InHand(j)

(* Whoever knows that the log has ended knows it from the channel.         *)
EndKnown ==
    \/ task.done
    \/ \E m \in mail : m.type # "line"
    \/ \E w \in waits : w.for = "err"
Drained(j) == EndKnown => jobs[j].at = "over" /\ jobs[j].chan = <<>>

Follows(j) == ~form /\ (busy # "no" => task.done) /\ OneReader /\ InOrder(j) /\ Drained(j)

LogInv == IF task = NoTask THEN waits = {} /\ mail = {} ELSE Follows(task.job)

\* The lines of a log are finitely many.
LEMMA LinesFinite ==
    ASSUME NEW log \in Seq(Line)
    PROVE  /\ IsFiniteSet(LinesOf(log)) /\ Cardinality(LinesOf(log)) \in Nat
           /\ \A i : /\ IsFiniteSet({k \in LinesOf(log) : k <= i})
                     /\ Cardinality({k \in LinesOf(log) : k <= i}) <= Cardinality(LinesOf(log))
<1>1. LinesOf(log) \subseteq 1..Len(log) /\ Len(log) \in Nat
  BY DEF LinesOf
<1>2. IsFiniteSet(LinesOf(log))
  <2>1. IsFiniteSet(1..Len(log))
    BY <1>1, FS_Interval
  <2>2. QED
    BY <1>1, <2>1, FS_Subset
<1>3. QED
  BY <1>2, FS_Subset, FS_CardinalityType

\* The line after the last one is in place.
LEMMA LineComes ==
    ASSUME NEW log \in Seq(Line), NEW j \in Nat \ {0}, InPlace(log, j),
           NEW line, line = <<j, Cardinality(LinesOf(log)) + 1>>
    PROVE  /\ line \in Line /\ InPlace(Append(log, line), j)
           /\ Cardinality(LinesOf(Append(log, line))) = Cardinality(LinesOf(log)) + 1
<1> DEFINE g == Append(log, line)
           n == Len(log) + 1
<1>1. Cardinality(LinesOf(log)) \in Nat /\ IsFiniteSet(LinesOf(log))
  BY LinesFinite
<1>2. line \in Line /\ line # Mark
  BY <1>1 DEF Line, Mark
<1>3. /\ DOMAIN g = DOMAIN log \cup {n} /\ g[n] = line /\ n \notin DOMAIN log
      /\ \A i \in DOMAIN log : g[i] = log[i] /\ i \in Nat /\ i < n
      /\ Len(log) \in Nat
  BY <1>2
<1> HIDE DEF g
<1>4. LinesOf(g) = LinesOf(log) \cup {n} /\ n \notin LinesOf(log)
  BY <1>2, <1>3 DEF LinesOf
<1>5. Cardinality(LinesOf(g)) = Cardinality(LinesOf(log)) + 1
  BY <1>1, <1>4, FS_AddElement
<1>6. \A i \in LinesOf(log) : {k \in LinesOf(g) : k <= i} = {k \in LinesOf(log) : k <= i}
  BY <1>3, <1>4 DEF LinesOf
<1>7. {k \in LinesOf(g) : k <= n} = LinesOf(g)
  BY <1>3, <1>4 DEF LinesOf
<1>8. ASSUME NEW i \in LinesOf(g)
      PROVE  g[i] = <<j, Cardinality({k \in LinesOf(g) : k <= i})>>
  <2>1. CASE i = n
    BY <1>3, <1>5, <1>7, <2>1
  <2>2. CASE i \in LinesOf(log)
    <3>1. g[i] = log[i]
      BY <1>3, <2>2 DEF LinesOf
    <3>2. log[i] = <<j, Cardinality({k \in LinesOf(log) : k <= i})>>
      BY <2>2 DEF InPlace
    <3>3. QED
      BY <1>6, <2>2, <3>1, <3>2
  <2>3. QED
    BY <1>4, <2>1, <2>2
<1>9. InPlace(g, j)
  BY <1>8 DEF InPlace
<1>10. QED
  BY <1>2, <1>5, <1>9 DEF g

\* A line of the panel's own changes nothing about the others.
LEMMA MarkComes ==
    ASSUME NEW log \in Seq(Line), NEW j
    PROVE  /\ LinesOf(Append(log, Mark)) = LinesOf(log)
           /\ InPlace(log, j) => InPlace(Append(log, Mark), j)
<1>1. /\ DOMAIN Append(log, Mark) = DOMAIN log \cup {Len(log) + 1}
      /\ Append(log, Mark)[Len(log) + 1] = Mark
      /\ \A i \in DOMAIN log : Append(log, Mark)[i] = log[i]
  BY MarkType
<1>2. LinesOf(Append(log, Mark)) = LinesOf(log)
  BY <1>1 DEF LinesOf
<1>3. \A i \in LinesOf(log) : Append(log, Mark)[i] = log[i]
  BY <1>1 DEF LinesOf
<1>4. QED
  BY <1>2, <1>3 DEF InPlace

\* A step that leaves the task, its messages and its command alone.
LEMMA Undisturbed ==
    ASSUME LogInv, UNCHANGED <<form, task, waits, mail>>, busy' # "no" => busy # "no",
           task # NoTask => jobs'[task.job] = jobs[task.job]
    PROVE  LogInv'
<1>1. CASE task = NoTask
  BY <1>1 DEF LogInv
<1>2. CASE task # NoTask
  <2>1. Follows(task.job)
    BY <1>2 DEF LogInv
  <2>2. Follows(task.job)'
    BY <1>2, <2>1 DEF Follows, OneReader, InOrder, Drained, EndKnown, Lines, OnTheWay, InHand
  <2>3. QED
    BY <1>2, <2>2 DEF LogInv
<1>3. QED
  BY <1>1, <1>2

\* What is known of the task on screen.
LEMMA FollowedTask ==
    ASSUME PanelTypes, LogInv, task # NoTask
    PROVE  /\ Follows(task.job) /\ task.job \in DOMAIN jobs /\ task.job \in Nat \ {0}
           /\ jobs[task.job] \in Goroutine /\ task.log \in Seq(Line) /\ Lines \in Nat
           /\ jobs[task.job].chan \in Seq(Line) /\ Len(jobs[task.job].chan) \in Nat
           /\ jobs[task.job].said \in Nat /\ jobs \in Seq(Goroutine)
<1>1. task.job \in DOMAIN jobs /\ jobs \in Seq(Goroutine) /\ task.log \in Seq(Line)
  BY DEF PanelTypes, ViewTypes, RunningTypes, TaskScreen
<1>2. jobs[task.job] \in Goroutine /\ task.job \in Nat \ {0}
  BY <1>1
<1>3. Lines \in Nat
  BY <1>1, LinesFinite DEF Lines
<1>4. /\ jobs[task.job].chan \in Seq(Line) /\ jobs[task.job].said \in Nat
      /\ Len(jobs[task.job].chan) \in Nat
  BY <1>2 DEF Goroutine
<1>5. QED
  BY <1>1, <1>2, <1>3, <1>4 DEF LogInv

\* A channel takes a line, and gives one.
LEMMA ChannelTakes ==
    ASSUME NEW c \in Seq(Line), NEW x \in Line
    PROVE  /\ DOMAIN Append(c, x) = DOMAIN c \cup {Len(c) + 1}
           /\ Append(c, x)[Len(c) + 1] = x /\ Len(Append(c, x)) = Len(c) + 1
           /\ \A k \in DOMAIN c : Append(c, x)[k] = c[k] /\ k \in Nat
OBVIOUS

LEMMA ChannelGives ==
    ASSUME NEW c \in Seq(Line), c # <<>>
    PROVE  /\ Head(c) = c[1] /\ 1 \in DOMAIN c /\ Len(Tail(c)) = Len(c) - 1
           /\ \A k \in DOMAIN Tail(c) : Tail(c)[k] = c[k + 1] /\ k + 1 \in DOMAIN c /\ k \in Nat
OBVIOUS

\* A goroutine logs, hands its line over, or returns.
LEMMA WorkFollows ==
    ASSUME PanelTypes, LogInv, NEW j \in DOMAIN jobs, Log(j) \/ Hand(j) \/ Return(j)
    PROVE  LogInv'
<1>1. UNCHANGED <<form, task, waits, mail, busy>>
  BY DEF Log, Hand, Return, view
<1>2. \A k \in DOMAIN jobs : k # j => jobs'[k] = jobs[k]
  BY DEF Log, Hand, Return, PanelTypes, RunningTypes
<1>3. CASE task = NoTask \/ task.job # j
  <2>1. task # NoTask => jobs'[task.job] = jobs[task.job]
    BY <1>2, <1>3 DEF PanelTypes, ViewTypes
  <2>2. QED
    BY <1>1, <2>1, Undisturbed
<1>4. CASE task # NoTask /\ task.job = j
  <2>1. /\ Follows(j) /\ j \in Nat /\ Lines \in Nat
        /\ jobs[j].chan \in Seq(Line) /\ Len(jobs[j].chan) \in Nat /\ jobs[j].said \in Nat
        /\ jobs[j] \in Goroutine /\ jobs \in Seq(Goroutine)
    BY <1>4, FollowedTask
  <2>2. /\ Lines' = Lines /\ OnTheWay' = OnTheWay /\ OnTheWay \in {0, 1}
        /\ EndKnown' = EndKnown /\ OneReader' = OneReader
    BY <1>1 DEF Lines, OnTheWay, EndKnown, OneReader
  <2>3. jobs[j].at # "over"
    BY DEF Log, Hand, Return
  <2>4. ~EndKnown
    BY <2>1, <2>3 DEF Follows, Drained
  <2>5. /\ \A k \in DOMAIN jobs'[j].chan : jobs'[j].chan[k] = <<j, Lines + OnTheWay + k>>
        /\ jobs'[j].said = Lines + OnTheWay + Len(jobs'[j].chan) + InHand(j)'
    <3>1. /\ \A k \in DOMAIN jobs[j].chan : jobs[j].chan[k] = <<j, Lines + OnTheWay + k>>
          /\ jobs[j].said = Lines + OnTheWay + Len(jobs[j].chan) + InHand(j)
      BY <2>1 DEF Follows, InOrder
    <3>2. CASE Log(j)
      <4>1. /\ jobs'[j].chan = jobs[j].chan /\ jobs'[j].said = jobs[j].said + 1
            /\ jobs'[j].at = "logs" /\ jobs[j].at = "runs"
        BY <2>1, <3>2 DEF Log, Goroutine
      <4>2. QED
        BY <2>1, <2>2, <3>1, <4>1 DEF InHand
    <3>3. CASE Hand(j)
      <4>1. /\ jobs'[j].chan = Append(jobs[j].chan, <<j, jobs[j].said>>)
            /\ jobs'[j].said = jobs[j].said /\ jobs'[j].at = "runs" /\ jobs[j].at = "logs"
        BY <2>1, <3>3 DEF Hand, Goroutine
      <4>2. jobs[j].said = Lines + OnTheWay + Len(jobs[j].chan) + 1
        BY <3>1, <4>1 DEF InHand
      <4> DEFINE c == jobs[j].chan
             x == <<j, jobs[j].said>>
      <4>3. /\ DOMAIN jobs'[j].chan = DOMAIN c \cup {Len(c) + 1}
            /\ jobs'[j].chan[Len(c) + 1] = x /\ Len(jobs'[j].chan) = Len(c) + 1
            /\ \A k \in DOMAIN c : jobs'[j].chan[k] = c[k] /\ k \in Nat
        <5>1. x \in Line
          BY <2>1 DEF Line
        <5> HIDE DEF x
        <5>2. jobs'[j].chan = Append(c, x)
          BY <4>1 DEF x
        <5>3. QED
          BY <2>1, <5>1, <5>2, ChannelTakes
      <4> DEFINE n == Len(c)
             o == OnTheWay
      <4>n. o \in Nat /\ n \in Nat /\ Lines \in Nat
        BY <2>1, <2>2
      <4>m. Lines + o + n + 1 = Lines + o + (n + 1) /\ Lines + o + (n + 1) + 0 = Lines + o + (n + 1)
        <5> HIDE DEF n, o
        <5>1. QED
          BY <4>n
      <4>h. InHand(j)' = 0
        BY <4>1 DEF InHand
      <4>4. jobs'[j].said = Lines + OnTheWay + Len(jobs'[j].chan) + InHand(j)'
        BY <2>2, <4>1, <4>2, <4>3, <4>h, <4>m
      <4>5. \A k \in DOMAIN c : jobs'[j].chan[k] = <<j, Lines + OnTheWay + k>>
        BY <3>1, <4>3
      <4>6. jobs'[j].chan[Len(c) + 1] = <<j, Lines + OnTheWay + (Len(c) + 1)>>
        <5>1. jobs[j].said = Lines + OnTheWay + (Len(c) + 1)
          BY <4>2, <4>m
        <5>2. QED
          BY <4>3, <5>1
      <4>7. QED
        BY <4>3, <4>4, <4>5, <4>6
    <3>4. CASE Return(j)
      <4>1. /\ jobs'[j].chan = jobs[j].chan /\ jobs'[j].said = jobs[j].said
            /\ jobs'[j].at = "over" /\ jobs[j].at = "runs"
        <5>1. PICK err \in BOOLEAN : \E n :
                jobs' = [jobs EXCEPT ![j].at = "over", ![j].err = err, ![j].result = n]
          BY <3>4, Zenon DEF Return
        <5>2. jobs[j].at = "runs"
          BY <3>4 DEF Return
        <5>3. QED
          BY <2>1, <5>1, <5>2 DEF Goroutine
      <4>2. QED
        BY <2>1, <2>2, <3>1, <4>1 DEF InHand
    <3>5. QED
      BY <3>2, <3>3, <3>4
  <2>6. InOrder(j)'
    BY <1>1, <2>1, <2>2, <2>5 DEF Follows, InOrder
  <2>7. QED
    BY <1>1, <1>4, <2>1, <2>2, <2>4, <2>6 DEF LogInv, Follows, Drained
<1>5. QED
  BY <1>3, <1>4

\* A command waits for the task on screen.
LEMMA CommandIs ==
    ASSUME PanelTypes, LogInv, NEW w \in waits
    PROVE  /\ task # NoTask /\ ~task.done /\ mail = {} /\ waits = {w} /\ w.job = task.job
           /\ w.for \in {"line", "err"}
BY DEF LogInv, Follows, OneReader

\* A command ends with a message.
LEMMA CommandFollows ==
    ASSUME PanelTypes, LogInv, NEW w \in waits, WaitLog(w) \/ WaitErr(w)
    PROVE  LogInv'
<1> PICK j : j = task.job
  OBVIOUS
<1>1. /\ task # NoTask /\ ~task.done /\ mail = {} /\ waits = {w} /\ w.job = j
  BY CommandIs
<1>2. /\ Follows(j) /\ j \in DOMAIN jobs /\ Lines \in Nat /\ jobs[j] \in Goroutine
      /\ jobs[j].chan \in Seq(Line) /\ Len(jobs[j].chan) \in Nat /\ jobs[j].said \in Nat
      /\ jobs \in Seq(Goroutine)
  BY <1>1, FollowedTask
<1>3. /\ UNCHANGED <<form, task, busy>> /\ waits' = {} /\ Lines' = Lines
      /\ OnTheWay = 0
  BY <1>1 DEF WaitLog, WaitErr, view, Lines, OnTheWay
<1>4. /\ \A k \in DOMAIN jobs[j].chan : jobs[j].chan[k] = <<j, Lines + k>>
      /\ jobs[j].said = Lines + Len(jobs[j].chan) + InHand(j)
      /\ InPlace(task.log, j)
  BY <1>2, <1>3 DEF Follows, InOrder
<1>5. CASE WaitLog(w) /\ jobs[j].chan # <<>>
  <2>1. /\ jobs' = [jobs EXCEPT ![j].chan = Tail(@)]
        /\ mail' = {[type |-> "line", line |-> Head(jobs[j].chan)]}
    BY <1>1, <1>5 DEF WaitLog
  <2>2. /\ jobs'[j].chan = Tail(jobs[j].chan) /\ jobs'[j].said = jobs[j].said
        /\ jobs'[j].at = jobs[j].at
    BY <1>2, <2>1 DEF Goroutine
  <2>3. /\ Head(jobs[j].chan) = <<j, Lines + 1>>
        /\ Len(Tail(jobs[j].chan)) = Len(jobs[j].chan) - 1
        /\ \A k \in DOMAIN Tail(jobs[j].chan) : Tail(jobs[j].chan)[k] = <<j, Lines + 1 + k>>
    <3>1. \A k \in DOMAIN Tail(jobs[j].chan) : Lines + 1 + k = Lines + (k + 1)
      <4>1. Lines \in Nat /\ \A k \in DOMAIN Tail(jobs[j].chan) : k \in Nat
        BY <1>2, <1>5, ChannelGives
      <4>2. QED
        BY <4>1
    <3>2. QED
      BY <1>2, <1>4, <1>5, <3>1, ChannelGives, SMTT(30)
  <2>4. OnTheWay' = 1 /\ ~EndKnown'
    BY <1>1, <1>3, <2>1 DEF OnTheWay, EndKnown
  <2>5. InOrder(j)'
    <3>1. InPlace(task.log, j)'
      BY <1>3, <1>4
    <3>2. (\A m \in mail : m.type = "line" => m.line = <<j, Lines + 1>>)'
      BY <1>3, <2>1, <2>3
    <3>3. (\A k \in DOMAIN jobs[j].chan : jobs[j].chan[k] = <<j, Lines + OnTheWay + k>>)'
      BY <1>3, <2>2, <2>3, <2>4
    <3>4. InHand(j)' = InHand(j) /\ InHand(j) \in Nat
      BY <2>2 DEF InHand
    <3>5. (jobs[j].said = Lines + OnTheWay + Len(jobs[j].chan) + InHand(j))'
      <4> DEFINE n == Len(jobs[j].chan)
             h == InHand(j)
      <4>1. Lines + n + h = Lines + 1 + (n - 1) + h
        <5>1. Lines \in Nat /\ n \in Nat /\ h \in Nat
          BY <1>2, <3>4
        <5> HIDE DEF n, h
        <5>2. QED
          BY <5>1
      <4>2. QED
        BY <1>3, <1>4, <2>2, <2>3, <2>4, <3>4, <4>1
    <3>6. QED
      BY <3>1, <3>2, <3>3, <3>5 DEF InOrder
  <2>6. OneReader'
    BY <1>1, <1>3, <2>1 DEF OneReader
  <2>7. QED
    BY <1>1, <1>2, <1>3, <2>4, <2>5, <2>6 DEF LogInv, Follows, Drained
<1>6. ASSUME UNCHANGED jobs, jobs[j].chan = <<>>, jobs[j].at = "over",
             NEW type \in {"closed", "done"}, mail' = {[type |-> type, line |-> Mark]}
      PROVE  LogInv'
  <2>1. OnTheWay' = 0
    BY <1>6 DEF OnTheWay
  <2>2. InOrder(j)'
    <3>1. InPlace(task.log, j)' /\ InHand(j)' = InHand(j) /\ InHand(j) \in Nat
      BY <1>3, <1>4, <1>6 DEF InHand
    <3>2. (\A m \in mail : m.type = "line" => m.line = <<j, Lines + 1>>)'
      BY <1>6
    <3>3. (\A k \in DOMAIN jobs[j].chan : jobs[j].chan[k] = <<j, Lines + OnTheWay + k>>)'
      BY <1>6
    <3>4. (jobs[j].said = Lines + OnTheWay + Len(jobs[j].chan) + InHand(j))'
      BY <1>2, <1>3, <1>4, <1>6, <2>1, <3>1
    <3>5. QED
      BY <3>1, <3>2, <3>3, <3>4 DEF InOrder
  <2>3. OneReader' /\ Drained(j)'
    <3>1. mail' # {} /\ waits' = {} /\ ~task'.done
      BY <1>1, <1>3, <1>6
    <3>2. OneReader'
      BY <1>6, <3>1 DEF OneReader
    <3>3. QED
      BY <1>6, <3>2 DEF Drained
  <2>4. QED
    BY <1>1, <1>2, <1>3, <2>2, <2>3 DEF LogInv, Follows
<1>7. CASE WaitLog(w) /\ jobs[j].chan = <<>>
  <2>1. UNCHANGED jobs /\ jobs[j].at = "over" /\ mail' = {[type |-> "closed", line |-> Mark]}
    BY <1>1, <1>7 DEF WaitLog
  <2>2. QED
    BY <1>6, <1>7, <2>1
<1>8. CASE WaitErr(w)
  <2>1. UNCHANGED jobs /\ mail' = {[type |-> "done", line |-> Mark]} /\ EndKnown
    BY <1>1, <1>8 DEF WaitErr, EndKnown
  <2>2. jobs[j].at = "over" /\ jobs[j].chan = <<>>
    BY <1>2, <2>1 DEF Follows, Drained
  <2>3. QED
    BY <1>6, <2>1, <2>2
<1>9. QED
  BY <1>5, <1>7, <1>8

\* A log that grows by a line of the panel's own, or not at all, and a message
\* that is gone when it was none of the task's lines.
LEMMA OrderKept ==
    ASSUME NEW j, InOrder(j), Lines \in Nat, jobs'[j] = jobs[j],
           OnTheWay = 0, OnTheWay' = 0, mail' = {}, Lines' = Lines, InPlace(task.log, j)'
    PROVE  InOrder(j)'
<1>1. InHand(j)' = InHand(j)
  BY DEF InHand
<1>2. QED
  BY <1>1 DEF InOrder

\* A message is the only one, and the task on screen is not done.
LEMMA MessageIs ==
    ASSUME LogInv, NEW m \in mail
    PROVE  task # NoTask /\ ~form /\ ~task.done /\ mail = {m} /\ waits = {}
BY DEF LogInv, Follows, OneReader

\* The log of a task takes a line.
LEMMA LogAppends ==
    ASSUME task \in TaskScreen, NEW line \in Line,
           task' = [task EXCEPT !.log = Append(@, line)]
    PROVE  /\ task' \in TaskScreen /\ task'.job = task.job /\ task'.done = task.done
           /\ task'.log = Append(task.log, line)
<1>1. Append(task.log, line) \in Seq(Line)
  BY LineAppended DEF TaskScreen
<1>2. QED
  BY <1>1 DEF TaskScreen

LEMMA LogLineFollows ==
    ASSUME PanelTypes, LogInv, NEW m \in mail, LogLine(m)
    PROVE  LogInv'
<1> PICK j : j = task.job
  OBVIOUS
<1>1. task # NoTask /\ ~form /\ ~task.done /\ mail = {m} /\ waits = {}
  BY MessageIs
<1>2. /\ Follows(j) /\ j \in DOMAIN jobs /\ j \in Nat \ {0} /\ Lines \in Nat
      /\ task.log \in Seq(Line) /\ task \in TaskScreen
      /\ jobs[j].chan \in Seq(Line) /\ Len(jobs[j].chan) \in Nat
  BY <1>1, FollowedTask DEF PanelTypes, ViewTypes
<1>3. OnTheWay = 1 /\ m.line = <<j, Lines + 1>>
  BY <1>1, <1>2 DEF LogLine, OnTheWay, Follows, InOrder
<1>4. /\ m.line \in Line /\ InPlace(Append(task.log, m.line), j)
      /\ Cardinality(LinesOf(Append(task.log, m.line))) = Lines + 1
  BY <1>2, <1>3, LineComes DEF Lines, Follows, InOrder
<1>5. /\ task' \in TaskScreen /\ task'.job = j /\ ~task'.done
      /\ task'.log = Append(task.log, m.line)
  <2>1. task' = [task EXCEPT !.log = Append(@, m.line)]
    BY <1>1 DEF LogLine
  <2>2. QED
    BY <1>1, <1>2, <1>4, <2>1, LogAppends
<1>6. /\ mail' = {} /\ waits' = {[job |-> j, for |-> "line"]}
      /\ UNCHANGED <<form, jobs, busy>> /\ busy = "no"
  BY <1>1 DEF LogLine, Free
<1>7. Lines' = Lines + 1 /\ OnTheWay' = 0 /\ InHand(j)' = InHand(j)
  BY <1>4, <1>5, <1>6 DEF Lines, OnTheWay, InHand
<1>8. OneReader' /\ ~EndKnown'
  BY <1>5, <1>6 DEF OneReader, EndKnown
<1>9. InOrder(j)'
  <2>1. /\ \A k \in DOMAIN jobs[j].chan : jobs[j].chan[k] = <<j, Lines + 1 + k>>
        /\ jobs[j].said = Lines + 1 + Len(jobs[j].chan) + InHand(j)
    BY <1>2, <1>3 DEF Follows, InOrder
  <2>2. (\A k \in DOMAIN jobs[j].chan : jobs[j].chan[k] = <<j, Lines + OnTheWay + k>>)'
    <3>1. \A k \in DOMAIN jobs[j].chan : Lines + 1 + k = Lines + 1 + 0 + k
      BY <1>2
    <3>2. QED
      BY <1>6, <1>7, <2>1, <3>1
  <2>3. (jobs[j].said = Lines + OnTheWay + Len(jobs[j].chan) + InHand(j))'
    <3>1. Lines + 1 + Len(jobs[j].chan) = Lines + 1 + 0 + Len(jobs[j].chan)
      BY <1>2
    <3>2. QED
      BY <1>6, <1>7, <2>1, <3>1
  <2>4. QED
    BY <1>4, <1>5, <1>6, <2>2, <2>3 DEF InOrder
<1>10. task' # NoTask
  BY <1>2, <1>5, MarkType
<1>11. QED
  BY <1>1, <1>5, <1>6, <1>8, <1>9, <1>10 DEF LogInv, Follows, Drained

LEMMA LogEndFollows ==
    ASSUME PanelTypes, LogInv, NEW m \in mail, LogsClosed(m) \/ TaskDone(m)
    PROVE  LogInv'
<1> PICK j : j = task.job
  OBVIOUS
<1>1. task # NoTask /\ ~form /\ ~task.done /\ mail = {m} /\ waits = {}
  BY MessageIs
<1>2. /\ Follows(j) /\ j \in DOMAIN jobs /\ j \in Nat \ {0} /\ Lines \in Nat
      /\ task.log \in Seq(Line) /\ task \in TaskScreen
  BY <1>1, FollowedTask DEF PanelTypes, ViewTypes
<1>3. m.type # "line" /\ mail' = {} /\ UNCHANGED <<form, jobs>> /\ busy = "no"
  <2>1. CASE LogsClosed(m)
    BY <1>1, <2>1 DEF LogsClosed, Free, view
  <2>2. CASE TaskDone(m)
    <3>1. m.type = "done" /\ mail' = mail \ {m} /\ UNCHANGED <<form, jobs>> /\ busy = "no"
      BY <2>2, Zenon DEF TaskDone, Free
    <3>2. QED
      BY <1>1, <3>1
  <2>3. QED
    BY <2>1, <2>2
<1>4. OnTheWay = 0 /\ OnTheWay' = 0 /\ jobs[j].at = "over" /\ jobs[j].chan = <<>>
  BY <1>1, <1>2, <1>3 DEF OnTheWay, Follows, Drained, EndKnown
<1>5. InOrder(j) /\ InPlace(task.log, j)
  BY <1>2 DEF Follows, InOrder
<1>6. CASE LogsClosed(m)
  <2>1. UNCHANGED <<task, busy>> /\ waits' = {[job |-> j, for |-> "err"]}
    BY <1>1, <1>6 DEF LogsClosed, view
  <2>2. InOrder(j)'
    <3>1. Lines' = Lines /\ InPlace(task.log, j)'
      BY <1>5, <2>1 DEF Lines
    <3>2. QED
      BY <1>2, <1>3, <1>4, <1>5, <3>1, OrderKept
  <2>3. OneReader' /\ Drained(j)'
    BY <1>1, <1>3, <1>4, <2>1 DEF OneReader, Drained
  <2>4. QED
    BY <1>1, <1>3, <2>1, <2>2, <2>3 DEF LogInv, Follows
<1>7. CASE TaskDone(m)
  <2>1. task' = [task EXCEPT !.done = TRUE,
                             !.log = IF jobs[task.job].err THEN Append(@, Mark) ELSE @]
    BY <1>1, <1>7, Zenon DEF TaskDone
  <2>2. /\ task'.done /\ task'.job = j /\ LinesOf(task'.log) = LinesOf(task.log)
        /\ InPlace(task'.log, j)
    <3>1. CASE jobs[task.job].err
      <4>1. task'.log = Append(task.log, Mark) /\ task'.done /\ task'.job = j
        BY <1>2, <2>1, <3>1 DEF TaskScreen
      <4>2. QED
        BY <1>2, <1>5, <4>1, MarkComes
    <3>2. CASE ~jobs[task.job].err
      BY <1>2, <1>5, <2>1, <3>2 DEF TaskScreen
    <3>3. QED
      BY <3>1, <3>2
  <2>3. waits' = {}
    BY <1>1, <1>7 DEF TaskDone
  <2>4. InOrder(j)'
    <3>1. Lines' = Lines
      BY <2>2 DEF Lines
    <3>2. InPlace(task.log, j)'
      BY <2>2
    <3>3. QED
      BY <1>2, <1>3, <1>4, <1>5, <3>1, <3>2, OrderKept
  <2>5. OneReader' /\ Drained(j)' /\ task' # NoTask
    BY <1>2, <1>3, <1>4, <2>2, <2>3, MarkType DEF OneReader, Drained
  <2>6. QED
    BY <1>1, <1>3, <2>2, <2>4, <2>5 DEF LogInv, Follows
<1>8. QED
  BY <1>6, <1>7

\* A task that starts has said nothing.
LEMMA NewTaskFollows ==
    ASSUME PanelTypes, LogInv, task = NoTask, ~form', busy' = "no",
           NEW kind \in Kinds, StartTask(kind), mail' = mail
    PROVE  LogInv'
<1> PICK j : j = Len(jobs) + 1
  OBVIOUS
<1>1. waits = {} /\ mail = {}
  BY DEF LogInv
<1>2. /\ task' = [job |-> j, done |-> FALSE, log |-> <<>>] /\ task' # NoTask
      /\ jobs'[j] = Job(kind)
  BY JobStarts DEF PanelTypes
<1>3. waits' = {[job |-> j, for |-> "line"]} /\ mail' = {}
  BY <1>1 DEF StartTask
<1>4. LinesOf(task'.log) = {}
  BY <1>2 DEF LinesOf
<1>5. Lines' = 0 /\ OnTheWay' = 0 /\ InHand(j)' = 0
  <2>1. Lines' = 0
    BY <1>4, FS_EmptySet DEF Lines
  <2>2. OnTheWay' = 0
    BY <1>3 DEF OnTheWay
  <2>3. InHand(j)' = 0
    BY <1>2 DEF InHand, Job
  <2>4. QED
    BY <2>1, <2>2, <2>3
<1>6. InOrder(j)'
  BY <1>2, <1>3, <1>4, <1>5 DEF InOrder, InPlace, Job
<1>7. OneReader' /\ ~EndKnown'
  BY <1>2, <1>3 DEF OneReader, EndKnown
<1>8. QED
  BY <1>2, <1>6, <1>7 DEF LogInv, Follows, Drained

\* esc and c on the task screen.
LEMMA TaskKeyFollows ==
    ASSUME PanelTypes, LogInv, TaskKey
    PROVE  LogInv'
<1> PICK j : j = task.job
  OBVIOUS
<1>1. task # NoTask /\ UNCHANGED <<form, waits, mail, busy>> /\ busy = "no"
  BY Zenon DEF TaskKey, Free
<1>2. /\ Follows(j) /\ j \in DOMAIN jobs /\ j \in Nat \ {0} /\ jobs[j] \in Goroutine
      /\ task.log \in Seq(Line) /\ task \in TaskScreen /\ jobs \in Seq(Goroutine)
  BY <1>1, FollowedTask DEF PanelTypes, ViewTypes
<1>3. CASE task.done /\ LeaveTask
  BY <1>1, <1>2, <1>3 DEF LeaveTask, LogInv, Follows, OneReader
<1>4. ASSUME task' = [task EXCEPT !.log = Append(@, Mark)],
             jobs'[j].chan = jobs[j].chan, jobs'[j].said = jobs[j].said,
             jobs'[j].at = jobs[j].at
      PROVE  LogInv'
  <2>1. /\ task'.job = j /\ task'.done = task.done /\ task'.log = Append(task.log, Mark)
    BY <1>2, <1>4, LogAppends, MarkType
  <2>2. LinesOf(task'.log) = LinesOf(task.log) /\ InPlace(task.log, j)'
    BY <1>2, <2>1, MarkComes DEF Follows, InOrder
  <2>3. Lines' = Lines /\ OnTheWay' = OnTheWay /\ InHand(j)' = InHand(j)
    BY <1>1, <1>4, <2>2 DEF Lines, OnTheWay, InHand
  <2>4. InOrder(j)'
    BY <1>1, <1>2, <1>4, <2>2, <2>3 DEF Follows, InOrder
  <2>5. OneReader' /\ Drained(j)'
    BY <1>1, <1>2, <1>4, <2>1 DEF Follows, OneReader, Drained, EndKnown
  <2>6. task' # NoTask
    BY <1>2, <2>1, MarkType
  <2>7. QED
    BY <1>1, <1>2, <2>1, <2>4, <2>5, <2>6 DEF LogInv, Follows
<1>5. CASE /\ jobs' = [jobs EXCEPT ![task.job].cancelled = TRUE]
           /\ task' = [task EXCEPT !.log = Append(@, Mark)]
  <2>1. /\ jobs'[j].chan = jobs[j].chan /\ jobs'[j].said = jobs[j].said
        /\ jobs'[j].at = jobs[j].at
    BY <1>2, <1>5 DEF Goroutine
  <2>2. QED
    BY <1>4, <1>5, <2>1
<1>6. CASE task' = [task EXCEPT !.log = Append(@, Mark)] /\ UNCHANGED jobs
  BY <1>4, <1>6
<1>7. QED
  BY <1>3, <1>5, <1>6, Zenon DEF TaskKey

\* Every other key.
LEMMA KeyFollows ==
    ASSUME PanelTypes, LogInv, Keys
    PROVE  LogInv'
<1>1. CASE Quit
  BY <1>1 DEF Quit, Stop, LogInv
<1>2. CASE FormKey
  <2>1. task = NoTask /\ UNCHANGED <<mail, busy>> /\ busy = "no"
    BY <1>2 DEF FormKey, Free, LogInv, Follows
  <2>2. CASE ~form' /\ StartTask("plain")
    BY <2>1, <2>2, NewTaskFollows DEF Kinds
  <2>3. CASE UNCHANGED <<task, waits>>
    BY <2>1, <2>3 DEF LogInv
  <2>4. QED
    BY <1>2, <2>2, <2>3 DEF FormKey
<1>3. CASE RerunReport \/ Enter
  <2>1. /\ task = NoTask /\ UNCHANGED <<mail, busy>> /\ busy = "no" /\ ~form
        /\ \/ UNCHANGED <<task, waits>>
           \/ ~form' /\ \E kind \in Kinds : StartTask(kind)
    BY <1>3 DEF RerunReport, Enter, AtMenu, Free, Kinds
  <2>2. CASE UNCHANGED <<task, waits>>
    BY <2>1, <2>2 DEF LogInv
  <2>3. QED
    BY <2>1, <2>2, NewTaskFollows
<1>4. CASE ScreenKey \/ \E c : Choose(c)
  <2>1. UNCHANGED <<form, task, waits, mail, jobs, busy>>
    BY <1>4 DEF ScreenKey, Choose, view, running
  <2>2. QED
    BY <2>1, Undisturbed
<1>5. QED
  BY <1>1, <1>2, <1>3, <1>4, TaskKeyFollows DEF Keys, ToggleBoard, SetBoardAll

\* The lock of the board is waited for, and held, only for a task that is done.
LEMMA SaveFollows ==
    ASSUME PanelTypes, LogInv, Save \/ ToolRun
    PROVE  LogInv'
<1>1. CASE SaveBoard
  <2>1. task # NoTask /\ task.done /\ task' = NoTask /\ UNCHANGED <<waits, mail>>
    BY <1>1 DEF SaveBoard, LeaveTask, PanelTypes, ViewTypes, LogInv, Follows
  <2>2. waits = {} /\ mail = {}
    BY <2>1 DEF LogInv, Follows, OneReader
  <2>3. QED
    BY <2>1, <2>2 DEF LogInv
<1>2. CASE AcquireBoard \/ ToolRun
  <2>1. UNCHANGED <<form, task, waits, mail, jobs>> /\ (busy' # "no" => busy # "no")
    BY <1>2 DEF AcquireBoard, ToolRun, RunTool, RunToolLock, RunToolSave, view, running
  <2>2. QED
    BY <2>1, Undisturbed
<1>3. QED
  BY <1>1, <1>2 DEF Save

LEMMA LogInvStep == PanelTypes /\ LogInv /\ [Next]_vars => LogInv'
<1> SUFFICES ASSUME PanelTypes, LogInv, [Next]_vars PROVE LogInv'
  OBVIOUS
<1>1. CASE UNCHANGED vars \/ Start
  <2>1. UNCHANGED <<form, task, waits, mail, jobs, busy>>
    BY <1>1 DEF vars, view, running, Start
  <2>2. QED
    BY <2>1, Undisturbed
<1>2. ASSUME NEW m \in mail, Swallowed(m) PROVE LogInv'
  BY <1>2, MessageIs DEF Swallowed
<1>3. QED
  BY <1>1, <1>2, LogLineFollows, LogEndFollows, CommandFollows, WorkFollows, SaveFollows,
     KeyFollows DEF Next, Messages, Commands, Work

LEMMA LogInvInit == Init => LogInv
BY DEF Init, LogInv

\* What is shown is right.
LEMMA LogInvShows == PanelTypes /\ LogInv => LogIsComplete
<1> SUFFICES ASSUME PanelTypes, LogInv, task # NoTask
             PROVE  /\ \A i \in Shown : task.log[i] = <<task.job, Place(i)>>
                    /\ Cardinality(Shown) <= jobs[task.job].said
                    /\ task.done => Cardinality(Shown) = jobs[task.job].said
  BY DEF LogIsComplete
<1> PICK j : j = task.job
  OBVIOUS
<1>1. /\ Follows(j) /\ Lines \in Nat /\ Len(jobs[j].chan) \in Nat /\ jobs[j].said \in Nat
      /\ jobs[j].chan \in Seq(Line)
  BY FollowedTask
<1>2. Shown = LinesOf(task.log)
  BY DEF Shown, LinesOf
<1>3. \A i \in Shown : task.log[i] = <<j, Place(i)>>
  BY <1>1, <1>2 DEF Follows, InOrder, InPlace, Place
<1>4. Cardinality(Shown) = Lines /\ OnTheWay \in {0, 1} /\ InHand(j) \in {0, 1}
  BY <1>2 DEF Lines, OnTheWay, InHand
<1>5. jobs[j].said = Lines + OnTheWay + Len(jobs[j].chan) + InHand(j)
  BY <1>1 DEF Follows, InOrder
<1>6. task.done => OnTheWay = 0 /\ InHand(j) = 0 /\ Len(jobs[j].chan) = 0
  BY <1>1 DEF Follows, OneReader, OnTheWay, Drained, EndKnown, InHand
<1>7. Lines <= jobs[j].said /\ (task.done => Lines = jobs[j].said)
  <2> DEFINE n == Len(jobs[j].chan)
             o == OnTheWay
             h == InHand(j)
  <2>1. /\ n \in Nat /\ o \in Nat /\ h \in Nat /\ Lines \in Nat
        /\ jobs[j].said = Lines + o + n + h /\ (task.done => o = 0 /\ h = 0 /\ n = 0)
    BY <1>1, <1>4, <1>5, <1>6
  <2> HIDE DEF n, o, h
  <2>2. QED
    BY <2>1
<1>8. QED
  BY <1>3, <1>4, <1>7

(***************************************************************************)
(* However fast a task talks, however long its lines wait in the channel   *)
(* and whatever is cancelled, copied, quit or left, the task screen shows  *)
(* the lines of its own task in their order, none twice and none left out, *)
(* and all of them once it says that the task is done.                     *)
(***************************************************************************)
THEOREM LogsAreComplete == Spec => []LogIsComplete
<1>1. Init => PanelTypes /\ LogInv
  BY PanelTypesInit, LogInvInit
<1>2. PanelTypes /\ LogInv /\ [Next]_vars => (PanelTypes /\ LogInv)'
  BY PanelTypesStep, LogInvStep
<1>3. QED
  BY <1>1, <1>2, LogInvShows, PTL DEF Spec

-----------------------------------------------------------------------------
(***************************************************************************)
(* Panel: the board of the toolbox.                                        *)
(***************************************************************************)
\* A tool that is over has an outcome.
Outcome(x) == x.at = "over" /\ x.kind \in Tools => x.result # 0
OutcomesKnown == \A j \in DOMAIN jobs : Outcome(jobs[j])

\* Who holds the lock of the board, and what the holder knows.
LockHeld ==
    /\ (lock = "panel") <=> (busy = "save")
    /\ (lock = "cli") <=> (cli.at = "save")
    /\ cli.at = "save" => cli.copy = board

\* The panel has an outcome for what it saves, and what it has none for is as
\* it was written down last.
PanelKnows ==
    /\ busy # "no" => alive /\ results[screen] # 0
    /\ \A t \in Tools : results[t] = 0 => board[t] = newest[t]

BoardInv == OutcomesKnown /\ LockHeld /\ PanelKnows /\ RecordsAreKept

\* Goroutines that move: one of the list, or a new one.
LEMMA OutcomePut ==
    ASSUME jobs \in Seq(Goroutine), OutcomesKnown, NEW j \in DOMAIN jobs, NEW x \in Goroutine,
           Outcome(x), jobs' = [jobs EXCEPT ![j] = x]
    PROVE  OutcomesKnown'
<1>1. DOMAIN jobs' = DOMAIN jobs /\ jobs'[j] = x /\ \A k \in DOMAIN jobs : k # j => jobs'[k] = jobs[k]
  BY JobPut
<1>2. QED
  BY <1>1 DEF OutcomesKnown, Outcome

LEMMA OutcomeStarts ==
    ASSUME jobs \in Seq(Goroutine), OutcomesKnown, NEW kind \in Kinds, StartTask(kind)
    PROVE  OutcomesKnown'
<1>1. Job(kind) \in Goroutine /\ Job(kind).at = "runs"
  BY DEF Job, Goroutine
<1>2. DOMAIN jobs' = DOMAIN jobs \cup {Len(jobs) + 1} /\ jobs'[Len(jobs) + 1] = Job(kind)
      /\ \A k \in DOMAIN jobs : jobs'[k] = jobs[k]
  BY <1>1 DEF StartTask
<1>3. QED
  BY <1>1, <1>2 DEF OutcomesKnown, Outcome

LEMMA OutcomeLeft ==
    ASSUME PanelTypes, OutcomesKnown, task # NoTask, LeaveTask
    PROVE  OutcomesKnown'
<1>1. task.job \in DOMAIN jobs /\ jobs \in Seq(Goroutine)
  BY DEF PanelTypes, ViewTypes, RunningTypes
<1>2. Gone \in Goroutine /\ Gone.kind = "none"
  <2>1. Job("none") \in Goroutine /\ Job("none").kind = "none"
    BY DEF Job, Goroutine
  <2>2. QED
    BY <2>1 DEF Gone, Goroutine
<1>3. Outcome(Gone)
  BY <1>2, PanelAssumption DEF Outcome
<1>4. CASE jobs' = jobs
  BY <1>4 DEF OutcomesKnown, Outcome
<1>5. CASE jobs' = [jobs EXCEPT ![task.job] = Gone]
  BY <1>1, <1>2, <1>3, <1>5, OutcomePut
<1>6. QED
  BY <1>4, <1>5 DEF LeaveTask

\* What a goroutine, a command and a key do to the outcomes.
LEMMA OutcomesWork ==
    ASSUME PanelTypes, OutcomesKnown,
           \/ \E j \in DOMAIN jobs : Log(j) \/ Hand(j) \/ Return(j)
           \/ \E w \in waits : WaitLog(w)
    PROVE  OutcomesKnown'
<1>1. jobs \in Seq(Goroutine) /\ \A w \in waits : w.job \in DOMAIN jobs
  BY DEF PanelTypes, RunningTypes
<1>2. ASSUME NEW j \in DOMAIN jobs, Log(j) PROVE OutcomesKnown'
  <2>1. jobs'[j].at = "logs" /\ DOMAIN jobs' = DOMAIN jobs
    <3>1. jobs[j] \in Goroutine
      BY <1>1
    <3>2. QED
      BY <1>1, <1>2, <3>1 DEF Log, Goroutine
  <2>2. \A k \in DOMAIN jobs : k # j => jobs'[k] = jobs[k]
    BY <1>1, <1>2 DEF Log
  <2>3. QED
    BY <2>1, <2>2 DEF OutcomesKnown, Outcome
<1>3. ASSUME NEW j \in DOMAIN jobs, Hand(j) PROVE OutcomesKnown'
  <2>1. jobs'[j].at = "runs" /\ DOMAIN jobs' = DOMAIN jobs
    <3>1. jobs[j] \in Goroutine
      BY <1>1
    <3>2. QED
      BY <1>1, <1>3, <3>1 DEF Hand, Goroutine
  <2>2. \A k \in DOMAIN jobs : k # j => jobs'[k] = jobs[k]
    BY <1>1, <1>3 DEF Hand
  <2>3. QED
    BY <2>1, <2>2 DEF OutcomesKnown, Outcome
<1>4. ASSUME NEW j \in DOMAIN jobs, Return(j) PROVE OutcomesKnown'
  <2>1. clock + 1 # 0
    BY DEF PanelTypes, BoardTypes
  <2> DEFINE r == IF jobs[j].kind \in Tools THEN clock + 1 ELSE 0
  <2>2. PICK err \in BOOLEAN :
          jobs' = [jobs EXCEPT ![j].at = "over", ![j].err = err, ![j].result = r]
    BY <1>4, Zenon DEF Return
  <2>3. jobs[j].kind \in Tools => r # 0
    BY <2>1
  <2> HIDE DEF r
  <2>4. jobs[j] \in Goroutine
    BY <1>1
  <2>5. jobs'[j].kind = jobs[j].kind /\ jobs'[j].result = r /\ DOMAIN jobs' = DOMAIN jobs
    BY <1>1, <2>2, <2>4 DEF Goroutine
  <2>6. \A k \in DOMAIN jobs : k # j => jobs'[k] = jobs[k]
    BY <1>1, <2>2
  <2>7. QED
    BY <2>3, <2>5, <2>6 DEF OutcomesKnown, Outcome
<1>5. ASSUME NEW w \in waits, WaitLog(w) PROVE OutcomesKnown'
  <2>1. CASE jobs' = jobs
    BY <2>1 DEF OutcomesKnown, Outcome
  <2>2. CASE jobs' = [jobs EXCEPT ![w.job].chan = Tail(@)]
    <3>1. /\ DOMAIN jobs' = DOMAIN jobs /\ jobs'[w.job].at = jobs[w.job].at
          /\ jobs'[w.job].kind = jobs[w.job].kind /\ jobs'[w.job].result = jobs[w.job].result
          /\ \A k \in DOMAIN jobs : k # w.job => jobs'[k] = jobs[k]
      BY <1>1, <2>2 DEF Goroutine
    <3>2. QED
      BY <1>1, <3>1 DEF OutcomesKnown, Outcome
  <2>3. QED
    BY <1>5, <2>1, <2>2 DEF WaitLog
<1>6. QED
  BY <1>2, <1>3, <1>4, <1>5

LEMMA OutcomesKeys ==
    ASSUME PanelTypes, OutcomesKnown, Keys
    PROVE  OutcomesKnown'
<1>1. jobs \in Seq(Goroutine)
  BY DEF PanelTypes, RunningTypes
<1>2. CASE jobs' = jobs
  BY <1>2 DEF OutcomesKnown, Outcome
<1>3. CASE \E kind \in Kinds : StartTask(kind)
  BY <1>1, <1>3, OutcomeStarts
<1>4. CASE Quit
  <2>1. DOMAIN jobs' = {}
    BY <1>4 DEF Quit, Stop
  <2>2. QED
    BY <2>1 DEF OutcomesKnown
<1>5. CASE TaskKey
  <2>1. task # NoTask /\ task.job \in DOMAIN jobs
    BY <1>5, Zenon DEF TaskKey, PanelTypes, ViewTypes
  <2>2. CASE LeaveTask
    BY <2>1, <2>2, OutcomeLeft
  <2>3. CASE jobs' = [jobs EXCEPT ![task.job].cancelled = TRUE]
    <3>1. jobs[task.job] \in Goroutine
      BY <1>1, <2>1
    <3>2. /\ DOMAIN jobs' = DOMAIN jobs /\ jobs'[task.job].at = jobs[task.job].at
          /\ jobs'[task.job].kind = jobs[task.job].kind
          /\ jobs'[task.job].result = jobs[task.job].result
      BY <1>1, <2>1, <2>3, <3>1 DEF Goroutine
    <3>3. \A k \in DOMAIN jobs : k # task.job => jobs'[k] = jobs[k]
      BY <1>1, <2>1, <2>3
    <3>4. QED
      BY <2>1, <3>2, <3>3 DEF OutcomesKnown, Outcome
  <2>4. QED
    BY <1>2, <1>5, <2>2, <2>3, Zenon DEF TaskKey
<1>6. CASE FormKey \/ ScreenKey \/ RerunReport \/ Enter \/ \E c : Choose(c)
  <2>1. jobs' = jobs \/ \E kind \in Kinds : StartTask(kind)
    BY <1>6 DEF FormKey, ScreenKey, RerunReport, Enter, Choose, running, Kinds
  <2>2. QED
    BY <1>2, <1>3, <2>1
<1>7. QED
  BY <1>4, <1>5, <1>6 DEF Keys, ToggleBoard, SetBoardAll

LEMMA OutcomesStep == PanelTypes /\ OutcomesKnown /\ [Next]_vars => OutcomesKnown'
<1> SUFFICES ASSUME PanelTypes, OutcomesKnown, [Next]_vars PROVE OutcomesKnown'
  OBVIOUS
<1>1. CASE jobs' = jobs
  BY <1>1 DEF OutcomesKnown, Outcome
<1>2. CASE SaveBoard
  BY <1>2, OutcomeLeft DEF SaveBoard, PanelTypes, ViewTypes
<1>3. Messages => jobs' = jobs
  <2>1. SUFFICES ASSUME NEW m \in mail,
                        Swallowed(m) \/ LogLine(m) \/ LogsClosed(m) \/ TaskDone(m)
                 PROVE  jobs' = jobs
    BY DEF Messages
  <2>2. QED
    BY <2>1 DEF Swallowed, LogLine, LogsClosed, TaskDone
<1>4. CASE Commands
  <2>1. PICK w \in waits : WaitLog(w) \/ WaitErr(w)
    BY <1>4 DEF Commands
  <2>2. QED
    BY <1>1, <2>1, OutcomesWork DEF WaitErr
<1>5. AcquireBoard \/ ToolRun \/ Start \/ UNCHANGED vars => jobs' = jobs
  BY DEF AcquireBoard, ToolRun, RunTool, RunToolLock, RunToolSave, Start, vars, running
<1>6. QED
  BY <1>1, <1>2, <1>3, <1>4, <1>5, OutcomesWork, OutcomesKeys DEF Next, Work, Save

\* The end of a tool's task is known once it has an outcome.
LEMMA DoneHasOutcome ==
    ASSUME PanelTypes, LogInv, OutcomesKnown, NEW m \in mail, m.type # "line"
    PROVE  task # NoTask /\ (jobs[task.job].kind \in Tools => jobs[task.job].result # 0)
<1>1. task # NoTask
  BY MessageIs
<1>2. task.job \in DOMAIN jobs /\ jobs[task.job].at = "over"
  BY <1>1, FollowedTask DEF Follows, Drained, EndKnown
<1>3. QED
  BY <1>1, <1>2 DEF OutcomesKnown, Outcome

\* A step that leaves the board and what is known about it alone.
BoardAlone ==
    /\ UNCHANGED <<board, newest, held, lock, cli, results>>
    /\ busy' = busy /\ (busy # "no" => screen' = screen /\ alive' = alive)

LEMMA BoardUntouched ==
    ASSUME LockHeld, PanelKnows, RecordsAreKept, BoardAlone
    PROVE  LockHeld' /\ PanelKnows' /\ RecordsAreKept'
<1>1. LockHeld'
  BY DEF BoardAlone, LockHeld
<1>2. PanelKnows'
  BY DEF BoardAlone, PanelKnows
<1>3. RecordsAreKept'
  BY DEF BoardAlone, RecordsAreKept
<1>4. QED
  BY <1>1, <1>2, <1>3

LEMMA MessageBoard ==
    ASSUME PanelTypes, LogInv, BoardInv, NEW m \in mail,
           Swallowed(m) \/ LogLine(m) \/ LogsClosed(m) \/ TaskDone(m)
    PROVE  LockHeld' /\ PanelKnows' /\ RecordsAreKept'
<1>1. /\ UNCHANGED <<board, newest, held, lock, cli, alive>> /\ alive /\ busy = "no"
  BY DEF Swallowed, LogLine, LogsClosed, TaskDone, Free, files, history
<1>2. CASE UNCHANGED <<busy, results>>
  BY <1>1, <1>2, BoardUntouched DEF BoardInv, BoardAlone
<1>3. CASE /\ TaskDone(m) /\ jobs[task.job].kind \in Tools
           /\ results' = [results EXCEPT ![jobs[task.job].kind] = jobs[task.job].result]
           /\ screen' = jobs[task.job].kind /\ busy' = "lock"
  <2>1. jobs[task.job].result # 0
    <3>1. m.type # "line"
      BY <1>3 DEF TaskDone
    <3>2. QED
      BY <1>3, <3>1, DoneHasOutcome DEF BoardInv
  <2>2. results \in Records
    BY DEF PanelTypes, BoardTypes
  <2>3. results'[screen'] # 0 /\ \A t \in Tools : results'[t] = 0 => results[t] = 0
    BY <1>3, <2>1, <2>2 DEF Records
  <2>4. PanelKnows'
    BY <1>1, <1>3, <2>3 DEF BoardInv, PanelKnows
  <2>5. LockHeld' /\ RecordsAreKept'
    BY <1>1, <1>3 DEF BoardInv, LockHeld, RecordsAreKept
  <2>6. QED
    BY <2>4, <2>5
<1>4. QED
  BY <1>2, <1>3 DEF Swallowed, LogLine, LogsClosed, TaskDone

LEMMA SaveKeeps ==
    ASSUME PanelTypes, BoardInv, Save
    PROVE  LockHeld' /\ PanelKnows' /\ RecordsAreKept'
<1>1. /\ {results, board, newest, held} \subseteq Records /\ (busy # "no" => screen \in Tools)
  BY DEF PanelTypes, ViewTypes, BoardTypes
<1>2. CASE AcquireBoard
  BY <1>2 DEF AcquireBoard, view, history, BoardInv, LockHeld, PanelKnows, RecordsAreKept
<1>3. CASE SaveBoard
  <2>1. /\ screen \in Tools /\ results[screen] # 0 /\ lock = "panel" /\ busy' = "no"
        /\ lock' = "free" /\ UNCHANGED <<results, cli>>
    BY <1>1, <1>3 DEF SaveBoard, BoardInv, LockHeld, PanelKnows
  <2>2. cli.at # "save"
    BY <2>1 DEF BoardInv, LockHeld
  <2>3. LockHeld'
    BY <2>1, <2>2 DEF LockHeld
  <2>4. CASE UNCHANGED <<board, newest, held>>
    BY <2>1, <2>3, <2>4 DEF BoardInv, PanelKnows, RecordsAreKept
  <2>5. CASE /\ board' = Merged /\ held' = results
             /\ newest' = [newest EXCEPT ![screen] = results[screen]]
    <3>1. ASSUME NEW t \in Tools
          PROVE  /\ board'[t] = IF results[t] # 0 THEN results[t] ELSE board[t]
                 /\ newest'[t] = IF t = screen THEN results[t] ELSE newest[t]
                 /\ held'[t] = results[t]
      BY <1>1, <2>5 DEF Merged, Records
    <3>2. \A t \in Tools : results[t] = 0 => board[t] = newest[t]
      BY DEF BoardInv, PanelKnows
    <3>3. RecordsAreKept'
      BY <2>1, <3>1, <3>2 DEF RecordsAreKept
    <3>4. PanelKnows'
      BY <2>1, <3>1, <3>2 DEF PanelKnows
    <3>5. QED
      BY <2>3, <3>3, <3>4
  <2>6. QED
    BY <1>3, <2>4, <2>5 DEF SaveBoard
<1>4. QED
  BY <1>2, <1>3 DEF Save

LEMMA ToolRunKeeps ==
    ASSUME PanelTypes, BoardInv, ToolRun
    PROVE  LockHeld' /\ PanelKnows' /\ RecordsAreKept'
<1>1. {results, board, newest, held} \subseteq Records /\ cli \in ToolRunning \cup {NoRun}
  BY DEF PanelTypes, BoardTypes
<1>2. ASSUME NEW t \in Tools, RunTool(t)
      PROVE  LockHeld' /\ PanelKnows' /\ RecordsAreKept'
  BY <1>2 DEF RunTool, view, BoardInv, LockHeld, PanelKnows, RecordsAreKept
<1>3. CASE RunToolLock
  <2>1. cli \in ToolRunning /\ cli' = [cli EXCEPT !.at = "save", !.copy = board]
    BY <1>1, <1>3 DEF RunToolLock, NoRun
  <2>2. cli'.at = "save" /\ cli'.copy = board
    BY <2>1 DEF ToolRunning
  <2>3. QED
    BY <1>3, <2>2 DEF RunToolLock, view, history, BoardInv, LockHeld, PanelKnows,
       RecordsAreKept
<1>4. CASE RunToolSave
  <2>1. /\ cli \in ToolRunning /\ cli.copy = board /\ lock = "cli" /\ busy # "save"
        /\ UNCHANGED <<results, held, busy, screen, alive>>
    BY <1>1, <1>4 DEF RunToolSave, NoRun, BoardInv, LockHeld, view
  <2>2. LockHeld'
    BY <1>4, <2>1 DEF RunToolSave, LockHeld, NoRun
  <2>3. CASE UNCHANGED <<board, newest>>
    BY <2>1, <2>2, <2>3 DEF BoardInv, PanelKnows, RecordsAreKept
  <2>4. CASE /\ board' = [cli.copy EXCEPT ![cli.tool] = cli.time]
             /\ newest' = [newest EXCEPT ![cli.tool] = cli.time]
    <3>1. cli.tool \in Tools /\ cli.time # 0
      BY <2>1 DEF ToolRunning
    <3>2. ASSUME NEW t \in Tools
          PROVE  /\ board'[t] = IF t = cli.tool THEN cli.time ELSE board[t]
                 /\ newest'[t] = IF t = cli.tool THEN cli.time ELSE newest[t]
      BY <1>1, <2>1, <2>4 DEF Records
    <3>3. RecordsAreKept'
      BY <2>1, <3>1, <3>2 DEF BoardInv, RecordsAreKept
    <3>4. PanelKnows'
      BY <2>1, <3>2 DEF BoardInv, PanelKnows
    <3>5. QED
      BY <2>2, <3>3, <3>4
  <2>5. QED
    BY <1>4, <2>3, <2>4 DEF RunToolSave
<1>5. QED
  BY <1>2, <1>3, <1>4 DEF ToolRun

LEMMA BoardInvStep == PanelTypes /\ LogInv /\ BoardInv /\ [Next]_vars => BoardInv'
<1> SUFFICES ASSUME PanelTypes, LogInv, BoardInv, [Next]_vars PROVE BoardInv'
  OBVIOUS
<1>1. OutcomesKnown'
  BY OutcomesStep DEF BoardInv
<1>2. CASE BoardAlone
  BY <1>1, <1>2, BoardUntouched DEF BoardInv
<1>3. UNCHANGED vars => BoardAlone
  BY DEF vars, view, files, history, BoardAlone
<1>4. Commands \/ Work => BoardAlone
  BY DEF Commands, Work, WaitLog, WaitErr, Log, Hand, Return, view, files, history, BoardAlone
<1>5. Keys => BoardAlone
  BY DEF Keys, Quit, Stop, FormKey, TaskKey, ScreenKey, RerunReport, Enter, ToggleBoard,
     SetBoardAll, Choose, AtMenu, Free, view, files, history, BoardAlone
<1>6. CASE Start
  <2>1. /\ results' = board /\ busy = "no" /\ UNCHANGED <<busy, board, newest, held, lock, cli>>
    BY <1>6 DEF Start, files, BoardInv, PanelKnows
  <2>2. LockHeld' /\ RecordsAreKept'
    BY <2>1 DEF BoardInv, LockHeld, RecordsAreKept
  <2>3. PanelKnows'
    BY <2>1 DEF BoardInv, PanelKnows, RecordsAreKept
  <2>4. QED
    BY <1>1, <2>2, <2>3 DEF BoardInv
<1>7. ASSUME NEW m \in mail, Swallowed(m) \/ LogLine(m) \/ LogsClosed(m) \/ TaskDone(m)
      PROVE  BoardInv'
  BY <1>1, <1>7, MessageBoard DEF BoardInv
<1>8. QED
  BY <1>1, <1>2, <1>3, <1>4, <1>5, <1>6, <1>7, SaveKeeps, ToolRunKeeps
     DEF Next, Messages, BoardInv

LEMMA BoardInvInit == Init => BoardInv
BY DEF Init, BoardInv, OutcomesKnown, LockHeld, PanelKnows, RecordsAreKept, NoRun, NoRecords

(***************************************************************************)
(* Neither the panel nor a run of `--tool` beside it loses a tool of the   *)
(* board or a record it did not itself replace, whoever waits for the lock *)
(* and whichever write fails or run is killed.                             *)
(***************************************************************************)
THEOREM RecordsAlwaysKept == Spec => []RecordsAreKept
<1>1. Init => PanelTypes /\ LogInv /\ BoardInv
  BY PanelTypesInit, LogInvInit, BoardInvInit
<1>2. PanelTypes /\ LogInv /\ BoardInv /\ [Next]_vars => (PanelTypes /\ LogInv /\ BoardInv)'
  BY PanelTypesStep, LogInvStep, BoardInvStep
<1>3. BoardInv => RecordsAreKept
  BY DEF BoardInv
<1>4. QED
  BY <1>1, <1>2, <1>3, PTL DEF Spec

-----------------------------------------------------------------------------
(***************************************************************************)
(* Panel: the selection of the board.                                      *)
(***************************************************************************)
\* What the preferences hold gives the selection back, while no write failed.
StoredSelection == faults = 0 => Selected(BoardFromPrefs(stored)) = wanted

ChoiceInv == SelectionIsKept /\ StoredSelection

\* The stored form is read back as what it was made from.
LEMMA StoredReadsBack ==
    ASSUME NEW c, c \subseteq Tools
    PROVE  Selected(BoardFromPrefs(BoardStored(c))) = c
<1>1. "none" \notin Tools /\ "unset" \notin Tools
  BY PanelAssumption
<1>2. c # Unset /\ c # {"none"}
  BY <1>1 DEF Unset
<1>3. CASE c = {}
  BY <1>2, <1>3 DEF BoardStored, BoardFromPrefs, Selected
<1>4. CASE c # {}
  BY <1>2, <1>4 DEF BoardStored, BoardFromPrefs, Selected
<1>5. QED
  BY <1>3, <1>4

LEMMA ChosenIsKept ==
    ASSUME PanelTypes, ChoiceInv, NEW c, c \subseteq Tools, Choose(c), wanted' = c
    PROVE  ChoiceInv'
<1>1. choice' = c /\ Selected(choice') = c
  BY ChoiceMade DEF Choose, PanelTypes
<1>2. faults' = 0 => stored' = BoardStored(c)
  <2>1. stored' = BoardStored(c) \/ faults' = faults + 1
    BY DEF Choose
  <2>2. faults \in Nat
    BY DEF PanelTypes, BoardTypes
  <2>3. QED
    BY <2>1, <2>2
<1>3. QED
  BY <1>1, <1>2, StoredReadsBack DEF ChoiceInv, SelectionIsKept, StoredSelection

LEMMA ChoiceInvStep == PanelTypes /\ ChoiceInv /\ [Next]_vars => ChoiceInv'
<1> SUFFICES ASSUME PanelTypes, ChoiceInv, [Next]_vars PROVE ChoiceInv'
  OBVIOUS
<1>1. CASE /\ UNCHANGED <<choice, stored, wanted>> /\ (alive' => alive)
           /\ (faults' = 0 => faults = 0)
  BY <1>1 DEF ChoiceInv, SelectionIsKept, StoredSelection
<1>2. UNCHANGED vars \/ Messages \/ Commands \/ Work
        => UNCHANGED <<choice, stored, wanted, alive, faults>>
  <2>1. UNCHANGED vars => UNCHANGED <<choice, stored, wanted, alive, faults>>
    BY DEF vars, files, bounds, history
  <2>2. Commands \/ Work => UNCHANGED <<choice, stored, wanted, alive, faults>>
    BY DEF Commands, Work, WaitLog, WaitErr, Log, Hand, Return, files, bounds, history
  <2>3. ASSUME NEW m \in mail, Swallowed(m) \/ LogLine(m) \/ LogsClosed(m) \/ TaskDone(m)
        PROVE  UNCHANGED <<choice, stored, wanted, alive, faults>>
    BY <2>3 DEF Swallowed, LogLine, LogsClosed, TaskDone, files, bounds, history
  <2>4. QED
    BY <2>1, <2>2, <2>3 DEF Messages
<1>3. Save \/ ToolRun => /\ UNCHANGED <<choice, stored, wanted, alive>>
                         /\ (faults' = 0 => faults = 0)
  <2>1. faults \in Nat
    BY DEF PanelTypes, BoardTypes
  <2>2. AcquireBoard => UNCHANGED <<choice, stored, wanted, alive, faults>>
    BY DEF AcquireBoard, bounds, history
  <2>3. ToolRun => /\ UNCHANGED <<choice, stored, wanted, alive>>
                   /\ faults' \in {faults, faults + 1}
    BY DEF ToolRun, RunTool, RunToolLock, RunToolSave, bounds, history
  <2>4. SaveBoard => /\ UNCHANGED <<choice, stored, wanted, alive>>
                     /\ faults' \in {faults, faults + 1}
    BY DEF SaveBoard
  <2>5. QED
    BY <2>1, <2>2, <2>3, <2>4 DEF Save
<1>4. CASE Quit \/ FormKey \/ TaskKey \/ ScreenKey \/ RerunReport \/ Enter
  BY <1>1, <1>4 DEF Quit, Stop, FormKey, TaskKey, ScreenKey, RerunReport, Enter, files,
     bounds, history
<1>5. ASSUME NEW t \in Tools, ToggleBoard(t) PROVE ChoiceInv'
  <2>1. alive /\ Selected(choice) = wanted
    BY <1>5 DEF ToggleBoard, Choose, AtMenu, Free, ChoiceInv, SelectionIsKept
  <2>2. Toggled(wanted, t) \subseteq Tools
    BY <1>5 DEF PanelTypes, ChoiceTypes, Toggled
  <2>3. QED
    BY <1>5, <2>1, <2>2, ChosenIsKept DEF ToggleBoard
<1>6. CASE SetBoardAll
  BY <1>6, ChosenIsKept DEF SetBoardAll
<1>7. CASE Start
  <2>1. UNCHANGED <<faults, stored>> /\ choice' = BoardFromPrefs(stored)
        /\ wanted' = IF faults = 0 THEN wanted ELSE Selected(choice')
    BY <1>7 DEF Start, files
  <2>2. QED
    BY <2>1 DEF ChoiceInv, SelectionIsKept, StoredSelection
<1>8. QED
  BY <1>1, <1>2, <1>3, <1>4, <1>5, <1>6, <1>7 DEF Next, Keys

LEMMA ChoiceInvInit == Init => ChoiceInv
<1> SUFFICES ASSUME Init PROVE ChoiceInv
  OBVIOUS
<1>1. choice = Unset /\ stored = Unset /\ wanted = Defaults /\ Unset # {"none"}
  BY DEF Init, Unset
<1>2. QED
  BY <1>1 DEF ChoiceInv, SelectionIsKept, StoredSelection, Selected, BoardFromPrefs

(***************************************************************************)
(* The board shows the entries the operator asked for, click by click and  *)
(* after every restart, also when there are none of them; only a selection *)
(* whose write failed is forgotten at the next start.                      *)
(***************************************************************************)
THEOREM SelectionAlwaysKept == Spec => []SelectionIsKept
<1>1. ChoiceInv => SelectionIsKept
  BY DEF ChoiceInv
<1>2. QED
  BY <1>1, PanelTypesInit, PanelTypesStep, ChoiceInvInit, ChoiceInvStep, PTL DEF Spec

-----------------------------------------------------------------------------
(***************************************************************************)
(* Endpoint: the cache and the answer about an account.                    *)
(***************************************************************************)
\* A stamp the account file has had.
Used(s) == s[1] < stamp[1] \/ (s[1] = stamp[1] /\ s[2] \in sizes)

\* Stamps are pairs of numbers, the file never has the stamp of an empty cache.
StampTypes ==
    /\ twins \in BOOLEAN
    /\ stamp[1] \in Nat \ {0} /\ stamp[2] \in Nat
    /\ cache.stamp[1] \in Nat
    /\ \A r \in Requests : req[r].at = "load" => req[r].stamp[1] \in Nat

\* While versions can be told apart, the stamp tells the version: what the cache
\* has under the stamp of the file is what the file says.
StampTells ==
    /\ stamp[2] \in sizes /\ Used(cache.stamp)
    /\ cache.stamp = stamp => cache.account = account
    /\ \A r \in Requests : req[r].at = "load" => Used(req[r].stamp)

\* What an undecided request can be answered with was there since it came.
Witnessed ==
    \A r \in Requests :
        /\ req[r].at \in {"stat", "load"} => <<account, late>> \in seen[r]
        /\ req[r].at = "load" /\ cache.stamp = req[r].stamp /\ ~twins =>
              <<cache.account, late>> \in seen[r]

HandlerTypes == req = [r \in Requests |-> req[r]] /\ seen = [r \in Requests |-> seen[r]]

CacheInv == HandlerTypes /\ StampTypes /\ (~twins => StampTells) /\ Witnessed

\* The step of a request: it alone moves.
LEMMA OneMoves ==
    ASSUME HandlerTypes, NEW r \in Requests, NEW x, req' = [req EXCEPT ![r] = x]
    PROVE  /\ req' = [q \in Requests |-> req'[q]] /\ req'[r] = x
           /\ \A q \in Requests : q # r => req'[q] = req[q]
BY DEF HandlerTypes

\* Steps that leave the account file, its cache and the undecided requests
\* alone, but for one that stops waiting for a decision.
LEMMA CacheAlone ==
    ASSUME CacheInv, UNCHANGED <<account, stamp, late, cache, sizes, twins, seen>>,
           NEW r \in Requests, NEW x, x.at \notin {"stat", "load"},
           req' = [req EXCEPT ![r] = x]
    PROVE  CacheInv'
<1>1. /\ req' = [q \in Requests |-> req'[q]] /\ req'[r] = x
      /\ \A q \in Requests : q # r => req'[q] = req[q]
  BY OneMoves DEF CacheInv
<1>2. HandlerTypes' /\ StampTypes'
  BY <1>1 DEF CacheInv, HandlerTypes, StampTypes
<1>3. (~twins => StampTells)'
  BY <1>1 DEF CacheInv, StampTells, Used
<1>4. Witnessed'
  BY <1>1 DEF CacheInv, Witnessed
<1>5. QED
  BY <1>2, <1>3, <1>4 DEF CacheInv

LEMMA ArriveCache ==
    ASSUME CacheInv, NEW r \in Requests, Arrive(r)
    PROVE  CacheInv'
<1>1. PICK t \in Tokens : req' = [req EXCEPT ![r] = [at |-> "stat", token |-> t]]
  BY DEF Arrive
<1>2. /\ req' = [q \in Requests |-> req'[q]] /\ req'[r].at = "stat"
      /\ \A q \in Requests : q # r => req'[q] = req[q]
  BY <1>1, OneMoves DEF CacheInv
<1>3. /\ UNCHANGED <<account, stamp, late, cache, sizes, twins>>
      /\ seen' = [seen EXCEPT ![r] = {<<account, late>>}]
  BY DEF Arrive, inputs
<1>4. /\ seen' = [q \in Requests |-> seen'[q]] /\ seen'[r] = {<<account, late>>}
      /\ \A q \in Requests : q # r => seen'[q] = seen[q]
  BY <1>3 DEF CacheInv, HandlerTypes
<1>5. HandlerTypes' /\ StampTypes'
  BY <1>2, <1>3, <1>4 DEF CacheInv, HandlerTypes, StampTypes
<1>6. (~twins => StampTells)'
  BY <1>2, <1>3 DEF CacheInv, StampTells, Used
<1>7. Witnessed'
  BY <1>2, <1>3, <1>4 DEF CacheInv, Witnessed
<1>8. QED
  BY <1>5, <1>6, <1>7 DEF CacheInv

LEMMA StatCache ==
    ASSUME CacheInv, NEW r \in Requests, Stat(r)
    PROVE  CacheInv'
<1>1. req' = [req EXCEPT ![r] = [at |-> "load", token |-> req[r].token, stamp |-> stamp]]
  BY DEF Stat
<1>2. /\ req' = [q \in Requests |-> req'[q]] /\ req'[r].at = "load" /\ req'[r].stamp = stamp
      /\ \A q \in Requests : q # r => req'[q] = req[q]
  BY <1>1, OneMoves DEF CacheInv
<1>3. UNCHANGED <<account, stamp, late, cache, sizes, twins, seen>> /\ req[r].at = "stat"
  BY DEF Stat, inputs
<1>4. HandlerTypes' /\ StampTypes'
  BY <1>2, <1>3 DEF CacheInv, HandlerTypes, StampTypes
<1>5. (~twins => StampTells)'
  BY <1>2, <1>3 DEF CacheInv, StampTells, StampTypes, Used
<1>6. Witnessed'
  BY <1>2, <1>3 DEF CacheInv, Witnessed, StampTells
<1>7. QED
  BY <1>4, <1>5, <1>6 DEF CacheInv

\* What a request decides with.
Loaded(r) == IF Hit(cache, req[r].stamp) THEN cache.account ELSE account

\* The outcome of the decision.
LEMMA LoadDecides ==
    ASSUME HandlerTypes, NEW r \in Requests, Load(r)
    PROVE  /\ req' = [q \in Requests |-> req'[q]] /\ req'[r].at \in {"settings", "done"}
           /\ \A q \in Requests : q # r => req'[q] = req[q]
           /\ IF Verdict(Loaded(r), req[r].token, late) = "active" THEN req'[r].at = "settings"
              ELSE /\ req'[r].at = "done"
                   /\ req'[r].verdict = Verdict(Loaded(r), req[r].token, late)
<1> DEFINE verdict == Verdict(Loaded(r), req[r].token, late)
       code == CASE verdict = "unavailable" -> 500
                 [] verdict = "unknown" -> 404
                 [] OTHER -> 403
<1>0. IF verdict = "active"
      THEN req' = [req EXCEPT ![r] = [at |-> "settings", account |-> Loaded(r)]]
      ELSE Answer(r, code, verdict)
  BY DEF Load, Loaded
<1> HIDE DEF code, verdict
<1>1. \/ /\ verdict = "active"
         /\ req' = [req EXCEPT ![r] = [at |-> "settings", account |-> Loaded(r)]]
      \/ /\ verdict # "active"
         /\ \E n : req' = [req EXCEPT ![r] = [at |-> "done", status |-> n, verdict |-> verdict,
                                               body |-> {}, from |-> {}]]
  BY <1>0, Zenon DEF Answer
<1>2. CASE verdict = "active"
  BY <1>1, <1>2, OneMoves DEF verdict
<1>3. CASE verdict # "active"
  <2>1. PICK n : req' = [req EXCEPT ![r] = [at |-> "done", status |-> n,
                                               verdict |-> verdict, body |-> {}, from |-> {}]]
    BY <1>1, <1>3
  <2>2. QED
    BY <1>3, <2>1, OneMoves DEF verdict
<1>4. QED
  BY <1>2, <1>3

LEMMA LoadCache ==
    ASSUME CacheInv, NEW r \in Requests, Load(r)
    PROVE  CacheInv'
<1>1. /\ req' = [q \in Requests |-> req'[q]] /\ req'[r].at \in {"settings", "done"}
      /\ \A q \in Requests : q # r => req'[q] = req[q]
  BY LoadDecides DEF CacheInv
<1>2. /\ UNCHANGED <<account, stamp, late, sizes, twins>>
      /\ seen' = [seen EXCEPT ![r] = {}] /\ req[r].at = "load"
      /\ cache' = cache \/ cache' = [stamp |-> req[r].stamp, account |-> account]
  BY Zenon DEF Load, inputs
<1>3. /\ seen' = [q \in Requests |-> seen'[q]] /\ \A q \in Requests : q # r => seen'[q] = seen[q]
  BY <1>2 DEF CacheInv, HandlerTypes
<1>4. HandlerTypes'
  BY <1>1, <1>3 DEF HandlerTypes
<1>5. CASE cache' = cache
  <2>1. StampTypes' /\ (~twins => StampTells)'
    BY <1>1, <1>2, <1>5 DEF CacheInv, StampTypes, StampTells, Used
  <2>2. Witnessed'
    BY <1>1, <1>2, <1>3, <1>5 DEF CacheInv, Witnessed
  <2>3. QED
    BY <1>4, <2>1, <2>2 DEF CacheInv
<1>6. CASE cache' = [stamp |-> req[r].stamp, account |-> account]
  <2>1. cache'.stamp = req[r].stamp /\ cache'.account = account
    BY <1>6
  <2>2. StampTypes' /\ (~twins => StampTells)'
    BY <1>1, <1>2, <2>1 DEF CacheInv, StampTypes, StampTells, Used
  <2>3. Witnessed'
    BY <1>1, <1>2, <1>3, <2>1 DEF CacheInv, Witnessed
  <2>4. QED
    BY <1>4, <2>2, <2>3 DEF CacheInv
<1>7. QED
  BY <1>2, <1>5, <1>6

\* What another program changes is witnessed by every undecided request.
LEMMA WitnessSees ==
    ASSUME CacheInv, Witness, UNCHANGED <<req, cache>>, NEW r \in Requests,
           req[r].at \in {"stat", "load"}
    PROVE  /\ <<account', late'>> \in seen'[r]
           /\ \A v \in seen[r] : v \in seen'[r] /\ <<v[1], late'>> \in seen'[r]
BY DEF Witness

LEMMA WitnessKeeps ==
    ASSUME CacheInv, Witness, UNCHANGED <<req, cache>>, twins => twins'
    PROVE  HandlerTypes' /\ Witnessed'
<1>1. HandlerTypes'
  BY DEF CacheInv, HandlerTypes, Witness
<1>2. ASSUME NEW r \in Requests, req[r].at = "load", cache.stamp = req[r].stamp, ~twins
      PROVE  <<cache.account, late'>> \in seen'[r]
  <2>1. <<cache.account, late>> \in seen[r]
    BY <1>2 DEF CacheInv, Witnessed
  <2>2. <<(<<cache.account, late>>)[1], late'>> \in seen'[r]
    BY <1>2, <2>1, WitnessSees
  <2>3. QED
    BY <2>2
<1>3. Witnessed'
  BY <1>2, WitnessSees DEF Witnessed
<1>4. QED
  BY <1>1, <1>3

\* A save gives the file a stamp it has not had, or two versions are twins.
LEMMA SaveStamps ==
    ASSUME CacheInv, SaveAccount
    PROVE  /\ (twins => twins') /\ twins' \in BOOLEAN
           /\ stamp'[1] \in Nat \ {0} /\ stamp'[2] \in Nat
           /\ ~twins' => /\ ~twins /\ stamp'[2] \in sizes'
                         /\ \A s : s[1] \in Nat /\ Used(s) =>
                               Used(s)' /\ s # stamp'
<1>1. PICK tick \in {0, 1}, size \in {1, 2} :
         /\ stamp' = <<stamp[1] + tick, size>>
         /\ sizes' = (IF tick = 1 THEN {} ELSE sizes) \cup {size}
         /\ twins' = (twins \/ (tick = 0 /\ size \in sizes))
  BY DEF SaveAccount
<1>2. stamp'[1] = stamp[1] + tick /\ stamp'[2] = size /\ stamp[1] \in Nat \ {0}
  BY <1>1 DEF CacheInv, StampTypes
<1>t. /\ (twins => twins') /\ twins' \in BOOLEAN
      /\ ~twins' => ~twins /\ (tick = 0 => size \notin sizes)
  BY <1>1 DEF CacheInv, StampTypes
<1>3. ASSUME ~twins', NEW s, s[1] \in Nat, Used(s)
      PROVE  (s[1] < stamp'[1] \/ (s[1] = stamp'[1] /\ s[2] \in sizes')) /\ s # stamp'
  <2>1. CASE tick = 1
    BY <1>2, <1>3, <2>1 DEF Used
  <2>2. CASE tick = 0
    <3>1. stamp'[1] = stamp[1] /\ sizes \subseteq sizes' /\ size \notin sizes
      BY <1>1, <1>2, <1>3, <1>t, <2>2
    <3>2. QED
      BY <1>2, <1>3, <3>1 DEF Used
  <2>3. QED
    BY <2>1, <2>2
<1>4. \A s : (s[1] < stamp'[1] \/ (s[1] = stamp'[1] /\ s[2] \in sizes')) => Used(s)'
  BY DEF Used
<1>5. stamp'[1] \in Nat \ {0} /\ stamp'[2] \in Nat /\ stamp'[2] \in sizes'
  BY <1>1, <1>2
<1>6. ~twins' => \A s : s[1] \in Nat /\ Used(s) => Used(s)' /\ s # stamp'
  BY <1>3, <1>4
<1>7. QED
  BY <1>t, <1>5, <1>6

LEMMA OthersCache ==
    ASSUME CacheInv, SaveAccount \/ Change
    PROVE  CacheInv'
<1>1. UNCHANGED <<req, cache>> /\ Witness
  BY DEF SaveAccount, Change
<1>2. CASE SaveAccount
  <2>1. HandlerTypes' /\ Witnessed'
    BY <1>1, <1>2, SaveStamps, WitnessKeeps
  <2>2. StampTypes'
    <3>1. twins' \in BOOLEAN /\ stamp'[1] \in Nat \ {0} /\ stamp'[2] \in Nat
      BY <1>2, SaveStamps
    <3>2. QED
      BY <1>1, <3>1 DEF CacheInv, StampTypes
  <2>3. (~twins => StampTells)'
    <3>1. SUFFICES ASSUME ~twins' PROVE StampTells'
      OBVIOUS
    <3>2. StampTells /\ stamp'[2] \in sizes'
      BY <1>2, <3>1, SaveStamps DEF CacheInv
    <3>3. Used(cache.stamp)' /\ cache.stamp # stamp'
      BY <1>1, <1>2, <3>1, <3>2, SaveStamps DEF CacheInv, StampTypes, StampTells, Used
    <3>4. \A r \in Requests : req[r].at = "load" => Used(req[r].stamp)'
      BY <1>1, <1>2, <3>1, <3>2, SaveStamps DEF CacheInv, StampTypes, StampTells, Used
    <3>5. QED
      BY <1>1, <3>2, <3>3, <3>4 DEF StampTells, Used
  <2>4. QED
    BY <2>1, <2>2, <2>3 DEF CacheInv
<1>3. CASE Change
  <2>1. UNCHANGED <<account, stamp, sizes, twins>>
    BY <1>3 DEF Change
  <2>2. StampTypes' /\ (~twins => StampTells)'
    BY <1>1, <2>1 DEF CacheInv, StampTypes, StampTells, Used
  <2>3. QED
    BY <1>1, <2>1, <2>2, WitnessKeeps DEF CacheInv
<1>4. QED
  BY <1>2, <1>3

LEMMA RestartCache == CacheInv /\ Restart => CacheInv'
<1> SUFFICES ASSUME CacheInv, Restart PROVE CacheInv'
  OBVIOUS
<1>1. /\ cache'.stamp = <<0, 0>> /\ \A r \in Requests : req'[r].at = "idle"
      /\ UNCHANGED <<account, stamp, late, sizes, twins>>
  BY DEF Restart, NoCache, Idle, inputs
<1>2. HandlerTypes'
  BY DEF Restart, HandlerTypes
<1>3. StampTypes' /\ (~twins => StampTells)' /\ Witnessed'
  BY <1>1 DEF CacheInv, StampTypes, StampTells, Witnessed, Used
<1>4. QED
  BY <1>2, <1>3 DEF CacheInv

LEMMA CacheInvStep == CacheInv /\ [EndpointNext]_endpointVars => CacheInv'
<1> SUFFICES ASSUME CacheInv, [EndpointNext]_endpointVars PROVE CacheInv'
  OBVIOUS
<1>1. CASE UNCHANGED endpointVars \/ Apply
  <2>1. UNCHANGED <<account, stamp, late, cache, req, seen, sizes, twins>>
    BY <1>1 DEF endpointVars, inputs, Apply
  <2>2. QED
    BY <2>1 DEF CacheInv, HandlerTypes, StampTypes, StampTells, Used, Witnessed
<1>2. ASSUME NEW r \in Requests, ReadSettings(r) PROVE CacheInv'
  <2>1. UNCHANGED <<account, stamp, late, cache, sizes, twins, seen>>
    BY <1>2 DEF ReadSettings, inputs
  <2>2. req' = [req EXCEPT ![r] = [at |-> "nodes", account |-> req[r].account, host |-> host]]
    BY <1>2 DEF ReadSettings
  <2>3. QED
    BY <2>1, <2>2, CacheAlone
<1>3. ASSUME NEW r \in Requests, ReadNodes(r) PROVE CacheInv'
  <2>1. UNCHANGED <<account, stamp, late, cache, sizes, twins, seen>>
    BY <1>3 DEF ReadNodes, inputs
  <2>2. \E x : x.at = "done" /\ req' = [req EXCEPT ![r] = x]
    BY <1>3, ZenonT(60) DEF ReadNodes, Answer
  <2>3. QED
    BY <2>1, <2>2, CacheAlone
<1>4. ASSUME NEW r \in Requests, Finish(r) PROVE CacheInv'
  <2>1. UNCHANGED <<account, stamp, late, cache, sizes, twins, seen>>
    BY <1>4 DEF Finish, inputs
  <2>2. req' = [req EXCEPT ![r] = Idle] /\ Idle.at = "idle"
    BY <1>4 DEF Finish, Idle
  <2>3. QED
    BY <2>1, <2>2, CacheAlone
<1>5. QED
  BY <1>1, <1>2, <1>3, <1>4, ArriveCache, StatCache, LoadCache, OthersCache, RestartCache
     DEF EndpointNext, Handle

LEMMA CacheInvInit == EndpointInit => CacheInv
<1> SUFFICES ASSUME EndpointInit PROVE CacheInv
  OBVIOUS
<1>1. /\ stamp = <<1, 1>> /\ cache.stamp = <<0, 0>> /\ sizes = {1} /\ twins = FALSE
      /\ \A r \in Requests : req[r].at = "idle"
  BY DEF EndpointInit, NoCache, Idle
<1>2. HandlerTypes
  BY DEF EndpointInit, HandlerTypes
<1>3. QED
  <2>1. stamp[1] = 1 /\ stamp[2] = 1 /\ cache.stamp[1] = 0 /\ cache.stamp # stamp
    BY <1>1
  <2>2. \A r \in Requests : req[r].at \notin {"stat", "load"}
    BY <1>1
  <2>3. StampTypes
    <3>1. twins \in BOOLEAN
      BY <1>1
    <3>2. stamp[1] \in Nat \ {0} /\ stamp[2] \in Nat /\ cache.stamp[1] \in Nat
      BY <2>1
    <3>3. QED
      BY <2>2, <3>1, <3>2, Zenon DEF StampTypes
  <2>4. Witnessed
    BY <2>2 DEF Witnessed
  <2>5. StampTells
    BY <1>1, <2>1, <2>2 DEF StampTells, Used
  <2>6. QED
    BY <1>2, <2>3, <2>4, <2>5 DEF CacheInv

\* A decision was right at some moment since the request came.
LEMMA DecisionIsCurrent ==
    ASSUME CacheInv, [EndpointNext]_endpointVars, NEW r \in Requests, req[r].at = "load",
           req'[r].at \in {"settings", "done"}, ~twins
    PROVE  \E v \in seen[r] : Verdict(v[1], req[r].token, v[2]) =
                                  IF req'[r].at = "settings" THEN "active"
                                  ELSE req'[r].verdict
<1>1. Load(r)
  <2>1. UNCHANGED req => FALSE
    OBVIOUS
  <2>2. ASSUME NEW q \in Requests, q # r, Handle(q) PROVE req'[r] = req[r]
    <3>1. Load(q) \/ \E x : req' = [req EXCEPT ![q] = x]
      <4>1. ReadNodes(q) => \E x : req' = [req EXCEPT ![q] = x]
        BY ZenonT(60) DEF ReadNodes, Answer
      <4>2. Arrive(q) \/ Stat(q) \/ ReadSettings(q) \/ Finish(q) =>
               \E x : req' = [req EXCEPT ![q] = x]
        BY DEF Arrive, Stat, ReadSettings, Finish
      <4>3. QED
        BY <2>2, <4>1, <4>2 DEF Handle
    <3>2. QED
      BY <2>2, <3>1, OneMoves, LoadDecides DEF CacheInv
  <2>3. Handle(r) => Load(r)
    BY DEF Handle, Arrive, Stat, ReadSettings, ReadNodes, Finish, Idle
  <2>4. Restart => req'[r].at = "idle"
    BY DEF Restart, Idle
  <2>5. UNCHANGED endpointVars \/ Apply \/ SaveAccount \/ Change => UNCHANGED req
    BY DEF endpointVars, Apply, SaveAccount, Change
  <2>6. QED
    BY <2>1, <2>2, <2>3, <2>4, <2>5 DEF EndpointNext
<1>2. <<Loaded(r), late>> \in seen[r]
  BY DEF CacheInv, Witnessed, Loaded, Hit
<1>3. Verdict(Loaded(r), req[r].token, late) =
        IF req'[r].at = "settings" THEN "active" ELSE req'[r].verdict
  BY <1>1, LoadDecides DEF CacheInv
<1>4. QED
  BY <1>2, <1>3

(***************************************************************************)
(* Whatever was cached and whatever the panels, the loop and the editor    *)
(* save while requests run, an answer was true of the account file at some *)
(* moment since its request came, unless two versions of one tick of the   *)
(* clock had the same size.                                                *)
(***************************************************************************)
THEOREM AnswersAlwaysCurrent == EndpointSpec => AnswersAreCurrent
<1>1. CacheInv /\ [EndpointNext]_endpointVars =>
        [\A r \in Requests :
          req[r].at = "load" /\ req'[r].at \in {"settings", "done"} =>
              \/ twins
              \/ \E v \in seen[r] :
                    Verdict(v[1], req[r].token, v[2]) =
                        IF req'[r].at = "settings" THEN "active"
                        ELSE req'[r].verdict]_endpointVars
  BY DecisionIsCurrent
<1>2. QED
  BY <1>1, CacheInvInit, CacheInvStep, PTL DEF EndpointSpec, AnswersAreCurrent

-----------------------------------------------------------------------------
(***************************************************************************)
(* Endpoint: the documents and the core.                                   *)
(***************************************************************************)
\* An entry of a document stands for an active node of the account, and dials
\* the port of the node or, for Hysteria2, the range it is redirected from.
LEMMA EntryOf ==
    ASSUME NEW client, NEW server, NEW ns, NEW acc, NEW e \in Document(client, server, ns, acc)
    PROVE  \E n \in ActiveNodes(ns, acc) : \E dials :
              /\ e = Entry(server, dials, acc, n, ns[n])
              /\ dials \subseteq {<<"port", ns[n].port>>} \cup
                    (IF ns[n].protocol = "hysteria2" THEN {<<"range", Hop(ns[n])>>} ELSE {})
<1>1. ASSUME NEW n \in ActiveNodes(ns, acc), e = Outbound(server, acc, n, ns[n])
      PROVE  \E dials :
              /\ e = Entry(server, dials, acc, n, ns[n])
              /\ dials \subseteq {<<"port", ns[n].port>>} \cup
                    (IF ns[n].protocol = "hysteria2" THEN {<<"range", Hop(ns[n])>>} ELSE {})
  BY <1>1 DEF Outbound, HopRange, Port
<1>2. ASSUME NEW n \in ActiveNodes(ns, acc), e = Proxy(server, acc, n, ns[n])
      PROVE  \E dials :
              /\ e = Entry(server, dials, acc, n, ns[n])
              /\ dials \subseteq {<<"port", ns[n].port>>} \cup
                    (IF ns[n].protocol = "hysteria2" THEN {<<"range", Hop(ns[n])>>} ELSE {})
  BY <1>2 DEF Proxy, HopRange, Port
<1>3. ASSUME NEW n \in ActiveNodes(ns, acc), e = Link(server, acc, n, ns[n])
      PROVE  \E dials :
              /\ e = Entry(server, dials, acc, n, ns[n])
              /\ dials \subseteq {<<"port", ns[n].port>>} \cup
                    (IF ns[n].protocol = "hysteria2" THEN {<<"range", Hop(ns[n])>>} ELSE {})
  BY <1>3 DEF Link, HopRange, Port, Hop
<1>4. \E n \in ActiveNodes(ns, acc) :
         e \in {Outbound(server, acc, n, ns[n]), Proxy(server, acc, n, ns[n]),
                Link(server, acc, n, ns[n])}
  BY DEF Document, Generate, GenerateMihomo, ShareLinks
<1>5. QED
  BY <1>1, <1>2, <1>3, <1>4

\* The agreement of the two renderers: what a document says about a node is
\* what the inbound of the node takes, for an account that may be live.
LEMMA RenderersAgree ==
    ASSUME NEW client, NEW server, NEW ns, NEW acc, NEW past, Routable(acc, past),
           NEW e \in Document(client, server, ns, acc)
    PROVE  \E in \in ServerConfig(ns, acc, past) : Takes(in, e)
<1>1. PICK n \in ActiveNodes(ns, acc) : \E dials :
              /\ e = Entry(server, dials, acc, n, ns[n])
              /\ dials \subseteq {<<"port", ns[n].port>>} \cup
                    (IF ns[n].protocol = "hysteria2" THEN {<<"range", Hop(ns[n])>>} ELSE {})
  BY EntryOf
<1>2. PICK dials :
              /\ e = Entry(server, dials, acc, n, ns[n])
              /\ dials \subseteq {<<"port", ns[n].port>>} \cup
                    (IF ns[n].protocol = "hysteria2" THEN {<<"range", Hop(ns[n])>>} ELSE {})
  BY <1>1
<1>3. n \in DOMAIN ns /\ ns[n].enabled /\ n \in acc.nodes
  BY <1>1 DEF ActiveNodes
<1> DEFINE u == User(acc, n, ns[n])
           in == Inbound({u}, ns[n])
<1>4. in \in ServerConfig(ns, acc, past)
  <2>1. Bindings(n, ns, acc, past) = {u}
    BY <1>3 DEF Bindings
  <2>2. QED
    BY <1>3, <2>1 DEF ServerConfig
<1>5. /\ in.protocol = e.protocol /\ in.reality = e.reality /\ in.users = {u}
      /\ in.port = ns[n].port /\ in.hop = Hop(ns[n]) /\ e.dials = dials
      /\ e.protocol = ns[n].protocol /\ u.flow = e.flow
  BY <1>2 DEF Inbound, Entry, User
<1>6. \A f \in Fields(e.protocol) : u[f] = e[f]
  <2>1. /\ u.uuid = acc.cred[n].uuid /\ u.password = acc.cred[n].password
        /\ "uuid" \in Fields(ns[n].protocol) => e.uuid = acc.cred[n].uuid
        /\ "password" \in Fields(ns[n].protocol) => e.password = acc.cred[n].password
    BY <1>2 DEF User, Entry
  <2>2. Fields(ns[n].protocol) \subseteq {"uuid", "password"}
    BY DEF Fields
  <2>3. QED
    BY <1>5, <2>1, <2>2
<1> HIDE DEF in, u
<1>7. Takes(in, e)
  BY <1>2, <1>5, <1>6 DEF Takes
<1>8. QED
  BY <1>4, <1>7

\* What the running core was rendered from, and what a request was served.
RenderedCore ==
    core.live => \E ns, acc, past :
        /\ core.from = <<acc, ns>> /\ Routable(acc, past)
        /\ core.inbounds = ServerConfig(ns, acc, past)

ServedAnswer(a) ==
    a.at = "done" => \/ a.from = {}
                     \/ \E client, server, ns, acc :
                           a.from = {<<acc, ns>>} /\ a.body \subseteq Document(client, server, ns, acc)

AgreeInv ==
    /\ req = [r \in Requests |-> req[r]]
    /\ RenderedCore /\ \A r \in Requests : ServedAnswer(req[r])

LEMMA OneServed ==
    ASSUME AgreeInv, NEW r \in Requests, NEW x, ServedAnswer(x),
           req' = [req EXCEPT ![r] = x], UNCHANGED core
    PROVE  AgreeInv'
<1>1. /\ req' = [q \in Requests |-> req'[q]] /\ req'[r] = x
      /\ \A q \in Requests : q # r => req'[q] = req[q]
  BY DEF AgreeInv
<1>2. RenderedCore'
  BY DEF AgreeInv, RenderedCore
<1>3. \A q \in Requests : ServedAnswer(req'[q])
  BY <1>1 DEF AgreeInv
<1>4. \A q \in Requests : ServedAnswer(req'[q]) => ServedAnswer(req[q])'
  BY DEF ServedAnswer
<1>5. QED
  BY <1>1, <1>2, <1>3, <1>4 DEF AgreeInv

\* A refusal says nothing about a node, and neither does a request that is not
\* answered yet.
LEMMA Refused ==
    ASSUME AgreeInv, NEW r \in Requests, UNCHANGED core,
           \/ \E status, what : Answer(r, status, what)
           \/ \E x : x.at # "done" /\ req' = [req EXCEPT ![r] = x]
    PROVE  AgreeInv'
<1>1. PICK x : req' = [req EXCEPT ![r] = x] /\ (x.at = "done" => x.from = {})
  <2>1. CASE \E status, what : Answer(r, status, what)
    <3>1. PICK status, what : Answer(r, status, what)
      BY <2>1
    <3> DEFINE x == [at |-> "done", status |-> status, verdict |-> what, body |-> {},
                     from |-> {}]
    <3>2. req' = [req EXCEPT ![r] = x] /\ x.from = {}
      BY <3>1 DEF Answer
    <3> HIDE DEF x
    <3>3. QED
      BY <3>2
  <2>2. QED
    BY <2>1
<1>2. ServedAnswer(x)
  BY <1>1 DEF ServedAnswer
<1>3. QED
  BY <1>1, <1>2, OneServed

LEMMA HandlerAgrees ==
    ASSUME AgreeInv, NEW r \in Requests, Handle(r)
    PROVE  AgreeInv'
<1>1. UNCHANGED core
  BY DEF Handle, Arrive, Stat, Load, ReadSettings, ReadNodes, Finish
<1>2. CASE Arrive(r) \/ Stat(r) \/ ReadSettings(r) \/ Finish(r)
  <2>1. \E x : x.at # "done" /\ req' = [req EXCEPT ![r] = x]
    BY <1>2 DEF Arrive, Stat, ReadSettings, Finish, Idle
  <2>2. QED
    BY <1>1, <2>1, Refused
<1>3. CASE Load(r)
  <2> DEFINE verdict == Verdict(Loaded(r), req[r].token, late)
             code == CASE verdict = "unavailable" -> 500
                       [] verdict = "unknown" -> 404
                       [] OTHER -> 403
  <2>1. IF verdict = "active"
        THEN req' = [req EXCEPT ![r] = [at |-> "settings", account |-> Loaded(r)]]
        ELSE Answer(r, code, verdict)
    BY <1>3 DEF Load, Loaded
  <2> HIDE DEF verdict, code
  <2>2. QED
    BY <1>1, <2>1, Refused
<1>4. CASE ReadNodes(r)
  <2>1. PICK a \in Agents :
          \/ \E status, what : Answer(r, status, what)
          \/ req' = [req EXCEPT ![r] =
                [at |-> "done", status |-> 200, verdict |-> "active",
                 type |-> ContentType(ClientOf(a)), from |-> {<<req[r].account, nodes>>},
                 body |-> IF a.method = "HEAD" THEN {}
                          ELSE Document(ClientOf(a), req[r].host, nodes, req[r].account)]]
    BY <1>4, ZenonT(60) DEF ReadNodes
  <2> DEFINE x == [at |-> "done", status |-> 200, verdict |-> "active",
                   type |-> ContentType(ClientOf(a)), from |-> {<<req[r].account, nodes>>},
                   body |-> IF a.method = "HEAD" THEN {}
                            ELSE Document(ClientOf(a), req[r].host, nodes, req[r].account)]
  <2>2. ServedAnswer(x)
    <3>1. /\ x.from = {<<req[r].account, nodes>>}
          /\ x.body \subseteq Document(ClientOf(a), req[r].host, nodes, req[r].account)
      OBVIOUS
    <3> HIDE DEF x
    <3>2. QED
      BY <3>1 DEF ServedAnswer
  <2>3. CASE req' = [req EXCEPT ![r] = x]
    <3> HIDE DEF x
    <3>1. QED
      BY <1>1, <2>2, <2>3, OneServed
  <2>4. QED
    BY <1>1, <2>1, <2>3, Refused
<1>5. QED
  BY <1>2, <1>3, <1>4 DEF Handle

LEMMA AgreeInvStep == AgreeInv /\ [EndpointNext]_endpointVars => AgreeInv'
<1> SUFFICES ASSUME AgreeInv, [EndpointNext]_endpointVars PROVE AgreeInv'
  OBVIOUS
<1>1. CASE UNCHANGED <<req, core>>
  BY <1>1 DEF AgreeInv, RenderedCore, ServedAnswer
<1>2. CASE Restart
  <2>1. req' = [r \in Requests |-> Idle] /\ Idle.at = "idle" /\ UNCHANGED core
    BY <1>2 DEF Restart, Idle
  <2>2. QED
    BY <2>1 DEF AgreeInv, RenderedCore, ServedAnswer
<1>3. CASE Apply
  <2>1. /\ core'.inbounds = ServerConfig(nodes, account, late)
        /\ core'.from = <<account, nodes>> /\ core'.live = Routable(account, late)
        /\ UNCHANGED req
    BY <1>3 DEF Apply
  <2>2. RenderedCore'
    <3>1. core'.live => \E ns, acc, past :
             /\ core'.from = <<acc, ns>> /\ Routable(acc, past)
             /\ core'.inbounds = ServerConfig(ns, acc, past)
      BY <2>1
    <3>2. QED
      BY <3>1 DEF RenderedCore
  <2>3. QED
    BY <2>1, <2>2 DEF AgreeInv, ServedAnswer
<1>4. QED
  BY <1>1, <1>2, <1>3, HandlerAgrees DEF EndpointNext, endpointVars, SaveAccount, Change

LEMMA AgreeInvInit == EndpointInit => AgreeInv
BY DEF EndpointInit, Idle, AgreeInv, RenderedCore, ServedAnswer

LEMMA AgreeInvAccepts == AgreeInv => EntriesAreAccepted
<1> SUFFICES ASSUME AgreeInv, NEW r \in Requests, req[r].at = "done", core.live,
                    core.from \in req[r].from, NEW e \in req[r].body
             PROVE  \E in \in core.inbounds : Takes(in, e)
  BY DEF EntriesAreAccepted
<1>1. PICK ns, acc, past : /\ core.from = <<acc, ns>> /\ Routable(acc, past)
                           /\ core.inbounds = ServerConfig(ns, acc, past)
  BY DEF AgreeInv, RenderedCore
<1>2. PICK client, server, ns2, acc2 :
         req[r].from = {<<acc2, ns2>>} /\ req[r].body \subseteq Document(client, server, ns2, acc2)
  BY DEF AgreeInv, ServedAnswer
<1>3. ns2 = ns /\ acc2 = acc
  BY <1>1, <1>2
<1>4. QED
  BY <1>1, <1>2, <1>3, RenderersAgree

(***************************************************************************)
(* Every entry of every document, in each of the three formats, reaches a  *)
(* listener of a core rendered from the same files, with a credential and  *)
(* parameters that the listener knows.                                     *)
(***************************************************************************)
THEOREM EntriesAlwaysAccepted == EndpointSpec => []EntriesAreAccepted
BY AgreeInvInit, AgreeInvStep, AgreeInvAccepts, PTL DEF EndpointSpec

=============================================================================
