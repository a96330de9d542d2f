----------------------------- MODULE Accounting -----------------------------
(***************************************************************************)
(* The account file and its concurrent writers.  The subscription service  *)
(* runs one accounting loop (internal/stats) that reads the core's traffic *)
(* counters, charges the accounts and cuts off the ones that crossed a     *)
(* line; any number of panels (internal/tui) edit the same file; both push *)
(* it to the core through internal/deploy.  The file is protected by an    *)
(* advisory lock; config.json, the core and the loop's baseline file are   *)
(* not.  A process may die between any two steps, and the core may restart *)
(* at any time, which zeroes every counter.                                *)
(***************************************************************************)
EXTENDS Accounts

CONSTANTS Panels,       \* panel processes
          Loop,         \* the accounting loop of the subscription service
          NoOne,        \* the lock is free
          Provisioned,  \* tokens of the accounts already deployed at the start
          Quotas,       \* quotas the operator can set
          Expiries,     \* expiry months the operator can set
          MaxBytes,     \* bound on a counter of the core
          MaxMonth,     \* bound on the clock
          MaxEdits,     \* bound on panel tasks
          MaxFaults,    \* bound on failed steps and killed processes
          MaxStops      \* bound on stops of the core

Procs == Panels \cup {Loop}

ASSUME ConstantsAssumption ==
    /\ Loop \notin Panels              \* the loop is not a panel
    /\ NoOne \notin Procs              \* and nobody is neither
    /\ Provisioned \subseteq Tokens
    /\ Quotas \subseteq Nat
    /\ Expiries \subseteq Nat
    /\ {MaxBytes, MaxMonth, MaxEdits, MaxFaults, MaxStops} \subseteq Nat

VARIABLES
    disk,        \* easysb-users.json
    lock,        \* who holds easysb-users.json.lock
    pc, store,   \* per process: where it is, and its copy of the file
    now,         \* per process: the time it works with
    asked,       \* the loop: names of the unlocked peek
    reading,     \* the loop: counters it read this cycle
    sample,      \* the loop: previous reading
    sampled,     \* the loop: sample can be subtracted from
    loaded,      \* the loop: the baseline file was consulted
    sampleFile,  \* easysb-stats.json; empty stands for unreadable as well
    config,      \* config.json: the set of its document, a document being the
                 \* set of names it lists; empty if the file does not exist
    active,      \* the core service is active
    serves,      \* the names the running core accepts
    count,       \* the counters of the running core
    month,       \* the clock
    edits, faults, stops

(***************************************************************************)
(* History variables, for stating properties.  They follow one run of the  *)
(* core: every restart of the core starts them anew.                       *)
(***************************************************************************)
VARIABLES
    intent,      \* the terms of every account, by the edits committed so far
    seen,        \* tokens ever issued: they are random, so never issued twice
    charged,     \* bytes of this core run written to the account file
    waived,      \* bytes a cycle took as a baseline or whose selection ended
    blind,       \* bytes hidden behind a baseline of an earlier core run
    repeated,    \* names charged by a cycle whose baseline was then lost
    gap,         \* charged names a later baseline no longer holds
    readCur, sampleCur, fileCur   \* the value was read in this core run

fileVars == <<disk, lock, store>>
loopVars == <<asked, reading, sample, sampled, loaded, sampleFile>>
coreVars == <<config, active, serves, count>>
runVars  == <<charged, waived, blind, repeated, gap, readCur, sampleCur, fileCur>>
editVars == <<intent, seen, edits>>
vars == <<fileVars, pc, now, loopVars, coreVars, runVars, editVars,
          month, faults, stops>>

Empty == [x \in {} |-> 0]
Zero == [name \in Names |-> 0]

Holding == {"change", "apply", "restart", "save"}
PCs == Holding \cup {"idle", "wait", "edited", "peeked", "read", "baseline"}

-----------------------------------------------------------------------------
\* A deployment that is at rest: what is on disk is what the core runs.
Init ==
    /\ month = 1
    /\ LET fresh == [t \in Provisioned |-> NewAccount(
               [enabled |-> TRUE, quota |-> Unlimited, expiry |-> Never,
                nodes |-> Nodes], 1)]
       IN /\ disk = MarkApplied(fresh, 1)
          /\ config = IF Provisioned = {} THEN {} ELSE {Members(fresh, 1)}
          /\ serves = UNION config
          /\ intent = [t \in Provisioned |-> fresh[t].terms]
    /\ active = (Provisioned # {})
    /\ seen = Provisioned
    /\ lock = NoOne
    /\ pc = [p \in Procs |-> "idle"]
    /\ store = [p \in Procs |-> Empty]
    /\ now = [p \in Procs |-> 1]
    /\ asked = {} /\ reading = Empty /\ sample = Empty /\ sampleFile = Empty
    /\ sampled = FALSE /\ loaded = FALSE
    /\ count = Zero /\ charged = Zero /\ waived = Zero /\ blind = Zero
    /\ repeated = {} /\ gap = {}
    /\ readCur = FALSE /\ sampleCur = FALSE /\ fileCur = FALSE
    /\ edits = 0 /\ faults = 0 /\ stops = 0

Goto(p, label) == pc' = [pc EXCEPT ![p] = label]

\* flock on the sidecar, and a load of the file under it.
Acquire(p) == lock = NoOne /\ lock' = p
Release == lock' = NoOne

-----------------------------------------------------------------------------
(* The core: an external process that systemd supervises.                  *)

\* A (re)start reads config.json and begins counting from zero.
CoreFresh ==
    /\ active' = TRUE /\ serves' = UNION config /\ count' = Zero
    /\ charged' = Zero /\ waived' = Zero /\ blind' = Zero
    /\ repeated' = {} /\ gap' = {}
    /\ readCur' = FALSE /\ sampleCur' = FALSE /\ fileCur' = FALSE

CoreDown ==
    /\ active' = FALSE /\ serves' = {} /\ count' = Zero
    /\ charged' = Zero /\ waived' = Zero /\ blind' = Zero
    /\ repeated' = {} /\ gap' = {}
    /\ readCur' = FALSE /\ sampleCur' = FALSE /\ fileCur' = FALSE

\* A client of an accepted account moves a byte.
Traffic ==
    /\ \E name \in serves : /\ count[name] < MaxBytes
                            /\ count' = [count EXCEPT ![name] = @ + 1]
    /\ UNCHANGED <<fileVars, pc, now, loopVars, config, active, serves,
                   runVars, editVars, month, faults, stops>>

\* It crashes, or an operator or a certificate renewal stops it.
CoreStop ==
    /\ active /\ stops < MaxStops
    /\ stops' = stops + 1
    /\ CoreDown
    /\ UNCHANGED <<fileVars, pc, now, loopVars, config, editVars, month, faults>>

\* systemd, the operator or the renewal starts it again.
CoreStart ==
    /\ ~active /\ config # {}
    /\ CoreFresh
    /\ UNCHANGED <<fileVars, pc, now, loopVars, config, editVars, month,
                   faults, stops>>

NewMonth ==
    /\ month < MaxMonth
    /\ month' = month + 1
    /\ UNCHANGED <<fileVars, pc, now, loopVars, coreVars, runVars, editVars,
                   faults, stops>>

-----------------------------------------------------------------------------
(* deploy.Apply, run by the process p that holds the account lock.         *)

Rendered(p) == {Members(store[p], now[p])}

\* The running core already serves this document: nothing to do.
ApplySame(p) ==
    /\ pc[p] = "apply"
    /\ active /\ config = Rendered(p)
    /\ store' = [store EXCEPT ![p] = MarkApplied(store[p], now[p])]
    /\ Goto(p, "save")
    /\ UNCHANGED <<disk, lock, now, loopVars, coreVars, runVars, editVars,
                   month, faults, stops>>

\* The checked document is renamed into place.
ApplyInstall(p) ==
    /\ pc[p] = "apply"
    /\ ~(active /\ config = Rendered(p))
    /\ config' = Rendered(p)
    /\ Goto(p, "restart")
    /\ UNCHANGED <<fileVars, now, loopVars, active, serves, count, runVars,
                   editVars, month, faults, stops>>

\* systemctl restart, or the unit and systemctl start if it was not active.
ApplyRestart(p) ==
    /\ pc[p] = "restart"
    /\ CoreFresh
    /\ store' = [store EXCEPT ![p] = MarkApplied(store[p], now[p])]
    /\ Goto(p, "save")
    /\ UNCHANGED <<disk, lock, now, loopVars, config, editVars, month,
                   faults, stops>>

-----------------------------------------------------------------------------
(* A panel: tui.accountsChange, then deploy.ApplyStore.                    *)

\* One field of one account, as the account menu offers them.
EditedTerms(terms) ==
    {[terms EXCEPT !.enabled = ~@]}
    \cup {[terms EXCEPT !.quota = q] : q \in Quotas}
    \cup {[terms EXCEPT !.expiry = e] : e \in Expiries}
    \cup {[terms EXCEPT !.nodes = (@ \cup {n}) \ (@ \cap {n})] : n \in Nodes}

\* A new account selects every enabled node.
DefaultTerms ==
    [enabled |-> TRUE, quota |-> Unlimited, expiry |-> Never, nodes |-> Nodes]

\* s becomes the file the change leaves behind.
AddAccount(p) ==
    \E t \in Tokens \ seen :
        /\ disk' = Put(store[p], t, NewAccount(DefaultTerms, now[p]))
        /\ intent' = Put(intent, t, DefaultTerms)
        /\ seen' = seen \cup {t}

RemoveAccount(p) ==
    \E t \in DOMAIN store[p] :
        /\ disk' = Drop(store[p], t)
        /\ intent' = Drop(intent, t)
        /\ seen' = seen

EditAccount(p) ==
    \E t \in DOMAIN store[p] : \E terms \in EditedTerms(store[p][t].terms) :
        /\ disk' = [store[p] EXCEPT ![t].terms = terms]
        /\ intent' = [intent EXCEPT ![t] = terms]
        /\ seen' = seen

ResetUsage(p) ==
    \E t \in DOMAIN store[p] :
        /\ disk' = [store[p] EXCEPT ![t] = ResetCounters(@, now[p])]
        /\ UNCHANGED <<intent, seen>>

\* A new token for the account; its applied flag and its counters stay.
RotateToken(p) ==
    \E t \in DOMAIN store[p], fresh \in Tokens \ seen :
        /\ disk' = Put(Drop(store[p], t), fresh, store[p][t])
        /\ intent' = Put(Drop(intent, t), fresh, intent[t])
        /\ seen' = seen \cup {fresh}

PanelStart(p) ==
    /\ pc[p] = "idle" /\ edits < MaxEdits
    /\ edits' = edits + 1
    /\ now' = [now EXCEPT ![p] = month]
    /\ Goto(p, "wait")
    /\ UNCHANGED <<fileVars, loopVars, coreVars, runVars, intent, seen, month,
                   faults, stops>>

PanelLock(p) ==
    /\ pc[p] = "wait" /\ Acquire(p)
    /\ store' = [store EXCEPT ![p] = disk]
    /\ Goto(p, "change")
    /\ UNCHANGED <<disk, now, loopVars, coreVars, runVars, editVars, month,
                   faults, stops>>

\* The change, the save and the unlock.
PanelCommit(p) ==
    /\ pc[p] = "change"
    /\ \/ AddAccount(p) \/ RemoveAccount(p) \/ EditAccount(p)
       \/ ResetUsage(p) \/ RotateToken(p)
    /\ store' = [store EXCEPT ![p] = Empty]
    /\ Release
    /\ Goto(p, "edited")
    /\ UNCHANGED <<now, loopVars, coreVars, runVars, edits, month, faults, stops>>

\* The change is refused: the file keeps what it held.
PanelRefused(p) ==
    /\ pc[p] = "change"
    /\ store' = [store EXCEPT ![p] = Empty]
    /\ Release
    /\ Goto(p, "idle")
    /\ UNCHANGED <<disk, now, loopVars, coreVars, runVars, editVars, month,
                   faults, stops>>

\* ApplyStore takes the lock again and keeps it until the flags are saved.
PanelDeploy(p) ==
    /\ pc[p] = "edited" /\ Acquire(p)
    /\ store' = [store EXCEPT ![p] = disk]
    /\ now' = [now EXCEPT ![p] = month]
    /\ Goto(p, "apply")
    /\ UNCHANGED <<disk, loopVars, coreVars, runVars, editVars, month,
                   faults, stops>>

PanelSave(p) ==
    /\ pc[p] = "save" /\ p \in Panels
    /\ disk' = store[p]
    /\ store' = [store EXCEPT ![p] = Empty]
    /\ Release
    /\ Goto(p, "idle")
    /\ UNCHANGED <<now, loopVars, coreVars, runVars, editVars, month,
                   faults, stops>>

-----------------------------------------------------------------------------
(* The accounting loop: stats.Loop.Tick.                                   *)

\* Mutant: a counter that did not move is taken for a restarted one.
DiffStrict(prev, cur, has) ==
    LET gain(name) == IF name \in DOMAIN prev /\ cur[name] > prev[name]
                      THEN cur[name] - prev[name] ELSE cur[name]
    IN [name \in {m \in DOMAIN cur : has /\ gain(m) # 0} |-> gain(name)]

\* A counter that went backwards belongs to a core that restarted: its whole
\* reading is charged.  So is the reading of a name prev does not hold.
Diff(prev, cur, has) ==
    LET gain(name) == IF name \in DOMAIN prev /\ cur[name] >= prev[name]
                      THEN cur[name] - prev[name] ELSE cur[name]
    IN [name \in {m \in DOMAIN cur : has /\ gain(m) # 0} |-> gain(name)]

Deltas == Diff(sample, reading, sampled)

\* The baseline is restored once per process; an empty one is not used.
Restored == IF loaded THEN sample ELSE sampleFile
HasBaseline == IF loaded THEN sampled ELSE DOMAIN sampleFile # {}
RestoredCur == IF loaded THEN sampleCur ELSE fileCur

\* The accounts are read without the lock, for their names.
LoopPeek ==
    /\ pc[Loop] = "idle" /\ DOMAIN disk # {}
    /\ now' = [now EXCEPT ![Loop] = month]
    /\ asked' = Selected(disk)
    /\ sample' = Restored /\ sampled' = HasBaseline /\ loaded' = TRUE
    /\ sampleCur' = RestoredCur
    /\ Goto(Loop, "peeked")
    /\ UNCHANGED <<fileVars, reading, sampleFile, coreVars, charged, waived,
                   blind, repeated, gap, readCur, fileCur, editVars, month,
                   faults, stops>>

\* Without accounts the baseline is dropped and the cycle is over.
LoopNothing ==
    /\ pc[Loop] = "idle" /\ DOMAIN disk = {}
    /\ sample' = Empty /\ sampled' = FALSE /\ loaded' = TRUE
    /\ sampleFile' = Empty
    /\ sampleCur' = FALSE /\ fileCur' = FALSE
    /\ UNCHANGED <<fileVars, pc, now, asked, reading, coreVars, charged, waived,
                   blind, repeated, gap, readCur, editVars, month, faults, stops>>

\* The core lists a counter once a connection of that name has moved bytes.
LoopRead ==
    /\ pc[Loop] = "peeked" /\ active
    /\ reading' = [name \in {m \in asked : count[m] > 0} |-> count[name]]
    /\ readCur' = TRUE
    /\ Goto(Loop, "read")
    /\ UNCHANGED <<fileVars, now, asked, sample, sampled, loaded, sampleFile,
                   coreVars, charged, waived, blind, repeated, gap, sampleCur,
                   fileCur, editVars, month, faults, stops>>

\* Nothing answers on the stats port: the cycle is abandoned.
LoopReadFails ==
    /\ pc[Loop] = "peeked" /\ ~active
    /\ Goto(Loop, "idle")
    /\ UNCHANGED <<fileVars, now, loopVars, coreVars, runVars, editVars, month,
                   faults, stops>>

\* Mutant: the cycle bills a copy it loaded without the lock.
LoopLoadUnlocked ==
    /\ pc[Loop] = "read"
    /\ LET billed == Bill(disk, Deltas, now[Loop])
       IN /\ store' = [store EXCEPT ![Loop] = billed]
          /\ Goto(Loop, IF Transitions(billed, now[Loop])
                        THEN "apply" ELSE "save")
    /\ UNCHANGED <<disk, lock, now, loopVars, coreVars, runVars, editVars, month,
                   faults, stops>>

\* The file is loaded again, under the lock, and billed in memory.
LoopLock ==
    /\ pc[Loop] = "read" /\ Acquire(Loop)
    /\ LET billed == Bill(disk, Deltas, now[Loop])
       IN /\ store' = [store EXCEPT ![Loop] = billed]
          /\ Goto(Loop, IF Transitions(billed, now[Loop])
                        THEN "apply" ELSE "save")
    /\ UNCHANGED <<disk, now, loopVars, coreVars, runVars, editVars, month,
                   faults, stops>>

\* The names whose delta reached an account of the reloaded file.
Billed == DOMAIN Deltas \cap Selected(store[Loop])

\* Mutant: a cycle goes on when its save failed.
LoopSaveUnchecked ==
    /\ pc[Loop] = "save"
    /\ Release
    /\ Goto(Loop, "baseline")
    /\ UNCHANGED <<disk, store, now, loopVars, coreVars, runVars, editVars,
                   month, faults, stops>>

\* The file is saved (it is the same file when nothing changed), and the lock
\* released.
LoopSave ==
    /\ pc[Loop] = "save"
    /\ disk' = store[Loop]
    /\ Release
    /\ charged' = IF ~readCur THEN charged
                  ELSE [name \in Names |-> charged[name]
                            + (IF name \in Billed THEN Deltas[name] ELSE 0)]
    /\ Goto(Loop, "baseline")
    /\ UNCHANGED <<store, now, loopVars, coreVars, waived, blind, repeated, gap,
                   readCur, sampleCur, fileCur, editVars, month, faults, stops>>

\* What this cycle's baseline covers although nobody was charged for it.
Waived(name) ==
    IF name \notin DOMAIN reading THEN waived[name]
    ELSE IF ~sampled
         THEN IF reading[name] > charged[name]
              THEN reading[name] - charged[name] ELSE waived[name]
    ELSE IF name \in DOMAIN Deltas \ Billed THEN waived[name] + Deltas[name]
    ELSE waived[name]

Hidden(name) ==
    /\ sampled /\ ~sampleCur
    /\ name \in DOMAIN reading \cap DOMAIN sample
    /\ reading[name] >= sample[name]

\* The baseline moves, in memory and on disk, once the deltas are saved.
MoveBaseline(file) ==
    /\ sample' = reading /\ sampled' = TRUE
    /\ sampleFile' = file
    /\ store' = [store EXCEPT ![Loop] = Empty]
    /\ reading' = Empty /\ asked' = {}
    /\ sampleCur' = readCur /\ readCur' = FALSE
    /\ IF ~readCur THEN UNCHANGED <<waived, blind, gap>>
       ELSE /\ waived' = [name \in Names |-> Waived(name)]
            /\ blind' = [name \in Names |-> IF Hidden(name)
                             THEN blind[name] + sample[name] ELSE blind[name]]
            /\ gap' = gap \cup {name \in Names \ DOMAIN reading :
                                    charged[name] > 0}
    /\ Goto(Loop, "idle")
    /\ UNCHANGED <<disk, lock, now, loaded, coreVars, charged, repeated,
                   editVars, month, stops>>

LoopBaseline ==
    /\ pc[Loop] = "baseline"
    /\ MoveBaseline(reading)
    /\ fileCur' = readCur
    /\ UNCHANGED faults

\* The baseline file is written in place, so a failed write truncates it.
LoopBaselineTorn ==
    /\ pc[Loop] = "baseline" /\ faults < MaxFaults
    /\ MoveBaseline(Empty)
    /\ fileCur' = FALSE
    /\ faults' = faults + 1

-----------------------------------------------------------------------------
(* Failures.                                                               *)

ReleaseOf(p) == lock' = IF lock = p THEN NoOne ELSE lock

\* A step of p returns an error, or p, a panel, is killed: the kernel drops
\* its lock and its copy of the file is gone.  What it renamed stays.
GiveUp(p) ==
    /\ pc[p] \notin {"idle", "baseline"} /\ faults < MaxFaults
    /\ faults' = faults + 1
    /\ ReleaseOf(p)
    /\ store' = [store EXCEPT ![p] = Empty]
    /\ Goto(p, "idle")
    /\ UNCHANGED <<disk, now, loopVars, coreVars, runVars, editVars, month, stops>>

\* systemctl restart fails after it stopped the core.
RestartLeavesDown(p) ==
    /\ pc[p] = "restart" /\ faults < MaxFaults
    /\ faults' = faults + 1
    /\ CoreDown
    /\ ReleaseOf(p)
    /\ store' = [store EXCEPT ![p] = Empty]
    /\ Goto(p, "idle")
    /\ UNCHANGED <<disk, now, loopVars, config, editVars, month, stops>>

\* The subscription service is killed and restarted: only files survive.
LoopDies ==
    /\ faults < MaxFaults
    /\ faults' = faults + 1
    /\ ReleaseOf(Loop)
    /\ store' = [store EXCEPT ![Loop] = Empty]
    /\ Goto(Loop, "idle")
    /\ asked' = {} /\ reading' = Empty /\ sample' = Empty
    /\ sampled' = FALSE /\ loaded' = FALSE
    /\ readCur' = FALSE /\ sampleCur' = FALSE
    /\ repeated' = IF pc[Loop] = "baseline" /\ readCur
                   THEN repeated \cup Billed ELSE repeated
    /\ UNCHANGED <<disk, now, sampleFile, coreVars, charged, waived, blind, gap,
                   fileCur, editVars, month, stops>>

-----------------------------------------------------------------------------
Apply(p) == ApplySame(p) \/ ApplyInstall(p) \/ ApplyRestart(p)

PanelWork(p) == PanelLock(p) \/ PanelCommit(p) \/ PanelRefused(p)
                \/ PanelDeploy(p) \/ PanelSave(p)

LoopWork == LoopPeek \/ LoopNothing \/ LoopRead \/ LoopReadFails
            \/ LoopLock \/ LoopSave \/ LoopBaseline

Fault == (\E p \in Procs : GiveUp(p) \/ RestartLeavesDown(p))
         \/ LoopBaselineTorn \/ LoopDies

Next == \/ \E p \in Panels : PanelStart(p) \/ PanelWork(p)
        \/ \E p \in Procs : Apply(p)
        \/ LoopWork
        \/ Traffic \/ CoreStop \/ CoreStart \/ NewMonth
        \/ Fault

Spec == Init /\ [][Next]_vars

\* The ticker of the loop always fires again and a started panel task runs to
\* its end.  The operator, the clients and the supervision of the core promise
\* nothing.
Fairness == /\ WF_vars(LoopWork) /\ WF_vars(Apply(Loop))
            /\ \A p \in Panels : WF_vars(PanelWork(p)) /\ WF_vars(Apply(p))

FairSpec == Spec /\ Fairness

-----------------------------------------------------------------------------
Bytes(f) == DOMAIN f \subseteq Names /\ \A name \in DOMAIN f : f[name] \in Nat

FileType ==
    /\ IsStore(disk) /\ lock \in Procs \cup {NoOne}
    /\ store = [p \in Procs |-> store[p]] /\ \A p \in Procs : IsStore(store[p])

ProcType == pc \in [Procs -> PCs] /\ now \in [Procs -> Nat]

LoopType ==
    /\ asked \subseteq Names
    /\ Bytes(reading) /\ Bytes(sample) /\ Bytes(sampleFile)
    /\ sampled \in BOOLEAN /\ loaded \in BOOLEAN

CoreType ==
    /\ config \subseteq SUBSET Names /\ active \in BOOLEAN
    /\ serves \subseteq Names /\ count \in [Names -> Nat]
    /\ month \in Nat /\ edits \in Nat /\ faults \in Nat /\ stops \in Nat

HistoryType ==
    /\ DOMAIN intent \subseteq Tokens /\ seen \subseteq Tokens
    /\ charged \in [Names -> Nat] /\ waived \in [Names -> Nat]
    /\ blind \in [Names -> Nat]
    /\ repeated \subseteq Names /\ gap \subseteq Names
    /\ readCur \in BOOLEAN /\ sampleCur \in BOOLEAN /\ fileCur \in BOOLEAN

\* Every variable holds a value of its type.
TypeOK == FileType /\ ProcType /\ LoopType /\ CoreType /\ HistoryType

Promise == INSTANCE Ledger WITH accounts <- disk

\* The file promises what Ledger says: no writer undoes a committed change of
\* the operator or lowers a usage, whatever copy of the file it worked on
\* (user.Locked: load, change and save under one lock).
LedgerPromise == Promise!Spec

\* A process that is about to push the accounts to the core, or to save them,
\* works on the terms that are in the file now: the lock is held from the load
\* to the save, across the restart (deploy.ApplyStore, stats.Loop.Tick).
AppliesCurrentTerms ==
    \A p \in Procs : pc[p] \in {"apply", "restart", "save"} =>
        intent = [t \in DOMAIN store[p] |-> store[p][t].terms]

\* A baseline never runs ahead of the account file: each byte below a baseline
\* of this core run is charged, or was there before the loop first read, or
\* belongs to a selection that ended, or hides behind the baseline of an
\* earlier run.  A crash at any point therefore drops no other traffic.
BaselineCovered ==
    \A b \in {<<sampleCur, sample>>, <<fileCur, sampleFile>>} :
        b[1] => \A name \in DOMAIN b[2] :
            b[2][name] <= charged[name] + waived[name] + blind[name]

\* Nothing is charged twice, except what was saved just before the loop lost
\* the baseline for it and what a name moved before it left the baseline.
ChargedAtMostOnce ==
    \A name \in Names \ (repeated \cup gap) : charged[name] <= count[name]

Served(t) == \E n \in Nodes : <<t, n>> \in serves

Quiet == /\ lock = NoOne
         /\ \A p \in Panels : pc[p] \in {"idle", "wait"}

\* Between deployments an account's applied flag says whether the running core
\* accepts the account, as long as no step failed and nobody was killed.
AppliedMatchesCore ==
    Quiet /\ active /\ faults = 0 =>
        \A t \in DOMAIN disk : disk[t].applied = Served(t)

\* What deploy.Apply says of its shortcut: when it returns success the running
\* core serves the document, because it was restarted on it or had it already.
AppliedIsServed ==
    \A p \in Panels : pc[p] = "save" /\ active => serves = UNION Rendered(p)

\* A restart of the core hides no traffic from the accounts.
RestartNeverMiscounts == blind = Zero

\* An account that may no longer connect is eventually cut off, or may connect
\* again.
EventuallyCutOff ==
    \A t \in Tokens :
        (t \in DOMAIN disk /\ ~Usable(disk[t], month))
            ~> (~Served(t) \/ (t \in DOMAIN disk => Usable(disk[t], month)))

=============================================================================
