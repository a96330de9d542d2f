------------------------------- MODULE Kernel -------------------------------
(***************************************************************************)
(* Congestion control and the BBRv3 kernels (internal/bbr): switching BBR  *)
(* on with a drop-in that remembers what it replaced, clearing it again,   *)
(* and installing, upgrading and removing the published kernels.  One task *)
(* runs at a time; any command of it can fail, it can be cancelled between *)
(* two commands, and the host can reboot under it.                         *)
(***************************************************************************)
EXTENDS Integers, Sequences, FiniteSets, FiniteSetsExt

CONSTANTS Versions,     \* kernel versions, sequences of numbers: 7.10 is <<7, 10>>
          Arches,       \* release architectures
          Arch,         \* the one of this host, or "" for any other machine
          OSFits,       \* /etc/os-release names a supported system
          Controls,     \* what an operator may use instead of BBR
          Qdiscs,       \* queue disciplines, the first choice among them
          Published,    \* the releases there are at the start
          Offers,       \* per running kernel: the congestion controls it can load
          MaxTasks,     \* bound on tasks
          MaxFaults,    \* bound on failed commands and cancellations
          MaxEvents     \* bound on reboots, publications and edits by hand

Profiles == {"standard", "max"}
Kernels == Versions \X Profiles
Stock == << <<>>, "stock">>
Tags == [arch : Arches, version : Versions, profile : Profiles]
Settings == [congestion : Controls \cup {"bbr"}, qdisc : Qdiscs]

\* A setting that could not be read is "".
Records == [congestion : Controls \cup {"bbr", ""} \cup Qdiscs,
            qdisc : Qdiscs \cup {""}]

ASSUME KernelAssumption ==
    /\ Versions \subseteq Seq(Nat) /\ IsFiniteSet(Versions)
    /\ Published \subseteq Tags
    /\ Arch \in Arches \cup {""} /\ OSFits \in BOOLEAN
    /\ Controls \cap {"", "bbr"} = {}
    /\ Qdiscs \cap (Controls \cup {"", "bbr"}) = {}
    /\ Offers \in [Kernels \cup {Stock} -> SUBSET (Controls \cup {"bbr"})]
    /\ {MaxTasks, MaxFaults, MaxEvents} \subseteq Nat
    /\ \A k \in DOMAIN Offers : Controls \cap Offers[k] # {}

VARIABLES
    running,     \* the running kernel
    live,        \* the settings in force
    loaded,      \* tcp_bbr is loaded
    dropin,      \* 99-easysb-bbr.conf: the record and the queue discipline
    modules,     \* easysb-bbr.conf of modules-load.d exists
    packages,    \* per published kernel: "none", "half" installed or "ii"
    menu,        \* the kernels of the boot menu
    tags,        \* the published releases
    stamp,       \* the versions the stamp file lists
    task,        \* the running or the last task
    tasks, faults, events

(* History, for stating properties. *)
VARIABLES
    own,         \* the settings BBR replaced, or would replace
    lost,        \* a change was left without a record of what it replaced
    refused,     \* the settings the last clear could not write
    kept,        \* a published kernel was installed and not asked to go
    spoiled      \* installing the only one again failed, and left it half there

host == <<running, live, loaded, dropin, modules, packages, menu>>
upstream == <<tags, stamp>>
keeping == <<kept, spoiled>>
history == <<own, lost, refused, keeping>>
bounds == <<tasks, faults, events>>
vars == <<host, upstream, task, history, bounds>>

-----------------------------------------------------------------------------
(* Versions and the release list.                                          *)

\* A missing part counts as zero.
Part(v, i) == IF i \in DOMAIN v THEN v[i] ELSE 0

Longer(a, b) == IF Len(a) > Len(b) THEN Len(a) ELSE Len(b)

Newer(a, b) ==
    \E i \in 1..Longer(a, b) :
        /\ Part(a, i) > Part(b, i)
        /\ \A j \in 1..(i - 1) : Part(a, j) = Part(b, j)

\* The highest of a set of versions; none of an empty set.
Highest(vs) == {v \in vs : \A w \in vs : ~Newer(w, v)}

\* An unknown machine matches every architecture.
NewestVersionFor(ts, arch) ==
    Highest({t.version : t \in {u \in ts : arch = "" \/ u.arch = arch}})

\* The list keeps every build of the newest two versions.
Keeps(ts, t) ==
    Cardinality({u.version : u \in {w \in ts : Newer(w.version, t.version)}}) < 2

ReleasesFromTags(ts, arch) ==
    LET here == {t \in ts : t.arch = arch}
    IN {t \in here : Keeps(here, t)}

\* What LatestVersion may answer: the release list first, the stamp when the
\* list does not answer or has nothing for this machine.
LatestVersions(listed, stamped) ==
    LET fromList == IF listed THEN NewestVersionFor(tags, Arch) ELSE {}
    IN IF fromList # {} THEN fromList
       ELSE IF stamped THEN Highest(stamp) ELSE {}

-----------------------------------------------------------------------------
(* What the status screen says.                                            *)

Installed == {k \in Kernels : packages[k] = "ii"}
CustomKernel == {k \in Installed : \A j \in Installed : ~Newer(j[1], k[1])}
CustomRunning == running \in Kernels
NeedsReboot == Installed # {} /\ ~CustomRunning
Outdated(latest) == \E k \in CustomKernel : Newer(latest, k[1])

Available(control) ==
    IF control = "bbr" THEN loaded ELSE control \in Offers[running]

-----------------------------------------------------------------------------
NoRecord == [congestion |-> "", qdisc |-> ""]
NoDropin == [previous |-> NoRecord, qdisc |-> ""]
NoTask == [kind |-> "none", at |-> "over"]
Ended == {"over", "ok", "failed"}
TaskFree == task.at \in Ended

Init ==
    /\ running = Stock
    /\ live \in [congestion : Controls \cap Offers[Stock], qdisc : Qdiscs]
    /\ loaded = FALSE
    /\ dropin = NoDropin /\ modules = FALSE
    /\ packages = [k \in Kernels |-> "none"] /\ menu = {}
    /\ tags = Published /\ stamp \in SUBSET {t.version : t \in Published}
    /\ task = NoTask
    /\ tasks = 0 /\ faults = 0 /\ events = 0
    /\ own = live /\ lost = FALSE /\ refused = {}
    /\ kept = FALSE /\ spoiled = FALSE

Fault == faults < MaxFaults /\ faults' = faults + 1

Start(t) ==
    /\ TaskFree /\ tasks < MaxTasks
    /\ tasks' = tasks + 1 /\ task' = t
    /\ UNCHANGED <<host, upstream, history, events>>

Goto(step) == task' = [task EXCEPT !.at = step]

\* Whatever a task ends with, a change nobody recorded is lost.
Unrecorded == live' # own /\ dropin'.previous = NoRecord

Fail ==
    /\ Fault /\ Goto("failed")
    /\ lost' = (lost \/ Unrecorded)

Idle(step) == UNCHANGED <<upstream, tasks, events>> /\ task.at = step

\* A task is cut short: the panel is killed, or the operator cancels and the
\* next command is not run.  A clear that is cancelled goes on, and its writes
\* are refused.
Cancel ==
    /\ ~TaskFree
    /\ UNCHANGED <<host, upstream, own, refused, keeping, tasks, events>>
    /\ Fail

-----------------------------------------------------------------------------
(* Enable.                                                                 *)

\* The settings are read before they are touched; either read can fail.
StartEnable(q) ==
    \E seen \in [congestion : {live.congestion, ""}, qdisc : {live.qdisc, ""}] :
        /\ Start([kind |-> "enable", at |-> "module", qdisc |-> q,
                  previous |-> seen])
        /\ IF seen = live THEN UNCHANGED faults ELSE Fault

\* The module has to be in place before the parameter can name it.
LoadModule ==
    /\ Idle("module") /\ task.kind = "enable"
    /\ loaded' = (loaded \/ "bbr" \in Offers[running])
    /\ \/ Goto(IF loaded' THEN "qdisc" ELSE "failed") /\ UNCHANGED <<lost, faults>>
       \/ UNCHANGED <<live, dropin>> /\ Fail
    /\ UNCHANGED <<running, live, dropin, modules, packages, menu, own, refused, keeping>>

SetQdisc ==
    /\ Idle("qdisc") /\ task.kind = "enable"
    /\ \/ live' = [live EXCEPT !.qdisc = task.qdisc] /\ Goto("congestion")
          /\ UNCHANGED <<lost, faults>>
       \/ UNCHANGED <<live, dropin>> /\ Fail
    /\ UNCHANGED <<running, loaded, dropin, modules, packages, menu, own, refused, keeping>>

\* The value is read back: the task also ends when the write is ignored, or
\* when only the reading fails.
SetCongestion ==
    /\ Idle("congestion") /\ task.kind = "enable"
    /\ \/ live' = [live EXCEPT !.congestion = "bbr"] /\ Goto("sysctl")
          /\ UNCHANGED <<lost, faults>>
       \/ /\ live' \in {live, [live EXCEPT !.congestion = "bbr"]}
          /\ UNCHANGED dropin /\ Fail
    /\ UNCHANGED <<running, loaded, dropin, modules, packages, menu, own, refused, keeping>>

\* Mutant: what is live now is recorded over what an earlier run recorded.
KeepLive(recorded, now) == now

\* An earlier run's record wins over what is live now.
KeepOldest(recorded, now) == IF recorded # NoRecord THEN recorded ELSE now

\* The note is read back by its words: without the first the second is it.
AsNoted(p) ==
    IF p.congestion = "" THEN [congestion |-> p.qdisc, qdisc |-> ""] ELSE p

Partial(p) == "" \in {p.congestion, p.qdisc}

\* The file is read, truncated and written.  A read that fails finds no record,
\* a write that fails can lose it.
WriteSysctl ==
    /\ Idle("sysctl") /\ task.kind = "enable"
    /\ \/ \E found \in {dropin.previous, NoRecord} :
             /\ dropin' = [previous |-> AsNoted(KeepOldest(found, task.previous)),
                           qdisc |-> task.qdisc]
             /\ Goto("modules")
             /\ lost' = (lost \/ found # dropin.previous
                              \/ (found = NoRecord /\ Partial(task.previous)))
             /\ IF found = dropin.previous THEN UNCHANGED faults ELSE Fault
       \/ dropin' \in {dropin, NoDropin} /\ UNCHANGED live /\ Fail
    /\ UNCHANGED <<running, live, loaded, modules, packages, menu, own, refused, keeping>>

WriteModules ==
    /\ Idle("modules") /\ task.kind = "enable"
    /\ \/ modules' = TRUE /\ Goto("ok") /\ UNCHANGED <<lost, faults>>
       \/ UNCHANGED <<live, dropin, modules>> /\ Fail
    /\ UNCHANGED <<running, live, loaded, dropin, packages, menu, own, refused, keeping>>

-----------------------------------------------------------------------------
(* Clear.                                                                  *)

StartClear ==
    /\ Start([kind |-> "clear", at |-> "sysctl", previous |-> NoRecord])
    /\ UNCHANGED faults

\* The record is read, or found empty when it cannot be, and the file that
\* holds it is removed.
RemoveSysctl ==
    /\ Idle("sysctl") /\ task.kind = "clear"
    /\ \/ \E found \in {dropin.previous, NoRecord} :
             /\ task' = [task EXCEPT !.at = "modules", !.previous = found]
             /\ dropin' = NoDropin /\ UNCHANGED live
             /\ IF found = dropin.previous THEN UNCHANGED <<lost, faults>>
                ELSE Fault /\ lost' = (lost \/ Unrecorded)
       \/ UNCHANGED <<live, dropin>> /\ Fail
    /\ UNCHANGED <<running, loaded, modules, packages, menu, own, refused, keeping>>

RemoveModules ==
    /\ Idle("modules") /\ task.kind = "clear"
    /\ \/ modules' = FALSE /\ Goto("congestion") /\ UNCHANGED <<lost, faults>>
       \/ UNCHANGED <<live, dropin, modules>> /\ Fail
    /\ UNCHANGED <<running, live, loaded, dropin, packages, menu, own, refused, keeping>>

\* A control the kernel no longer offers is skipped.  One that is offered stays
\* out as well when the list cannot be read or the write fails: the clear goes
\* on as if it had been put back.
RestoreCongestion ==
    /\ Idle("congestion") /\ task.kind = "clear"
    /\ \/ /\ live' = IF Available(task.previous.congestion)
                     THEN [live EXCEPT !.congestion = task.previous.congestion]
                     ELSE live
          /\ refused' = {} /\ UNCHANGED faults
       \/ UNCHANGED live /\ refused' = {"congestion"} /\ Fault
    /\ Goto("qdisc")
    /\ UNCHANGED <<running, loaded, dropin, modules, packages, menu, own, lost, keeping>>

\* What this write answers is ignored too; a cancelled clear loses both.
RestoreQdisc ==
    /\ Idle("qdisc") /\ task.kind = "clear"
    /\ \/ /\ live' = IF task.previous.qdisc # ""
                     THEN [live EXCEPT !.qdisc = task.previous.qdisc] ELSE live
          /\ UNCHANGED <<refused, faults>>
       \/ /\ UNCHANGED live /\ refused' = refused \cup {"qdisc"}
          /\ IF refused = {} THEN Fault ELSE UNCHANGED faults
    /\ Goto("ok")
    /\ UNCHANGED <<running, loaded, dropin, modules, packages, menu, own, keeping>>
    /\ lost' = (lost \/ Unrecorded)

-----------------------------------------------------------------------------
(* Install and Remove.                                                     *)

\* A profile with a version picked from the list, or without one.
StartInstall(p, picked) ==
    /\ picked \in {<<>>} \cup {t.version : t \in ReleasesFromTags(tags, Arch)}
    /\ Start([kind |-> "install", at |-> "version", profile |-> p, version |-> picked])
    /\ UNCHANGED faults

\* Kernels are published for this machine and for this system.
Supported == Arch # "" /\ OSFits

\* The machine and the system are checked, the newest version asked for.
Resolve ==
    /\ Idle("version") /\ task.kind = "install"
    /\ \/ Supported /\ task.version # <<>> /\ Goto("fetch")
       \/ /\ Supported /\ task.version = <<>>
          /\ \E listed, stamped \in BOOLEAN :
                LET found == LatestVersions(listed, stamped)
                IN IF found = {} THEN Goto("failed")
                   ELSE \E v \in found :
                          task' = [task EXCEPT !.at = "fetch", !.version = v]
       \/ ~Supported /\ Goto("failed")
    /\ UNCHANGED <<host, history, faults>>

Target == <<task.version, task.profile>>

\* The release that holds the packages of a profile and a version.
Tag == [arch |-> Arch, version |-> task.version, profile |-> task.profile]

\* Every package of the release is downloaded and read before any is installed.
Fetch ==
    /\ Idle("fetch") /\ task.kind = "install"
    /\ Goto(IF Tag \in tags THEN "dpkg" ELSE "failed")
    /\ UNCHANGED <<host, history, faults>>

\* dpkg may have unpacked, or set up, some of the set before it fails.
Dpkg ==
    /\ Idle("dpkg") /\ task.kind = "install"
    /\ \/ /\ packages' = [packages EXCEPT ![Target] = "ii"]
          /\ kept' = TRUE /\ spoiled' = FALSE
          /\ Goto("purge") /\ UNCHANGED <<lost, faults>>
       \/ /\ \E left \in {packages[Target], "half", "ii"} :
                packages' = [packages EXCEPT ![Target] = left]
          /\ spoiled' = (Installed' = {} /\ (spoiled \/ Installed = {Target}))
          /\ UNCHANGED <<live, dropin, kept>> /\ Fail
    /\ UNCHANGED <<running, live, loaded, dropin, modules, menu, own, refused>>

StartRemove == Start([kind |-> "remove", at |-> "purge"]) /\ UNCHANGED faults

\* Mutant: the packages that were just installed are purged as well.
StaleAll == Installed

\* A package that is not fully installed is not seen.
Stale == IF task.kind = "install" THEN Installed \ {Target} ELSE Installed

\* Nothing is purged when the packages cannot be listed.  Remove leaves the
\* boot menu alone when it found nothing to remove.
Purge ==
    /\ Idle("purge") /\ task.kind \in {"install", "remove"}
    /\ kept' = (kept /\ task.kind = "install")
    /\ \E found \in {Stale, {}} : \E gone \in SUBSET found :
          /\ packages' = [k \in Kernels |-> IF k \in gone THEN "none" ELSE packages[k]]
          /\ \/ /\ gone = found
                /\ Goto(IF task.kind = "remove" /\ found = {} THEN "ok" ELSE "grub")
                /\ IF found = Stale THEN UNCHANGED faults ELSE Fault
                /\ UNCHANGED lost
             \/ gone # found /\ UNCHANGED <<live, dropin>> /\ Fail
    /\ UNCHANGED <<running, live, loaded, dropin, modules, menu, own, refused, spoiled>>

UpdateBootloader ==
    /\ Idle("grub") /\ task.kind \in {"install", "remove"}
    /\ \/ menu' = Installed /\ Goto("ok") /\ UNCHANGED <<lost, faults>>
       \/ UNCHANGED <<live, dropin, menu>> /\ Fail
    /\ UNCHANGED <<running, live, loaded, dropin, modules, packages, own, refused, keeping>>

-----------------------------------------------------------------------------
(* The host and upstream.                                                  *)

\* The boot menu leads to a kernel that is still there, or to the stock one;
\* the drop-ins set what they can.
Reboot ==
    /\ events < MaxEvents /\ events' = events + 1
    /\ task' = NoTask
    /\ running' \in {Stock} \cup (menu \cap Installed)
    /\ loaded' = (modules /\ "bbr" \in Offers[running'])
    /\ \E c \in Controls \cap Offers[running'], q \in Qdiscs :
          live' = [congestion |-> IF dropin # NoDropin /\ loaded' THEN "bbr" ELSE c,
                   qdisc |-> IF dropin # NoDropin THEN dropin.qdisc ELSE q]
    /\ IF dropin = NoDropin THEN own' = live' /\ lost' = FALSE
       ELSE UNCHANGED <<own, lost>>
    /\ UNCHANGED <<dropin, modules, packages, menu, upstream, refused, keeping,
                   tasks, faults>>

Publish ==
    /\ events < MaxEvents /\ events' = events + 1
    /\ \E t \in Tags \ tags : tags' = tags \cup {t} /\ stamp' \in {stamp, stamp \cup {t.version}}
    /\ UNCHANGED <<host, task, history, tasks, faults>>

Enable == (\E q \in Qdiscs : StartEnable(q)) \/ LoadModule \/ SetQdisc
              \/ SetCongestion \/ WriteSysctl \/ WriteModules
Clear == StartClear \/ RemoveSysctl \/ RemoveModules \/ RestoreCongestion
             \/ RestoreQdisc
Install == (\E p \in Profiles, v \in Versions \cup {<<>>} : StartInstall(p, v))
               \/ Resolve \/ Fetch \/ Dpkg
Remove == StartRemove \/ Purge \/ UpdateBootloader

Next == Enable \/ Clear \/ Install \/ Remove \/ Cancel \/ Reboot \/ Publish
Spec == Init /\ [][Next]_vars

-----------------------------------------------------------------------------
(* Properties.                                                             *)

TypeOK ==
    /\ running \in {Stock} \cup Kernels /\ live \in Settings
    /\ {loaded, modules, lost, kept, spoiled} \subseteq BOOLEAN
    /\ dropin \in {NoDropin} \cup [previous : Records, qdisc : Qdiscs]
    /\ packages \in [Kernels -> {"none", "half", "ii"}] /\ menu \subseteq Kernels
    /\ tags \subseteq Tags /\ stamp \subseteq Versions
    /\ own \in Settings /\ refused \subseteq {"congestion", "qdisc"}

\* A clear that finds a record puts back what BBR replaced, however often and
\* with whatever queue discipline it was switched on since, over reboots and
\* changes of kernel.  Three exceptions: a control the kernel no longer offers;
\* a setting this very clear could not write, which it does not tell; and an
\* earlier task that was cut short, or could not read what it was to record,
\* after which a change has no true record.
ClearUndoes ==
    [][task.kind = "clear" /\ task.at = "qdisc" /\ task'.at = "ok"
          /\ task.previous # NoRecord /\ ~lost =>
            /\ "qdisc" \in refused' \/ live'.qdisc = own.qdisc
            /\ \/ "congestion" \in refused' \/ own.congestion \notin Offers[running]
               \/ live'.congestion = own.congestion
      ]_vars

\* The previous kernel is removed only once the new one is on disk: no install
\* or upgrade, wherever it fails, leaves the host without a published kernel
\* when it had one and nobody asked to remove it.  One exception: the only one
\* is installed once more, and dpkg fails on it.
KernelStays == kept => Installed # {} \/ spoiled

\* While a kernel that was asked for waits to be booted the panel says so
\* ("installed but not yet running").
RebootIsAnnounced ==
    task.kind = "install" /\ task.at = "ok" /\ running # Target => NeedsReboot
=============================================================================
