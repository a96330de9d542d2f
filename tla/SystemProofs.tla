---------------------------- MODULE SystemProofs ----------------------------
(***************************************************************************)
(* Proofs about Kernel and Lifecycle, for any kernels, controls and queue  *)
(* disciplines, any documents, and any number of tasks, jobs, failures,    *)
(* reboots, kills, cycles of the loop and edits of another panel.          *)
(***************************************************************************)
EXTENDS Kernel, Lifecycle, TLAPS

-----------------------------------------------------------------------------
(***************************************************************************)
(* Kernel: what a task is.                                                 *)
(***************************************************************************)
EnableTask ==
    [kind : {"enable"}, qdisc : Qdiscs, previous : Records,
     at : {"module", "qdisc", "congestion", "sysctl", "modules", "ok", "failed"}]
ClearTask ==
    [kind : {"clear"}, previous : Records,
     at : {"sysctl", "modules", "congestion", "qdisc", "ok", "failed"}]
InstallTask ==
    [kind : {"install"}, profile : Profiles, version : Versions \cup {<<>>},
     at : {"version", "fetch", "dpkg", "purge", "grub", "ok", "failed"}]
RemoveTask == [kind : {"remove"}, at : {"purge", "grub", "ok", "failed"}]

\* Once a task downloads it has a version.
Picked == task.at \in {"fetch", "dpkg", "purge", "grub"} => task.version \in Versions

TaskIs ==
    \/ task = NoTask
    \/ task \in EnableTask
    \/ task \in ClearTask
    \/ task \in InstallTask /\ Picked
    \/ task \in RemoveTask

KernelTypes == TypeOK /\ TaskIs

\* The kind of a task tells what it is.
LEMMA KindTells ==
    ASSUME TaskIs
    PROVE  /\ task.kind = "enable" => task \in EnableTask
           /\ task.kind = "clear" => task \in ClearTask
           /\ task.kind = "install" => task \in InstallTask /\ Picked
           /\ task.kind = "remove" => task \in RemoveTask
           /\ task.kind \in {"none", "enable", "clear", "install", "remove"}
<1>1. task = NoTask => task.kind = "none"
  BY DEF NoTask
<1>2. task \in EnableTask => task.kind = "enable"
  BY DEF EnableTask
<1>3. task \in ClearTask => task.kind = "clear"
  BY DEF ClearTask
<1>4. task \in InstallTask => task.kind = "install"
  BY DEF InstallTask
<1>5. task \in RemoveTask => task.kind = "remove"
  BY DEF RemoveTask
<1>6. QED
  BY <1>1, <1>2, <1>3, <1>4, <1>5 DEF TaskIs

\* The label a task is moved to is one of its kind; it is the same otherwise.
LEMMA MovedTask ==
    ASSUME TaskIs, NEW step, Goto(step),
           task.kind = "enable" => step \in {"qdisc", "congestion", "sysctl",
                                             "modules", "ok", "failed"},
           task.kind = "clear" => step \in {"congestion", "qdisc", "ok", "failed"},
           task.kind = "install" => step \in {"fetch", "dpkg", "purge", "grub",
                                              "ok", "failed"},
           task.kind = "remove" => step \in {"grub", "ok", "failed"},
           task.kind # "none",
           task.kind = "install" /\ step \notin {"ok", "failed"} =>
               task.version \in Versions
    PROVE  /\ TaskIs' /\ task'.kind = task.kind /\ task'.at = step
           /\ task.kind = "install" => task'.version = task.version
                                       /\ task'.profile = task.profile
           /\ task.kind \in {"enable", "clear"} => task'.previous = task.previous
           /\ task.kind = "enable" => task'.qdisc = task.qdisc
<1>1. task' = [task EXCEPT !.at = step]
  BY DEF Goto
<1>2. CASE task.kind = "enable"
  <2>1. task \in EnableTask
    BY <1>2, KindTells
  <2>2. /\ task' \in EnableTask /\ task'.kind = "enable" /\ task'.at = step
        /\ task'.previous = task.previous /\ task'.qdisc = task.qdisc
    BY <1>1, <1>2, <2>1 DEF EnableTask
  <2>3. QED
    BY <1>2, <2>2 DEF TaskIs
<1>3. CASE task.kind = "clear"
  <2>1. task \in ClearTask
    BY <1>3, KindTells
  <2>2. /\ task' \in ClearTask /\ task'.kind = "clear" /\ task'.at = step
        /\ task'.previous = task.previous
    BY <1>1, <1>3, <2>1 DEF ClearTask
  <2>3. QED
    BY <1>3, <2>2 DEF TaskIs
<1>4. CASE task.kind = "install"
  <2>1. task \in InstallTask
    BY <1>4, KindTells
  <2>2. /\ task' \in InstallTask /\ task'.kind = "install" /\ task'.at = step
        /\ task'.version = task.version /\ task'.profile = task.profile
    BY <1>1, <1>4, <2>1 DEF InstallTask
  <2>3. Picked'
    BY <1>4, <2>2 DEF Picked
  <2>4. QED
    BY <1>4, <2>2, <2>3 DEF TaskIs
<1>5. CASE task.kind = "remove"
  <2>1. task \in RemoveTask
    BY <1>5, KindTells
  <2>2. task' \in RemoveTask /\ task'.kind = "remove" /\ task'.at = step
    BY <1>1, <1>5, <2>1 DEF RemoveTask
  <2>3. QED
    BY <1>5, <2>2 DEF TaskIs
<1>6. QED
  BY <1>2, <1>3, <1>4, <1>5, KindTells

\* A task that fails or is cancelled.
LEMMA FailedTask ==
    ASSUME TaskIs, Goto("failed"), task.kind # "none"
    PROVE  TaskIs' /\ task'.kind = task.kind /\ task'.at = "failed"
<1>1. QED
  BY MovedTask

\* Versions the list or the stamp answers with are versions.
LEMMA LatestAre ==
    ASSUME TypeOK, NEW listed, NEW stamped
    PROVE  LatestVersions(listed, stamped) \subseteq Versions
<1>1. tags \subseteq Tags /\ stamp \subseteq Versions
  BY DEF TypeOK
<1>2. \A vs : Highest(vs) \subseteq vs
  BY DEF Highest
<1>3. \A t \in tags : t.version \in Versions
  BY <1>1 DEF Tags
<1>4. NewestVersionFor(tags, Arch) \subseteq Versions
  <2>1. {t.version : t \in {u \in tags : Arch = "" \/ u.arch = Arch}} \subseteq Versions
    BY <1>3
  <2>2. QED
    BY <1>2, <2>1 DEF NewestVersionFor
<1>5. QED
  BY <1>1, <1>2, <1>4 DEF LatestVersions

\* A task that has a version installs a kernel there is.
LEMMA TargetIs ==
    ASSUME TaskIs, task.kind = "install",
           task.at \in {"fetch", "dpkg", "purge", "grub"}
    PROVE  Target \in Kernels
<1>1. task \in InstallTask /\ Picked
  BY KindTells
<1>2. task.version \in Versions /\ task.profile \in Profiles
  BY <1>1 DEF Picked, InstallTask
<1>3. QED
  BY <1>2 DEF Target, Kernels

\* The start of a task.
LEMMA StartTypes ==
    ASSUME KernelTypes, NEW t, Start(t),
           \/ t \in EnableTask \/ t \in ClearTask
           \/ t \in InstallTask /\ t.at = "version"
           \/ t \in RemoveTask
    PROVE  KernelTypes'
<1>1. task' = t /\ UNCHANGED <<host, upstream, history>>
  BY DEF Start
<1>2. TypeOK'
  BY <1>1 DEF KernelTypes, TypeOK, host, upstream, history, keeping
<1>3. TaskIs'
  BY <1>1 DEF TaskIs, Picked
<1>4. QED
  BY <1>2, <1>3 DEF KernelTypes

\* The settings in force are a whole record, and the empty record is one.
LEMMA RecordsOf ==
    /\ NoRecord \in Records
    /\ \A p \in Settings : p \in Records /\ ~Partial(p) /\ p # NoRecord
    /\ \A p \in Records : AsNoted(p) \in Records
    /\ \A p \in Settings : AsNoted(p) = p
<1>1. NoRecord \in Records
  BY DEF NoRecord, Records
<1>2. ASSUME NEW p \in Settings
      PROVE  p \in Records /\ p.congestion # "" /\ p.qdisc # ""
  <2>1. p.congestion \in Controls \cup {"bbr"} /\ p.qdisc \in Qdiscs
    BY DEF Settings
  <2>2. QED
    BY <2>1, KernelAssumption DEF Settings, Records
<1>3. NoRecord.congestion = ""
  BY DEF NoRecord
<1>4. ASSUME NEW p \in Records
      PROVE  AsNoted(p) \in Records
  BY DEF AsNoted, Records
<1>5. QED
  BY <1>1, <1>2, <1>3, <1>4 DEF Partial, AsNoted

\* What the drop-in records.
LEMMA RecordIs ==
    ASSUME TypeOK
    PROVE  dropin.previous \in Records
<1>1. dropin \in {NoDropin} \cup [previous : Records, qdisc : Qdiscs]
  BY DEF TypeOK
<1>2. NoDropin.previous = NoRecord
  BY DEF NoDropin
<1>3. dropin \in [previous : Records, qdisc : Qdiscs] => dropin.previous \in Records
  OBVIOUS
<1>4. QED
  BY <1>1, <1>2, <1>3, RecordsOf

\* What Start is given.
LEMMA StartedTasks ==
    ASSUME TypeOK
    PROVE  /\ \A q \in Qdiscs :
                 \A seen \in [congestion : {live.congestion, ""},
                              qdisc : {live.qdisc, ""}] :
                    [kind |-> "enable", at |-> "module", qdisc |-> q,
                     previous |-> seen] \in EnableTask
           /\ [kind |-> "clear", at |-> "sysctl", previous |-> NoRecord] \in ClearTask
           /\ \A p \in Profiles, v \in Versions \cup {<<>>} :
                 [kind |-> "install", at |-> "version", profile |-> p,
                  version |-> v] \in InstallTask
           /\ [kind |-> "remove", at |-> "purge"] \in RemoveTask
<1>1. live.congestion \in Controls \cup {"bbr"} /\ live.qdisc \in Qdiscs
  BY DEF TypeOK, Settings
<1>2. [congestion : {live.congestion, ""}, qdisc : {live.qdisc, ""}] \subseteq Records
  BY <1>1 DEF Records
<1>3. QED
  BY <1>2, RecordsOf DEF EnableTask, ClearTask, InstallTask, RemoveTask

\* They hold when the program starts.
LEMMA KernelTypesInit == Init => KernelTypes
<1> SUFFICES ASSUME Init
             PROVE  KernelTypes
  OBVIOUS
<1>1. live \in Settings /\ own \in Settings
  BY DEF Init, Settings
<1>2. tags \subseteq Tags
  BY KernelAssumption DEF Init
<1>3. stamp \subseteq Versions
  <2>1. \A t \in tags : t.version \in Versions
    BY <1>2 DEF Tags
  <2>2. QED
    BY <2>1 DEF Init
<1>4. packages \in [Kernels -> {"none", "half", "ii"}] /\ menu \subseteq Kernels
  BY DEF Init
<1>5. /\ running \in {Stock} \cup Kernels
      /\ dropin \in {NoDropin} \cup [previous : Records, qdisc : Qdiscs]
  BY DEF Init
<1>6. {loaded, modules, lost, kept, spoiled} \subseteq BOOLEAN /\ refused = {}
  BY DEF Init
<1>7. TaskIs
  BY DEF Init, TaskIs
<1>8. QED
  BY <1>1, <1>2, <1>3, <1>4, <1>5, <1>6, <1>7 DEF KernelTypes, TypeOK

\* Enable keeps the types.
LEMMA EnableTypes ==
    ASSUME KernelTypes, Enable
    PROVE  KernelTypes'
<1>1. TypeOK /\ TaskIs
  BY DEF KernelTypes
<1>2. CASE \E q \in Qdiscs : StartEnable(q)
  BY <1>1, <1>2, StartTypes, StartedTasks DEF StartEnable
<1>3. CASE LoadModule
  <2>1. task.kind = "enable" /\ (Goto("qdisc") \/ Goto("failed"))
    BY <1>3 DEF LoadModule, Fail
  <2>2. TaskIs'
    BY <1>1, <2>1, MovedTask
  <2>3. loaded' \in BOOLEAN /\ lost' \in BOOLEAN
    BY <1>1, <1>3 DEF LoadModule, Fail, TypeOK
  <2>4. TypeOK'
    BY <1>1, <1>3, <2>3 DEF LoadModule, Idle, TypeOK, keeping, upstream
  <2>5. QED
    BY <2>2, <2>4 DEF KernelTypes
<1>4. CASE SetQdisc
  <2>1. task.kind = "enable" /\ (Goto("congestion") \/ Goto("failed"))
    BY <1>4 DEF SetQdisc, Fail
  <2>2. TaskIs' /\ task \in EnableTask
    BY <1>1, <2>1, MovedTask, KindTells
  <2>3. live' \in Settings /\ lost' \in BOOLEAN
    BY <1>1, <1>4, <2>2 DEF SetQdisc, Fail, TypeOK, Settings, EnableTask
  <2>4. TypeOK'
    BY <1>1, <1>4, <2>3 DEF SetQdisc, Idle, TypeOK, keeping, upstream
  <2>5. QED
    BY <2>2, <2>4 DEF KernelTypes
<1>5. CASE SetCongestion
  <2>1. task.kind = "enable" /\ (Goto("sysctl") \/ Goto("failed"))
    BY <1>5 DEF SetCongestion, Fail
  <2>2. TaskIs'
    BY <1>1, <2>1, MovedTask
  <2>3. live' \in Settings
    BY <1>1, <1>5 DEF SetCongestion, TypeOK, Settings
  <2>4. lost' \in BOOLEAN
    BY <1>1, <1>5 DEF SetCongestion, Fail, TypeOK
  <2>5. TypeOK'
    BY <1>1, <1>5, <2>3, <2>4 DEF SetCongestion, Idle, TypeOK, keeping, upstream
  <2>6. QED
    BY <2>2, <2>5 DEF KernelTypes
<1>6. CASE WriteSysctl
  <2>1. task.kind = "enable" /\ (Goto("modules") \/ Goto("failed"))
    BY <1>6 DEF WriteSysctl, Fail
  <2>2. TaskIs' /\ task \in EnableTask
    BY <1>1, <2>1, MovedTask, KindTells
  <2>3. dropin' \in {NoDropin} \cup [previous : Records, qdisc : Qdiscs]
    <3>1. \A found \in {dropin.previous, NoRecord} :
             AsNoted(KeepOldest(found, task.previous)) \in Records
      BY <1>1, <2>2, RecordIs, RecordsOf DEF KeepOldest, EnableTask
    <3>2. task.qdisc \in Qdiscs
      BY <2>2 DEF EnableTask
    <3>3. dropin \in {NoDropin} \cup [previous : Records, qdisc : Qdiscs]
      BY <1>1 DEF TypeOK
    <3>4. QED
      BY <1>6, <3>1, <3>2, <3>3 DEF WriteSysctl
  <2>4. lost' \in BOOLEAN
    BY <1>1, <1>6 DEF WriteSysctl, Fail, TypeOK
  <2>5. TypeOK'
    BY <1>1, <1>6, <2>3, <2>4 DEF WriteSysctl, Idle, TypeOK, keeping, upstream
  <2>6. QED
    BY <2>2, <2>5 DEF KernelTypes
<1>7. CASE WriteModules
  <2>1. task.kind = "enable" /\ (Goto("ok") \/ Goto("failed"))
    BY <1>7 DEF WriteModules, Fail
  <2>2. TaskIs'
    BY <1>1, <2>1, MovedTask
  <2>3. modules' \in BOOLEAN /\ lost' \in BOOLEAN
    BY <1>1, <1>7 DEF WriteModules, Fail, TypeOK
  <2>4. TypeOK'
    BY <1>1, <1>7, <2>3 DEF WriteModules, Idle, TypeOK, keeping, upstream
  <2>5. QED
    BY <2>2, <2>4 DEF KernelTypes
<1>8. QED
  BY <1>2, <1>3, <1>4, <1>5, <1>6, <1>7 DEF Enable

\* A control there is, is one a kernel offers.
LEMMA AvailableAre ==
    ASSUME TypeOK, NEW control, Available(control)
    PROVE  control \in Controls \cup {"bbr"}
<1>1. Offers[running] \subseteq Controls \cup {"bbr"}
  BY KernelAssumption DEF TypeOK
<1>2. QED
  BY <1>1 DEF Available

\* So does clear.
LEMMA ClearTypes ==
    ASSUME KernelTypes, Clear
    PROVE  KernelTypes'
<1>1. TypeOK /\ TaskIs
  BY DEF KernelTypes
<1>2. CASE StartClear
  BY <1>1, <1>2, StartTypes, StartedTasks DEF StartClear
<1>3. CASE RemoveSysctl
  <2>1. task.kind = "clear" /\ task \in ClearTask
    BY <1>1, <1>3, KindTells DEF RemoveSysctl
  <2>2. CASE Fail /\ UNCHANGED <<live, dropin>>
    <3>1. TaskIs'
      BY <1>1, <2>1, <2>2, FailedTask DEF Fail
    <3>2. TypeOK'
      BY <1>1, <1>3, <2>2 DEF RemoveSysctl, Fail, Idle, TypeOK, keeping, upstream
    <3>3. QED
      BY <3>1, <3>2 DEF KernelTypes
  <2>3. CASE \E found \in {dropin.previous, NoRecord} :
                /\ task' = [task EXCEPT !.at = "modules", !.previous = found]
                /\ dropin' = NoDropin /\ UNCHANGED live
                /\ lost' \in {lost, lost \/ Unrecorded}
    <3>1. task' \in ClearTask
      BY <1>1, <2>1, <2>3, RecordIs, RecordsOf DEF ClearTask
    <3>2. lost' \in BOOLEAN
      BY <1>1, <2>3 DEF TypeOK
    <3>3. TypeOK'
      BY <1>1, <1>3, <2>3, <3>2 DEF RemoveSysctl, Idle, TypeOK, keeping, upstream
    <3>4. QED
      BY <3>1, <3>3 DEF KernelTypes, TaskIs
  <2>4. QED
    BY <1>3, <2>2, <2>3 DEF RemoveSysctl
<1>4. CASE RemoveModules
  <2>1. task.kind = "clear" /\ (Goto("congestion") \/ Goto("failed"))
    BY <1>4 DEF RemoveModules, Fail
  <2>2. TaskIs'
    BY <1>1, <2>1, MovedTask
  <2>3. modules' \in BOOLEAN /\ lost' \in BOOLEAN
    BY <1>1, <1>4 DEF RemoveModules, Fail, TypeOK
  <2>4. TypeOK'
    BY <1>1, <1>4, <2>3 DEF RemoveModules, Idle, TypeOK, keeping, upstream
  <2>5. QED
    BY <2>2, <2>4 DEF KernelTypes
<1>5. CASE RestoreCongestion
  <2>1. task.kind = "clear" /\ Goto("qdisc")
    BY <1>5 DEF RestoreCongestion
  <2>2. TaskIs'
    BY <1>1, <2>1, MovedTask
  <2>3. live' \in Settings
    BY <1>1, <1>5, AvailableAre DEF RestoreCongestion, TypeOK, Settings
  <2>4. refused' \subseteq {"congestion", "qdisc"}
    BY <1>5 DEF RestoreCongestion
  <2>5. TypeOK'
    BY <1>1, <1>5, <2>3, <2>4 DEF RestoreCongestion, Idle, TypeOK, keeping, upstream
  <2>6. QED
    BY <2>2, <2>5 DEF KernelTypes
<1>6. CASE RestoreQdisc
  <2>1. task.kind = "clear" /\ Goto("ok")
    BY <1>6 DEF RestoreQdisc
  <2>2. TaskIs' /\ task \in ClearTask
    BY <1>1, <2>1, MovedTask, KindTells
  <2>3. task.previous.qdisc \in Qdiscs \cup {""}
    BY <2>2 DEF ClearTask, Records
  <2>4. live' \in Settings
    BY <1>1, <1>6, <2>3 DEF RestoreQdisc, TypeOK, Settings
  <2>5. lost' \in BOOLEAN /\ refused' \subseteq {"congestion", "qdisc"}
    BY <1>1, <1>6 DEF RestoreQdisc, TypeOK
  <2>6. TypeOK'
    BY <1>1, <1>6, <2>4, <2>5 DEF RestoreQdisc, Idle, TypeOK, keeping, upstream
  <2>7. QED
    BY <2>2, <2>6 DEF KernelTypes
<1>7. QED
  BY <1>2, <1>3, <1>4, <1>5, <1>6 DEF Clear

\* So do install and remove.
LEMMA InstallTypes ==
    ASSUME KernelTypes, Install
    PROVE  KernelTypes'
<1>1. TypeOK /\ TaskIs
  BY DEF KernelTypes
<1>2. CASE \E p \in Profiles, v \in Versions \cup {<<>>} : StartInstall(p, v)
  BY <1>1, <1>2, StartTypes, StartedTasks DEF StartInstall
<1>3. CASE Resolve
  <2>1. task.kind = "install" /\ task \in InstallTask /\ TypeOK'
    BY <1>1, <1>3, KindTells DEF Resolve, Idle, TypeOK, host, history, keeping,
       upstream
  <2>2. CASE task.version # <<>> /\ Goto("fetch")
    <3>1. task.version \in Versions
      BY <2>1, <2>2 DEF InstallTask
    <3>2. TaskIs'
      BY <1>1, <2>1, <2>2, <3>1, MovedTask
    <3>3. QED
      BY <2>1, <3>2 DEF KernelTypes
  <2>3. CASE Goto("failed")
    <3>1. TaskIs'
      BY <1>1, <2>1, <2>3, MovedTask
    <3>2. QED
      BY <2>1, <3>1 DEF KernelTypes
  <2>4. CASE \E listed, stamped \in BOOLEAN :
                \E v \in LatestVersions(listed, stamped) :
                   task' = [task EXCEPT !.at = "fetch", !.version = v]
    <3>1. PICK v \in Versions : task' = [task EXCEPT !.at = "fetch", !.version = v]
      BY <1>1, <2>4, LatestAre
    <3>2. task' \in InstallTask /\ task'.version \in Versions
      BY <2>1, <3>1 DEF InstallTask
    <3>3. QED
      BY <2>1, <3>2 DEF KernelTypes, TaskIs, Picked
  <2>5. QED
    BY <1>3, <2>2, <2>3, <2>4 DEF Resolve
<1>4. CASE Fetch
  <2>1. task.kind = "install" /\ task.at = "fetch" /\ TypeOK'
        /\ (Goto("dpkg") \/ Goto("failed"))
    BY <1>1, <1>4 DEF Fetch, Idle, TypeOK, host, history, keeping, upstream
  <2>2. task.version \in Versions
    BY <1>1, <2>1, KindTells DEF Picked
  <2>3. TaskIs'
    BY <1>1, <2>1, <2>2, MovedTask
  <2>4. QED
    BY <2>1, <2>3 DEF KernelTypes
<1>5. CASE Dpkg
  <2>1. task.kind = "install" /\ task.at = "dpkg"
        /\ (Goto("purge") \/ Goto("failed"))
    BY <1>5 DEF Dpkg, Idle, Fail
  <2>2. task.version \in Versions /\ Target \in Kernels
    BY <1>1, <2>1, KindTells, TargetIs DEF Picked
  <2>3. TaskIs'
    BY <1>1, <2>1, <2>2, MovedTask
  <2>4. packages' \in [Kernels -> {"none", "half", "ii"}]
    BY <1>1, <1>5, <2>2 DEF Dpkg, TypeOK
  <2>5. lost' \in BOOLEAN /\ kept' \in BOOLEAN /\ spoiled' \in BOOLEAN
    BY <1>1, <1>5 DEF Dpkg, Fail, TypeOK
  <2>6. TypeOK'
    BY <1>1, <1>5, <2>4, <2>5 DEF Dpkg, Idle, TypeOK, upstream
  <2>7. QED
    BY <2>3, <2>6 DEF KernelTypes
<1>6. QED
  BY <1>2, <1>3, <1>4, <1>5 DEF Install

\* So does removing the kernels,
LEMMA RemoveTypes ==
    ASSUME KernelTypes, Remove
    PROVE  KernelTypes'
<1>1. TypeOK /\ TaskIs
  BY DEF KernelTypes
<1>2. CASE StartRemove
  BY <1>1, <1>2, StartTypes, StartedTasks DEF StartRemove
<1>3. CASE Purge
  <2>1. /\ task.kind \in {"install", "remove"} /\ task.at = "purge"
        /\ (Goto("grub") \/ Goto("failed")
              \/ (task.kind = "remove" /\ Goto("ok")))
    BY <1>3 DEF Purge, Idle, Fail
  <2>2. task.kind = "install" => task.version \in Versions
    BY <1>1, <2>1, KindTells DEF Picked
  <2>3. TaskIs'
    BY <1>1, <2>1, <2>2, MovedTask
  <2>4. packages' \in [Kernels -> {"none", "half", "ii"}]
    BY <1>1, <1>3 DEF Purge, TypeOK
  <2>5. lost' \in BOOLEAN /\ kept' \in BOOLEAN
    BY <1>1, <1>3 DEF Purge, Fail, TypeOK
  <2>6. TypeOK'
    BY <1>1, <1>3, <2>4, <2>5 DEF Purge, Idle, TypeOK, upstream
  <2>7. QED
    BY <2>3, <2>6 DEF KernelTypes
<1>4. CASE UpdateBootloader
  <2>1. task.kind \in {"install", "remove"} /\ (Goto("ok") \/ Goto("failed"))
    BY <1>4 DEF UpdateBootloader, Fail
  <2>2. TaskIs'
    BY <1>1, <2>1, MovedTask
  <2>3. menu' \subseteq Kernels /\ lost' \in BOOLEAN
    BY <1>1, <1>4 DEF UpdateBootloader, Fail, TypeOK, Installed
  <2>4. TypeOK'
    BY <1>1, <1>4, <2>3 DEF UpdateBootloader, Idle, TypeOK, keeping, upstream
  <2>5. QED
    BY <2>2, <2>4 DEF KernelTypes
<1>5. QED
  BY <1>2, <1>3, <1>4 DEF Remove

\* So do a cancellation, a reboot and a publication.
LEMMA HostTypes ==
    ASSUME KernelTypes, Cancel \/ Reboot \/ Publish
    PROVE  KernelTypes'
<1>1. TypeOK /\ TaskIs
  BY DEF KernelTypes
<1>2. CASE Cancel
  <2>1. Goto("failed") /\ task.kind # "none" /\ lost' \in BOOLEAN
    BY <1>1, <1>2 DEF Cancel, Fail, TaskFree, Ended, TypeOK, TaskIs, NoTask,
       EnableTask, ClearTask, InstallTask, RemoveTask
  <2>2. TaskIs'
    BY <1>1, <2>1, FailedTask
  <2>3. TypeOK'
    BY <1>1, <1>2, <2>1 DEF Cancel, TypeOK, host, keeping, upstream
  <2>4. QED
    BY <2>2, <2>3 DEF KernelTypes
<1>3. CASE Reboot
  <2>1. running' \in {Stock} \cup Kernels
    BY <1>1, <1>3 DEF Reboot, TypeOK
  <2>2. live' \in Settings
    <3>1. PICK c \in Controls \cap Offers[running'], q \in Qdiscs :
             live' = [congestion |-> IF dropin # NoDropin /\ loaded' THEN "bbr" ELSE c,
                      qdisc |-> IF dropin # NoDropin THEN dropin.qdisc ELSE q]
      BY <1>3, Zenon DEF Reboot
    <3>2. dropin # NoDropin => dropin.qdisc \in Qdiscs
      BY <1>1 DEF TypeOK
    <3>3. QED
      BY <3>1, <3>2 DEF Settings
  <2>3. own' \in Settings
    BY <1>1, <1>3, <2>2 DEF Reboot, TypeOK
  <2>4. loaded' \in BOOLEAN /\ lost' \in BOOLEAN
    BY <1>1, <1>3 DEF Reboot, TypeOK
  <2>5. TypeOK'
    BY <1>1, <1>3, <2>1, <2>2, <2>3, <2>4 DEF Reboot, TypeOK, keeping, upstream
  <2>6. TaskIs'
    BY <1>3 DEF Reboot, TaskIs
  <2>7. QED
    BY <2>5, <2>6 DEF KernelTypes
<1>4. CASE Publish
  <2>1. tags' \subseteq Tags /\ stamp' \subseteq Versions
    <3>1. PICK t \in Tags \ tags : /\ tags' = tags \cup {t}
                                   /\ stamp' \in {stamp, stamp \cup {t.version}}
      BY <1>4 DEF Publish
    <3>2. t.version \in Versions
      BY DEF Tags
    <3>3. QED
      BY <1>1, <3>1, <3>2 DEF TypeOK
  <2>2. TypeOK'
    BY <1>1, <1>4, <2>1 DEF Publish, TypeOK, host, history, keeping
  <2>3. TaskIs'
    BY <1>1, <1>4 DEF Publish, TaskIs, Picked
  <2>4. QED
    BY <2>2, <2>3 DEF KernelTypes
<1>5. QED
  BY <1>2, <1>3, <1>4

\* and every other step.
LEMMA KernelTypesStep == KernelTypes /\ [Next]_vars => KernelTypes'
<1>1. ASSUME KernelTypes, UNCHANGED vars
      PROVE  KernelTypes'
  BY <1>1 DEF KernelTypes, TypeOK, TaskIs, Picked, vars, host, upstream, history,
     keeping
<1>2. QED
  BY <1>1, EnableTypes, ClearTypes, InstallTypes, RemoveTypes, HostTypes DEF Next

\* The variables of the kernel's model hold what they are declared to hold,
\* over every failure, cancellation and reboot.
THEOREM KernelTypeCorrect == Spec => []TypeOK
<1>1. KernelTypes => TypeOK
  BY DEF KernelTypes
<1>2. QED
  BY <1>1, KernelTypesInit, KernelTypesStep, PTL DEF Spec

-----------------------------------------------------------------------------
(***************************************************************************)
(* Kernel: a published kernel stays installed.                             *)
(***************************************************************************)

\* The kernel whose packages were just installed is there while the others
\* are purged.
StaysInv ==
    /\ kept => Installed # {} \/ spoiled
    /\ task.kind = "install" /\ task.at = "purge" => Target \in Installed

\* A step that leaves the packages and the wish to keep them alone, and starts
\* no purge of an install.
LEMMA StaysSame ==
    ASSUME StaysInv, packages' = packages, keeping' = keeping,
           ~(task'.kind = "install" /\ task'.at = "purge")
    PROVE  StaysInv'
BY DEF StaysInv, Installed, keeping

\* Every step keeps it.
LEMMA StaysStep == KernelTypes /\ StaysInv /\ [Next]_vars => StaysInv'
<1> SUFFICES ASSUME KernelTypes, StaysInv, [Next]_vars
             PROVE  StaysInv'
  OBVIOUS
<1>0. TypeOK /\ TaskIs /\ packages \in [Kernels -> {"none", "half", "ii"}]
  BY DEF KernelTypes, TypeOK
<1>1. ASSUME NEW t, Start(t), ~(t.kind = "install" /\ t.at = "purge")
      PROVE  StaysInv'
  BY <1>1, StaysSame DEF Start, host, history
<1>2. CASE Enable
  <2>1. CASE \E q \in Qdiscs : StartEnable(q)
    BY <1>1, <2>1 DEF StartEnable
  <2>2. CASE LoadModule \/ SetQdisc \/ SetCongestion \/ WriteSysctl \/ WriteModules
    <3>1. packages' = packages /\ keeping' = keeping /\ task.kind = "enable"
          /\ \E step \in {"qdisc", "congestion", "sysctl", "modules", "ok", "failed"} :
                Goto(step)
      BY <2>2 DEF LoadModule, SetQdisc, SetCongestion, WriteSysctl, WriteModules,
         Fail, history
    <3>2. task'.kind = "enable"
      BY <1>0, <3>1, MovedTask
    <3>3. QED
      BY <3>1, <3>2, StaysSame
  <2>3. QED
    BY <1>2, <2>1, <2>2 DEF Enable
<1>3. CASE Clear
  <2>1. CASE StartClear
    BY <1>1, <2>1 DEF StartClear
  <2>2. CASE RemoveSysctl
    <3>1. packages' = packages /\ keeping' = keeping /\ task \in ClearTask
          /\ \/ \E found : task' = [task EXCEPT !.at = "modules", !.previous = found]
             \/ task' = [task EXCEPT !.at = "failed"]
      BY <1>0, <2>2, KindTells DEF RemoveSysctl, Fail, Goto
    <3>2. task'.kind = "clear"
      BY <3>1 DEF ClearTask
    <3>3. QED
      BY <3>1, <3>2, StaysSame
  <2>3. CASE RemoveModules \/ RestoreCongestion \/ RestoreQdisc
    <3>1. packages' = packages /\ keeping' = keeping /\ task.kind = "clear"
          /\ \E step \in {"congestion", "qdisc", "ok", "failed"} : Goto(step)
      BY <2>3 DEF RemoveModules, RestoreCongestion, RestoreQdisc, Fail, history
    <3>2. task'.kind = "clear"
      BY <1>0, <3>1, MovedTask
    <3>3. QED
      BY <3>1, <3>2, StaysSame
  <2>4. QED
    BY <1>3, <2>1, <2>2, <2>3 DEF Clear
<1>4. CASE Install
  <2>1. CASE \E p \in Profiles, v \in Versions \cup {<<>>} : StartInstall(p, v)
    BY <1>1, <2>1 DEF StartInstall
  <2>2. CASE Resolve
    <3>1. packages' = packages /\ keeping' = keeping /\ task.kind = "install"
          /\ (task'.at \in {"fetch", "failed"})
      <4>1. task \in InstallTask /\ task.kind = "install"
        BY <1>0, <2>2, KindTells DEF Resolve
      <4>2. packages' = packages /\ keeping' = keeping
        BY <2>2 DEF Resolve, host, history
      <4>3. \/ Goto("fetch") \/ Goto("failed")
            \/ \E v : task' = [task EXCEPT !.at = "fetch", !.version = v]
        BY <2>2 DEF Resolve
      <4>4. QED
        BY <4>1, <4>2, <4>3 DEF Goto, InstallTask
    <3>2. QED
      BY <3>1, StaysSame
  <2>3. CASE Fetch
    <3>1. packages' = packages /\ keeping' = keeping
          /\ (Goto("dpkg") \/ Goto("failed")) /\ task \in InstallTask
      BY <1>0, <2>3, KindTells DEF Fetch, host, history
    <3>2. task'.at \in {"dpkg", "failed"}
      BY <3>1 DEF Goto, InstallTask
    <3>3. QED
      BY <3>1, <3>2, StaysSame
  <2>4. CASE Dpkg
    <3>1. task.kind = "install" /\ task.at = "dpkg" /\ Target \in Kernels
          /\ task.version \in Versions /\ task \in InstallTask
      BY <1>0, <2>4, TargetIs, KindTells DEF Dpkg, Idle, Picked
    <3>2. CASE /\ packages' = [packages EXCEPT ![Target] = "ii"]
               /\ Goto("purge")
      <4>1. task'.version = task.version /\ task'.profile = task.profile
        BY <1>0, <3>1, <3>2, MovedTask
      <4>2. packages'[Target] = "ii"
        BY <1>0, <3>1, <3>2
      <4>3. Target' = Target /\ Target \in Installed'
        BY <3>1, <4>1, <4>2 DEF Target, Installed
      <4>4. QED
        BY <4>3 DEF StaysInv
    <3>3. CASE /\ \E left : packages' = [packages EXCEPT ![Target] = left]
               /\ spoiled' = (Installed' = {} /\ (spoiled \/ Installed = {Target}))
               /\ kept' = kept /\ Goto("failed")
      <4>1. \A k \in Installed : k # Target => k \in Installed'
        BY <1>0, <3>1, <3>3 DEF Installed
      <4>2. kept' => Installed' # {} \/ spoiled'
        BY <3>3, <4>1 DEF StaysInv
      <4>3. task'.at = "failed"
        BY <3>1, <3>3 DEF Goto, InstallTask
      <4>4. QED
        BY <4>2, <4>3 DEF StaysInv
    <3>4. QED
      BY <2>4, <3>2, <3>3 DEF Dpkg, Fail
  <2>5. QED
    BY <1>4, <2>1, <2>2, <2>3, <2>4 DEF Install
<1>5. CASE Remove
  <2>1. CASE StartRemove
    BY <1>1, <2>1 DEF StartRemove
  <2>2. CASE Purge
    <3>1. task.kind \in {"install", "remove"} /\ task.at = "purge"
      BY <2>2 DEF Purge, Idle
    <3>2. /\ kept' => kept /\ task.kind = "install"
          /\ Goto("grub") \/ Goto("ok") \/ Goto("failed")
      BY <2>2 DEF Purge, Fail
    <3>3. task'.at \in {"grub", "ok", "failed"}
      <4>1. task \in InstallTask \/ task \in RemoveTask
        BY <1>0, <3>1, KindTells
      <4>2. QED
        BY <3>2, <4>1 DEF Goto, InstallTask, RemoveTask
    <3>4. ASSUME task.kind = "install"
          PROVE  Target \in Installed'
      <4>1. Target \in Installed
        BY <3>1, <3>4 DEF StaysInv
      <4>2. PICK gone \in SUBSET Stale : packages' =
               [k \in Kernels |-> IF k \in gone THEN "none" ELSE packages[k]]
        BY <2>2 DEF Purge
      <4>3. Target \notin gone
        BY <3>4, <4>2 DEF Stale
      <4>4. packages'[Target] = "ii" /\ Target \in Kernels
        BY <4>1, <4>2, <4>3 DEF Installed
      <4>5. QED
        BY <4>4 DEF Installed
    <3>5. QED
      BY <3>2, <3>3, <3>4 DEF StaysInv
  <2>3. CASE UpdateBootloader
    <3>1. /\ packages' = packages /\ keeping' = keeping
          /\ task.kind \in {"install", "remove"} /\ (Goto("ok") \/ Goto("failed"))
      BY <2>3 DEF UpdateBootloader, Fail
    <3>2. task'.at \in {"ok", "failed"}
      BY <1>0, <3>1, MovedTask
    <3>3. QED
      BY <3>1, <3>2, StaysSame
  <2>4. QED
    BY <1>5, <2>1, <2>2, <2>3 DEF Remove
<1>6. CASE Cancel
  <2>1. packages' = packages /\ keeping' = keeping /\ Goto("failed") /\ task.kind # "none"
    BY <1>0, <1>6 DEF Cancel, host, Fail, TaskFree, Ended, TaskIs, NoTask,
       EnableTask, ClearTask, InstallTask, RemoveTask
  <2>2. task'.at = "failed"
    BY <1>0, <2>1, FailedTask
  <2>3. QED
    BY <2>1, <2>2, StaysSame
<1>7. CASE Reboot
  BY <1>7, StaysSame DEF Reboot, NoTask
<1>8. CASE Publish \/ UNCHANGED vars
  <2>1. packages' = packages /\ task' = task /\ kept' = kept /\ spoiled' = spoiled
    BY <1>8 DEF Publish, vars, host, history, keeping
  <2>2. QED
    BY <2>1 DEF StaysInv, Installed, Target
<1>9. QED
  BY <1>2, <1>3, <1>4, <1>5, <1>6, <1>7, <1>8 DEF Next

\* No install or upgrade, wherever it fails, is cancelled or is cut short by a
\* reboot, leaves the host without a published kernel that nobody asked to
\* remove, unless the only one was installed once more and dpkg failed on it.
THEOREM KernelsStay == Spec => []KernelStays
<1>1. Init => StaysInv
  BY DEF Init, StaysInv, NoTask
<1>2. StaysInv => KernelStays
  BY DEF StaysInv, KernelStays
<1>3. QED
  BY <1>1, <1>2, KernelTypesInit, KernelTypesStep, StaysStep, PTL DEF Spec

-----------------------------------------------------------------------------
(***************************************************************************)
(* Kernel: clearing puts back what was replaced.  While nothing is lost,   *)
(* what BBR replaced is in the record of the drop-in, in the hands of a    *)
(* task, or in force.                                                      *)
(***************************************************************************)
Recorded == dropin.previous # NoRecord
Steady == TaskFree \/ task.kind \notin {"enable", "clear"}
Clearing == task.kind = "clear" /\ task.at \in {"modules", "congestion", "qdisc"}

\* Before a task has changed anything, and after it has ended.
Untouched ==
    \/ Steady
    \/ task.kind = "enable" /\ task.at = "module"
    \/ task.kind = "clear" /\ task.at = "sysctl"

\* An enabling task holds the settings it found when there is no record, or
\* could not read them.
EnableHolds ==
    task.kind = "enable" /\ ~TaskFree /\ ~Recorded =>
        task.previous = own \/ Partial(task.previous)

\* A clearing task holds the record it found.
ClearHolds ==
    Clearing => /\ ~Recorded
                /\ task.previous # NoRecord => task.previous = own
                /\ task.previous = NoRecord => live = own

\* The control is put back before the queue discipline.
ControlBack ==
    task.kind = "clear" /\ task.at = "qdisc" =>
        \/ "congestion" \in refused \/ own.congestion \notin Offers[running]
        \/ live.congestion = own.congestion

Traced ==
    /\ Recorded => dropin.previous = own
    /\ dropin # NoDropin => Recorded
    /\ task.kind = "enable" /\ task.at = "modules" => Recorded
    /\ Untouched /\ ~Recorded => live = own
    /\ EnableHolds /\ ClearHolds /\ ControlBack

UndoInv ==
    /\ own.congestion \in Controls
    /\ ~lost => Traced

\* No drop-in, no record.
LEMMA RecordsAreReal == dropin = NoDropin => ~Recorded
<1>1. NoDropin.previous = NoRecord
  BY DEF NoDropin
<1>2. QED
  BY <1>1 DEF Recorded

\* A step that leaves the settings alone, of a task that is not, or no longer,
\* at work on them.
LEMMA UndoSame ==
    ASSUME UndoInv, Untouched, Steady', live' = live, dropin' = dropin, own' = own,
           ~lost' => ~lost
    PROVE  UndoInv'
<1>1. ~(task'.kind = "enable" /\ task'.at = "modules") /\ ~Clearing'
      /\ ~(task'.kind = "enable" /\ ~TaskFree')
      /\ ~(task'.kind = "clear" /\ task'.at = "qdisc")
  BY DEF Steady, Clearing, TaskFree, Ended
<1>2. Recorded' <=> Recorded
  BY DEF Recorded
<1>3. ASSUME ~lost'
      PROVE  Traced'
  <2>1. Traced
    BY <1>3 DEF UndoInv
  <2>2. EnableHolds' /\ ClearHolds' /\ ControlBack'
    BY <1>1 DEF EnableHolds, ClearHolds, ControlBack
  <2>3. /\ Recorded' => dropin'.previous = own'
        /\ dropin' # NoDropin => Recorded'
    BY <1>2, <2>1 DEF Traced
  <2>4. ~Recorded' => live' = own'
    BY <1>2, <2>1 DEF Traced
  <2>5. QED
    BY <1>1, <2>2, <2>3, <2>4 DEF Traced
<1>4. QED
  BY <1>3 DEF UndoInv

\* A task that fails: a change it left no record of is lost.
LEMMA UndoFail ==
    ASSUME KernelTypes, UndoInv, Fail, task.kind # "none", own' = own,
           dropin' = dropin \/ dropin' = NoDropin
    PROVE  UndoInv'
<1>1. task'.at = "failed" /\ TaskFree'
  BY FailedTask DEF Fail, KernelTypes, TaskFree, Ended
<1>2. Steady' /\ ~Clearing' /\ task'.at # "modules" /\ task'.at # "qdisc"
  BY <1>1 DEF Steady, Clearing
<1>3. ASSUME ~lost'
      PROVE  Traced'
  <2>1. ~lost /\ Traced
    BY <1>3 DEF UndoInv, Fail
  <2>2. live' # own => dropin'.previous # NoRecord
    BY <1>3 DEF Fail, Unrecorded
  <2>3. Recorded' => dropin' = dropin
    <3>1. NoDropin.previous = NoRecord
      BY DEF NoDropin
    <3>2. QED
      BY <3>1 DEF Recorded
  <2>4. /\ Recorded' => dropin'.previous = own'
        /\ dropin' # NoDropin => Recorded'
    BY <2>1, <2>3 DEF Traced, Recorded
  <2>5. ~Recorded' => live' = own'
    BY <2>2 DEF Recorded
  <2>6. EnableHolds' /\ ClearHolds' /\ ControlBack'
    BY <1>1, <1>2 DEF EnableHolds, ClearHolds, ControlBack
  <2>7. QED
    BY <1>2, <2>4, <2>5, <2>6 DEF Traced
<1>4. QED
  BY <1>2, <1>3 DEF UndoInv

\* A task that starts finds things as an earlier one left them.
LEMMA UndoStart ==
    ASSUME UndoInv, NEW t, Start(t),
           t.kind = "enable" =>
               t.at = "module" /\ (t.previous = live \/ Partial(t.previous)),
           t.kind = "clear" => t.at = "sysctl"
    PROVE  UndoInv'
<1>1. /\ task' = t /\ live' = live /\ dropin' = dropin /\ own' = own
      /\ lost' = lost /\ Untouched
  BY DEF Start, host, history, Untouched, Steady
<1>2. Recorded' <=> Recorded
  BY <1>1 DEF Recorded
<1>3. ASSUME ~lost'
      PROVE  Traced'
  <2>1. Traced
    BY <1>1, <1>3 DEF UndoInv
  <2>2. ~Recorded => live = own
    BY <1>1, <2>1 DEF Traced
  <2>3. EnableHolds'
    BY <1>1, <1>2, <2>2 DEF EnableHolds, Partial
  <2>4. ClearHolds' /\ ControlBack'
    BY <1>1 DEF ClearHolds, ControlBack, Clearing
  <2>5. QED
    BY <1>1, <1>2, <2>1, <2>2, <2>3, <2>4 DEF Traced
<1>4. QED
  BY <1>1, <1>3 DEF UndoInv

\* An enabling task on its way keeps in hand what it found.
LEMMA UndoEnabling ==
    ASSUME KernelTypes, UndoInv, task.kind = "enable", ~TaskFree,
           NEW step \in {"qdisc", "congestion", "sysctl", "modules"}, Goto(step),
           own' = own, ~lost' => ~lost,
           step = "modules" /\ ~lost' => Recorded',
           ~lost' => (Recorded' => dropin'.previous = own)
                     /\ (dropin' # NoDropin => Recorded')
                     /\ (~Recorded' => ~Recorded)
    PROVE  UndoInv'
<1>1. /\ task'.kind = "enable" /\ task'.at = step
      /\ task'.previous = task.previous
  BY MovedTask DEF KernelTypes
<1>2. ~Untouched' /\ ~Clearing'
  BY <1>1 DEF Untouched, Steady, Clearing, TaskFree, Ended
<1>3. ASSUME ~lost'
      PROVE  Traced'
  <2>1. Traced
    BY <1>3 DEF UndoInv
  <2>2. EnableHolds'
    BY <1>1, <1>3, <2>1 DEF EnableHolds, Traced, Partial
  <2>3. ClearHolds' /\ ControlBack'
    BY <1>1, <1>2 DEF ClearHolds, ControlBack
  <2>4. QED
    BY <1>1, <1>2, <1>3, <2>2, <2>3 DEF Traced
<1>4. QED
  BY <1>1, <1>3 DEF UndoInv

\* Switching BBR on records what it found before it changes anything.
LEMMA UndoEnable ==
    ASSUME KernelTypes, UndoInv, Enable
    PROVE  UndoInv'
<1>1. TypeOK /\ TaskIs
  BY DEF KernelTypes
<1>2. CASE \E q \in Qdiscs : StartEnable(q)
  <2>1. PICK q \in Qdiscs : StartEnable(q)
    BY <1>2
  <2>2. PICK seen \in [congestion : {live.congestion, ""}, qdisc : {live.qdisc, ""}] :
           Start([kind |-> "enable", at |-> "module", qdisc |-> q, previous |-> seen])
    BY <2>1 DEF StartEnable
  <2>3. seen = live \/ Partial(seen)
    <3>1. live = [congestion |-> live.congestion, qdisc |-> live.qdisc]
      BY <1>1 DEF TypeOK, Settings
    <3>2. seen = [congestion |-> seen.congestion, qdisc |-> seen.qdisc]
      BY <2>2
    <3>3. /\ seen.congestion \in {live.congestion, ""}
          /\ seen.qdisc \in {live.qdisc, ""}
      BY <2>2
    <3>4. CASE seen.congestion = "" \/ seen.qdisc = ""
      BY <3>4 DEF Partial
    <3>5. CASE seen.congestion = live.congestion /\ seen.qdisc = live.qdisc
      BY <3>1, <3>2, <3>5
    <3>6. QED
      BY <3>3, <3>4, <3>5
  <2>4. QED
    BY <2>2, <2>3, UndoStart
<1>3. ASSUME task.kind = "enable", task.at \in {"module", "qdisc", "congestion",
                                                "sysctl", "modules"}
      PROVE  /\ ~TaskFree
             /\ ~lost /\ Recorded => dropin.previous = own
             /\ ~lost => (dropin # NoDropin => Recorded)
             /\ ~lost /\ ~Recorded => task.previous = own \/ Partial(task.previous)
             /\ ~lost /\ task.at = "modules" => Recorded
             /\ task.at = "module" => Untouched
  BY <1>3 DEF TaskFree, Ended, UndoInv, Traced, EnableHolds, Untouched
<1>4. CASE LoadModule
  <2>1. /\ task.kind = "enable" /\ task.at = "module" /\ live' = live
        /\ dropin' = dropin /\ own' = own
    BY <1>4 DEF LoadModule, Idle
  <2>2. CASE Goto("qdisc") /\ lost' = lost
    BY <1>3, <2>1, <2>2, UndoEnabling DEF Recorded
  <2>3. CASE Goto("failed") /\ (~lost' => ~lost)
    <3>1. Steady'
      BY <1>1, <2>1, <2>3, FailedTask DEF Steady, TaskFree, Ended
    <3>2. QED
      BY <1>3, <2>1, <2>3, <3>1, UndoSame
  <2>4. QED
    <3>1. CASE UNCHANGED lost
      BY <1>4, <2>2, <2>3, <3>1 DEF LoadModule, Fail
    <3>2. CASE Fail
      BY <2>3, <3>2 DEF Fail
    <3>3. QED
      BY <1>4, <3>1, <3>2 DEF LoadModule
<1>5. CASE SetQdisc
  <2>1. task.kind = "enable" /\ task.at = "qdisc" /\ dropin' = dropin /\ own' = own
    BY <1>5 DEF SetQdisc, Idle
  <2>2. Fail \/ (Goto("congestion") /\ lost' = lost)
    BY <1>5 DEF SetQdisc
  <2>3. QED
    BY <1>3, <2>1, <2>2, UndoEnabling, UndoFail DEF Recorded
<1>6. CASE SetCongestion
  <2>1. task.kind = "enable" /\ task.at = "congestion" /\ dropin' = dropin /\ own' = own
    BY <1>6 DEF SetCongestion, Idle
  <2>2. Fail \/ (Goto("sysctl") /\ lost' = lost)
    BY <1>6 DEF SetCongestion
  <2>3. QED
    BY <1>3, <2>1, <2>2, UndoEnabling, UndoFail DEF Recorded
<1>7. CASE WriteSysctl
  <2>1. task.kind = "enable" /\ task.at = "sysctl" /\ own' = own
    BY <1>7 DEF WriteSysctl, Idle
  <2>2. CASE Fail /\ dropin' \in {dropin, NoDropin}
    BY <2>1, <2>2, UndoFail
  <2>3. CASE \E found \in {dropin.previous, NoRecord} :
                /\ dropin' = [previous |-> AsNoted(KeepOldest(found, task.previous)),
                              qdisc |-> task.qdisc]
                /\ Goto("modules")
                /\ lost' = (lost \/ found # dropin.previous
                                 \/ (found = NoRecord /\ Partial(task.previous)))
    <3>1. PICK found \in {dropin.previous, NoRecord} :
             /\ dropin'.previous = AsNoted(KeepOldest(found, task.previous))
             /\ Goto("modules")
             /\ lost' = (lost \/ found # dropin.previous
                              \/ (found = NoRecord /\ Partial(task.previous)))
      BY <2>3
    <3>2. own \in Settings /\ AsNoted(own) = own /\ own # NoRecord
      BY <1>1, RecordsOf DEF TypeOK
    <3>3. ASSUME ~lost'
          PROVE  ~lost /\ KeepOldest(found, task.previous) = own
      <4>1. ~lost /\ found = dropin.previous
            /\ (found = NoRecord => ~Partial(task.previous))
        BY <3>1, <3>3
      <4>2. QED
        BY <1>3, <2>1, <4>1 DEF KeepOldest, Recorded
    <3>4. ASSUME ~lost'
          PROVE  ~lost /\ dropin'.previous = own /\ Recorded'
      BY <3>1, <3>2, <3>3, <3>4 DEF Recorded
    <3>5. QED
      BY <1>3, <2>1, <3>1, <3>4, UndoEnabling
  <2>4. QED
    BY <1>7, <2>2, <2>3 DEF WriteSysctl
<1>8. CASE WriteModules
  <2>1. /\ task.kind = "enable" /\ task.at = "modules" /\ own' = own
        /\ dropin' = dropin
    BY <1>8 DEF WriteModules, Idle
  <2>2. CASE Fail
    BY <2>1, <2>2, UndoFail
  <2>3. CASE Goto("ok") /\ lost' = lost /\ live' = live
    <3>1. /\ task'.kind = "enable" /\ task'.at = "ok"
      BY <1>1, <2>1, <2>3, MovedTask
    <3>2. TaskFree' /\ ~Clearing'
      BY <3>1 DEF TaskFree, Ended, Clearing
    <3>3. ASSUME ~lost'
          PROVE  Traced'
      <4>1. Recorded /\ Recorded' /\ dropin'.previous = own'
        BY <1>3, <2>1, <2>3, <3>3 DEF Recorded
      <4>2. QED
        BY <3>1, <3>2, <4>1 DEF Traced, EnableHolds, ClearHolds, ControlBack
    <3>4. QED
      BY <2>1, <3>3 DEF UndoInv
  <2>4. QED
    BY <1>8, <2>2, <2>3 DEF WriteModules
<1>9. QED
  BY <1>2, <1>4, <1>5, <1>6, <1>7, <1>8 DEF Enable

\* Clearing puts back what the drop-in recorded, or finds nothing to put
\* back.
LEMMA UndoClear ==
    ASSUME KernelTypes, UndoInv, Clear
    PROVE  UndoInv'
<1>1. TypeOK /\ TaskIs
  BY DEF KernelTypes
<1>2. CASE StartClear
  BY <1>2, UndoStart DEF StartClear
<1>3. CASE RemoveSysctl
  <2>1. /\ task.kind = "clear" /\ task.at = "sysctl" /\ live' = live /\ own' = own
    BY <1>3 DEF RemoveSysctl, Idle
  <2>2. CASE Fail /\ dropin' = dropin
    BY <2>1, <2>2, UndoFail
  <2>3. CASE \E found \in {dropin.previous, NoRecord} :
                /\ task' = [task EXCEPT !.at = "modules", !.previous = found]
                /\ dropin' = NoDropin
                /\ IF found = dropin.previous THEN lost' = lost
                   ELSE lost' = (lost \/ Unrecorded)
    <3>1. PICK found \in {dropin.previous, NoRecord} :
             /\ task' = [task EXCEPT !.at = "modules", !.previous = found]
             /\ IF found = dropin.previous THEN lost' = lost
                ELSE lost' = (lost \/ Unrecorded)
      BY <2>3
    <3>2. task \in ClearTask
      BY <1>1, <2>1, KindTells
    <3>3. task'.kind = "clear" /\ task'.at = "modules" /\ task'.previous = found
      BY <3>1, <3>2 DEF ClearTask
    <3>4. dropin' = NoDropin /\ ~Recorded' /\ NoDropin.previous = NoRecord
      <4>1. NoDropin.previous = NoRecord
        BY DEF NoDropin
      <4>2. dropin' = NoDropin
        BY <2>3
      <4>3. QED
        BY <4>1, <4>2 DEF Recorded
    <3>5. ASSUME ~lost'
          PROVE  Traced'
      <4>1. Traced /\ Untouched
        BY <2>1, <3>1, <3>5 DEF UndoInv, Untouched
      <4>2. found # NoRecord => found = own
        BY <3>1, <4>1 DEF Traced, Recorded
      <4>3. found = NoRecord => live = own
        <5>1. CASE found = dropin.previous
          BY <4>1, <5>1 DEF Traced, Recorded
        <5>2. CASE found # dropin.previous
          BY <2>1, <3>1, <3>4, <3>5, <5>2 DEF Unrecorded
        <5>3. QED
          BY <5>1, <5>2
      <4>4. ClearHolds'
        BY <2>1, <3>3, <3>4, <4>2, <4>3 DEF ClearHolds
      <4>5. ~Untouched' /\ EnableHolds' /\ ControlBack'
        BY <3>3 DEF Untouched, Steady, TaskFree, Ended, EnableHolds, ControlBack
      <4>6. QED
        BY <3>3, <3>4, <4>4, <4>5 DEF Traced
    <3>6. QED
      BY <2>1, <3>5 DEF UndoInv
  <2>4. QED
    BY <1>3, <2>2, <2>3 DEF RemoveSysctl
<1>4. CASE RemoveModules
  <2>1. /\ task.kind = "clear" /\ task.at = "modules" /\ own' = own
        /\ dropin' = dropin
    BY <1>4 DEF RemoveModules, Idle
  <2>2. CASE Fail
    BY <2>1, <2>2, UndoFail
  <2>3. CASE Goto("congestion") /\ lost' = lost /\ live' = live
    <3>1. /\ task'.kind = "clear" /\ task'.at = "congestion"
          /\ task'.previous = task.previous
      BY <1>1, <2>1, <2>3, MovedTask
    <3>2. Clearing /\ Clearing' /\ (Recorded' <=> Recorded)
      BY <2>1, <3>1 DEF Clearing, Recorded
    <3>3. ASSUME ~lost'
          PROVE  Traced'
      <4>1. Traced
        BY <2>3, <3>3 DEF UndoInv
      <4>2. ClearHolds'
        BY <2>1, <2>3, <3>1, <3>2, <4>1 DEF Traced, ClearHolds
      <4>3. ~Untouched' /\ EnableHolds' /\ ControlBack'
        BY <3>1 DEF Untouched, Steady, TaskFree, Ended, EnableHolds, ControlBack
      <4>4. QED
        BY <2>1, <3>1, <3>2, <4>1, <4>2, <4>3 DEF Traced
    <3>4. QED
      BY <2>1, <3>1, <3>3 DEF UndoInv
  <2>4. QED
    BY <1>4, <2>2, <2>3 DEF RemoveModules
<1>5. CASE RestoreCongestion
  <2>1. /\ task.kind = "clear" /\ task.at = "congestion" /\ Goto("qdisc")
        /\ own' = own /\ dropin' = dropin /\ lost' = lost /\ running' = running
    BY <1>5 DEF RestoreCongestion, Idle
  <2>2. \/ live' = IF Available(task.previous.congestion)
                   THEN [live EXCEPT !.congestion = task.previous.congestion]
                   ELSE live
        \/ live' = live /\ "congestion" \in refused'
    BY <1>5 DEF RestoreCongestion
  <2>3. /\ task'.kind = "clear" /\ task'.at = "qdisc"
        /\ task'.previous = task.previous
    BY <1>1, <2>1, MovedTask
  <2>4. Clearing /\ (Recorded' <=> Recorded)
    BY <2>1 DEF Clearing, Recorded
  <2>5. ~Untouched' /\ EnableHolds'
    BY <2>3 DEF Untouched, Steady, TaskFree, Ended, EnableHolds
  <2>6. ASSUME ~lost'
        PROVE  Traced'
    <3>1. Traced
      BY <2>1, <2>6 DEF UndoInv
    <3>2. /\ ~Recorded /\ (task.previous # NoRecord => task.previous = own)
          /\ (task.previous = NoRecord => live = own)
      BY <2>4, <3>1 DEF Traced, ClearHolds
    <3>3. own.congestion # "bbr" /\ live \in Settings
      BY <1>1, KernelAssumption DEF UndoInv, TypeOK
    <3>4. task.previous = NoRecord => live' = own
      <4>1. ~Available("")
        <5>1. "" \notin Controls \cup {"bbr"}
          BY KernelAssumption
        <5>2. QED
          BY <1>1, <5>1, AvailableAre
      <4>2. NoRecord.congestion = ""
        BY DEF NoRecord
      <4>3. SUFFICES ASSUME task.previous = NoRecord
                     PROVE  live' = live
        BY <3>2
      <4>4. ~Available(task.previous.congestion)
        BY <4>1, <4>2, <4>3
      <4>5. QED
        BY <2>2, <4>4
    <3>5. ControlBack'
      <4>1. CASE live' = live /\ "congestion" \in refused'
        BY <4>1 DEF ControlBack
      <4>2. CASE task.previous = NoRecord
        BY <2>1, <3>4, <4>2 DEF ControlBack
      <4>3. CASE /\ task.previous = own
                 /\ live' = IF Available(task.previous.congestion)
                            THEN [live EXCEPT !.congestion = task.previous.congestion]
                            ELSE live
        <5>1. Available(own.congestion) <=> own.congestion \in Offers[running]
          BY <3>3 DEF Available
        <5>2. own.congestion \in Offers[running] => live'.congestion = own.congestion
          BY <3>3, <4>3, <5>1 DEF Settings
        <5>3. QED
          BY <2>1, <5>2 DEF ControlBack
      <4>4. QED
        BY <2>2, <3>2, <4>1, <4>2, <4>3
    <3>6. ClearHolds'
      BY <2>1, <2>3, <2>4, <3>2, <3>4 DEF ClearHolds
    <3>7. QED
      BY <2>1, <2>3, <2>4, <2>5, <3>1, <3>2, <3>5, <3>6 DEF Traced
  <2>7. QED
    BY <2>1, <2>6 DEF UndoInv
<1>6. CASE RestoreQdisc
  <2>1. /\ task.kind = "clear" /\ task.at = "qdisc" /\ Goto("ok")
        /\ own' = own /\ dropin' = dropin /\ lost' = (lost \/ Unrecorded)
    BY <1>6 DEF RestoreQdisc, Idle
  <2>2. task'.kind = "clear" /\ task'.at = "ok"
    BY <1>1, <2>1, MovedTask
  <2>3. ASSUME ~lost'
        PROVE  Traced'
    <3>1. ~lost /\ Traced /\ Clearing
      BY <2>1, <2>3 DEF UndoInv, Clearing
    <3>2. ~Recorded /\ ~Recorded' /\ dropin' = NoDropin
      BY <2>1, <3>1 DEF Traced, ClearHolds, Recorded
    <3>3. live' = own'
      BY <2>1, <2>3, <3>2 DEF Unrecorded, Recorded
    <3>4. EnableHolds' /\ ClearHolds' /\ ControlBack'
      BY <2>2 DEF EnableHolds, ClearHolds, ControlBack, Clearing
    <3>5. QED
      BY <2>2, <3>2, <3>3, <3>4 DEF Traced
  <2>4. QED
    BY <2>1, <2>2, <2>3 DEF UndoInv
<1>7. QED
  BY <1>2, <1>3, <1>4, <1>5, <1>6 DEF Clear

\* The kernel packages have nothing to do with the settings.
LEMMA UndoPackages ==
    ASSUME KernelTypes, UndoInv, Install \/ Remove
    PROVE  UndoInv'
<1>1. TypeOK /\ TaskIs
  BY DEF KernelTypes
<1>2. CASE \/ \E p \in Profiles, v \in Versions \cup {<<>>} : StartInstall(p, v)
           \/ StartRemove
  <2>1. ASSUME NEW t, Start(t), t.kind \in {"install", "remove"}
        PROVE  UndoInv'
    BY <2>1, UndoStart
  <2>2. CASE StartRemove
    BY <2>1, <2>2 DEF StartRemove
  <2>3. ASSUME NEW p \in Profiles, NEW v \in Versions \cup {<<>>}, StartInstall(p, v)
        PROVE  UndoInv'
    BY <2>1, <2>3 DEF StartInstall
  <2>4. QED
    BY <1>2, <2>2, <2>3
<1>3. CASE Resolve \/ Fetch \/ Dpkg \/ Purge \/ UpdateBootloader
  <2>1. /\ task.kind \in {"install", "remove"}
        /\ live' = live /\ dropin' = dropin /\ own' = own
        /\ Fail \/ lost' = lost
    <3>1. CASE Resolve \/ Fetch
      BY <3>1 DEF Resolve, Fetch, host, history
    <3>2. CASE Dpkg
      BY <3>2 DEF Dpkg
    <3>3. CASE Purge
      BY <3>3 DEF Purge
    <3>4. CASE UpdateBootloader
      BY <3>4 DEF UpdateBootloader
    <3>5. QED
      BY <1>3, <3>1, <3>2, <3>3, <3>4
  <2>2. task'.kind = task.kind
    <3>1. task \in InstallTask \/ task \in RemoveTask
      BY <1>1, <2>1, KindTells
    <3>2. \/ \E step : task' = [task EXCEPT !.at = step]
          \/ task \in InstallTask /\
               \E v : task' = [task EXCEPT !.at = "fetch", !.version = v]
      BY <1>1, <1>3, KindTells
      DEF Resolve, Fetch, Dpkg, Purge, UpdateBootloader, Fail, Goto
    <3>3. QED
      BY <3>1, <3>2 DEF InstallTask, RemoveTask
  <2>3. Untouched /\ Steady'
    BY <2>1, <2>2 DEF Untouched, Steady
  <2>4. ~lost' => ~lost
    BY <2>1 DEF Fail
  <2>5. QED
    BY <2>1, <2>3, <2>4, UndoSame
<1>4. QED
  BY <1>2, <1>3 DEF Install, Remove

\* A reboot starts over, with the settings of the drop-in where there is one.
LEMMA UndoReboot ==
    ASSUME KernelTypes, UndoInv, Reboot
    PROVE  UndoInv'
<1>1. TypeOK
  BY DEF KernelTypes
<1>2. task' = NoTask /\ dropin' = dropin
  BY DEF Reboot
<1>3. /\ task'.kind = "none" /\ ~Clearing' /\ EnableHolds' /\ ClearHolds'
      /\ ControlBack'
  BY <1>2 DEF NoTask, Clearing, EnableHolds, ClearHolds, ControlBack
<1>4. Recorded' <=> Recorded
  BY <1>2 DEF Recorded
<1>5. CASE dropin = NoDropin
  <2>1. own' = live' /\ ~Recorded
    BY <1>5, RecordsAreReal DEF Reboot
  <2>2. live'.congestion \in Controls
    BY <1>5 DEF Reboot
  <2>3. Traced'
    BY <1>2, <1>3, <1>4, <1>5, <2>1 DEF Traced
  <2>4. QED
    BY <1>3, <2>1, <2>2, <2>3 DEF UndoInv
<1>6. CASE dropin # NoDropin
  <2>1. own' = own /\ lost' = lost
    BY <1>6 DEF Reboot
  <2>2. ~lost => Recorded /\ dropin.previous = own
    BY <1>6 DEF UndoInv, Traced
  <2>3. ~lost' => Traced'
    BY <1>2, <1>3, <1>4, <2>1, <2>2 DEF Traced
  <2>4. QED
    BY <1>3, <2>1, <2>3 DEF UndoInv
<1>7. QED
  BY <1>5, <1>6

\* Every step keeps it.
LEMMA UndoStep == KernelTypes /\ UndoInv /\ [Next]_vars => UndoInv'
<1> SUFFICES ASSUME KernelTypes, UndoInv, [Next]_vars
             PROVE  UndoInv'
  OBVIOUS
<1>1. CASE Cancel
  <2>1. task.kind # "none"
    BY <1>1 DEF Cancel, KernelTypes, TaskIs, TaskFree, Ended, NoTask,
       EnableTask, ClearTask, InstallTask, RemoveTask
  <2>2. own' = own /\ dropin' = dropin /\ Fail
    BY <1>1 DEF Cancel, host
  <2>3. QED
    BY <2>1, <2>2, UndoFail
<1>2. CASE Publish \/ UNCHANGED vars
  BY <1>2 DEF Publish, vars, host, history, UndoInv, Traced, Recorded, Untouched,
     Steady, TaskFree, EnableHolds, ClearHolds, ControlBack, Clearing
<1>3. QED
  BY <1>1, <1>2, UndoEnable, UndoClear, UndoPackages, UndoReboot DEF Next

\* It holds when the program starts.
LEMMA UndoInit == Init => UndoInv
<1> SUFFICES ASSUME Init
             PROVE  UndoInv
  OBVIOUS
<1>1. own = live /\ own.congestion \in Controls /\ task = NoTask
      /\ dropin = NoDropin
  BY DEF Init
<1>2. ~Recorded /\ task.kind = "none"
  BY <1>1 DEF Recorded, NoDropin, NoTask
<1>3. QED
  BY <1>1, <1>2 DEF UndoInv, Traced, EnableHolds, ClearHolds, ControlBack, Clearing

\* A clear that finds a record puts back the queue discipline BBR replaced and
\* the congestion control, unless this clear's own write of it was refused or
\* the kernel offers the control no more, however often BBR was switched on and
\* over reboots and changes of kernel, as long as no task left a change without
\* a true record of what it replaced.
THEOREM ClearPutsBack == Spec => ClearUndoes
<1> DEFINE PutsBack ==
      task.kind = "clear" /\ task.at = "qdisc" /\ task'.at = "ok"
          /\ task.previous # NoRecord /\ ~lost =>
            /\ "qdisc" \in refused' \/ live'.qdisc = own.qdisc
            /\ \/ "congestion" \in refused' \/ own.congestion \notin Offers[running]
               \/ live'.congestion = own.congestion
<1>1. ASSUME KernelTypes, UndoInv, Next
      PROVE  PutsBack
  <2> SUFFICES ASSUME task.kind = "clear", task.at = "qdisc", task'.at = "ok",
                      task.previous # NoRecord, ~lost
               PROVE  /\ "qdisc" \in refused' \/ live'.qdisc = own.qdisc
                      /\ \/ "congestion" \in refused'
                         \/ own.congestion \notin Offers[running]
                         \/ live'.congestion = own.congestion
    OBVIOUS
  <2>1. /\ task.previous = own
        /\ \/ "congestion" \in refused \/ own.congestion \notin Offers[running]
           \/ live.congestion = own.congestion
    BY <1>1 DEF UndoInv, Traced, ClearHolds, Clearing, ControlBack
  <2>2. task'.at # task.at /\ ~TaskFree /\ task.kind = "clear"
    BY DEF TaskFree, Ended
  <2>3. RestoreQdisc
    <3>1. ~Enable /\ ~Install /\ ~Remove
      BY <2>2 DEF Enable, Install, Remove, StartEnable, StartInstall, StartRemove,
         Start, LoadModule, SetQdisc, SetCongestion, WriteSysctl, WriteModules,
         Resolve, Fetch, Dpkg, Purge, UpdateBootloader
    <3>2. ~Cancel
      BY <1>1, <2>2, FailedTask DEF Cancel, Fail, KernelTypes
    <3>3. ~Reboot /\ ~Publish
      BY <2>2 DEF Reboot, NoTask, Publish
    <3>4. Clear
      BY <1>1, <3>1, <3>2, <3>3 DEF Next
    <3>5. QED
      BY <2>2, <3>4 DEF Clear, StartClear, Start, RemoveSysctl, RemoveModules,
         RestoreCongestion, Idle
  <2>4. live \in Settings /\ own.qdisc # ""
    <3>1. live \in Settings /\ own \in Settings
      BY <1>1 DEF KernelTypes, TypeOK
    <3>2. QED
      BY <3>1, KernelAssumption DEF Settings
  <2>5. CASE live' = [live EXCEPT !.qdisc = task.previous.qdisc] /\ refused' = refused
    <3>1. live'.qdisc = own.qdisc /\ live'.congestion = live.congestion
      BY <2>1, <2>4, <2>5 DEF Settings
    <3>2. QED
      BY <2>1, <2>5, <3>1
  <2>6. CASE live' = live /\ refused' = refused \cup {"qdisc"}
    BY <2>1, <2>6
  <2>7. QED
    BY <2>1, <2>3, <2>4, <2>5, <2>6 DEF RestoreQdisc
<1>2. Init => KernelTypes /\ UndoInv
  BY KernelTypesInit, UndoInit
<1>3. KernelTypes /\ UndoInv /\ [Next]_vars => (KernelTypes /\ UndoInv)'
  BY KernelTypesStep, UndoStep
<1>4. KernelTypes /\ UndoInv /\ [Next]_vars => [PutsBack]_vars
  BY <1>1
<1>5. QED
  BY <1>2, <1>3, <1>4, PTL DEF Spec, ClearUndoes

-----------------------------------------------------------------------------
(***************************************************************************)
(* Lifecycle: what a job is, and what a step of it does to it.             *)
(***************************************************************************)
Places == {"nodes", "accounts", "issue", "pair", "timer", "config", "apply",
           "deployed", "firewall", "service"}
ProvisionJob ==
    [kind : {"provision"}, step : Nat \ {0}, doc : Documents, first : BOOLEAN,
     stopped : BOOLEAN, sub : Nat, at : Places]
UninstallJob == [kind : {"uninstall"}, at : {"step"}, step : 1..Len(UninstallSteps)]
UpdateJob ==
    [kind : {"update"}, step : Nat \ {0}, was : 0..Unread, is : 0..Unread,
     at : {"remote", "before", "install", "after"}]

JobIs ==
    job = NoJob \/ job \in ProvisionJob \/ job \in UninstallJob \/ job \in UpdateJob

JobTypes ==
    /\ JobIs
    /\ cfg \in [deployed : BOOLEAN, sub : Nat]
    /\ version \in 0..MaxVersion

\* The steps of the three jobs, and what the others do.
ProvisionStep ==
    \/ ApplyNode \/ LoadAccounts \/ ApplyAccount \/ FreePort
    \/ OrderPair \/ InstallPair \/ IssueFails \/ SetTimer \/ SaveSettings
    \/ ApplyStore \/ ApplyFails \/ SaveDeployed \/ SetRules \/ StartService
UninstallStep ==
    BackUp \/ StashPair \/ RemovePart \/ RemoveFiles \/ RestorePair \/ RemovalFails
UpdateStep == CompareVersions \/ QueryBefore \/ InstallPackage \/ QueryAfter
OtherStep == CycleLoads \/ CycleSaves \/ PanelEdits
StartStep == (\E d \in Documents : Provision(d)) \/ Uninstall \/ Update

\* The actions are those, and no others.
LEMMA LifeSteps ==
    LifeNext <=> \/ StartStep \/ ProvisionStep \/ UninstallStep \/ UpdateStep
                 \/ Killed \/ OtherStep \/ Reinstall
BY DEF LifeNext, Provisioning, Uninstalling, Updating, StartStep, ProvisionStep,
   UninstallStep, UpdateStep, OtherStep

\* The kind of a job tells what it is.
LEMMA JobTells ==
    ASSUME JobIs
    PROVE  /\ job.kind = "provision" => job \in ProvisionJob
           /\ job.kind = "uninstall" => job \in UninstallJob
           /\ job.kind = "update" => job \in UpdateJob
           /\ job.kind = "none" => job = NoJob
           /\ job.kind \in {"none", "provision", "uninstall", "update"}
           /\ NoJob.kind = "none"
<1>1. NoJob.kind = "none"
  BY DEF NoJob
<1>2. job \in ProvisionJob => job.kind = "provision"
  BY DEF ProvisionJob
<1>3. job \in UninstallJob => job.kind = "uninstall"
  BY DEF UninstallJob
<1>4. job \in UpdateJob => job.kind = "update"
  BY DEF UpdateJob
<1>5. QED
  BY <1>1, <1>2, <1>3, <1>4 DEF JobIs

\* A provisioning that goes to another place, or to its next step.
LEMMA ProvisionTo ==
    ASSUME JobIs, job.kind = "provision",
           NEW at \in Places, To(at)
    PROVE  /\ job' \in ProvisionJob /\ job'.kind = "provision" /\ job'.at = at
           /\ job'.step = 1 /\ job'.doc = job.doc /\ job'.first = job.first
           /\ job'.stopped = job.stopped /\ job'.sub = job.sub
<1>1. job \in ProvisionJob
  BY JobTells
<1>2. job' = [job EXCEPT !.at = at, !.step = 1]
  BY DEF To
<1>3. /\ job'.kind = "provision" /\ job'.at = at /\ job'.step = 1
      /\ job'.doc = job.doc /\ job'.first = job.first
      /\ job'.stopped = job.stopped /\ job'.sub = job.sub
  BY <1>1, <1>2 DEF ProvisionJob
<1>4. job' \in ProvisionJob
  <2>1. [job EXCEPT !.at = at] \in ProvisionJob
    BY <1>1 DEF ProvisionJob
  <2>2. job' = [[job EXCEPT !.at = at] EXCEPT !.step = 1]
    BY <1>2
  <2>3. 1 \in Nat \ {0}
    OBVIOUS
  <2>4. QED
    BY <2>1, <2>2, <2>3 DEF ProvisionJob
<1>5. QED
  BY <1>3, <1>4

\* And one that goes on at the same place.
LEMMA ProvisionOnward ==
    ASSUME JobIs, job.kind = "provision", Onward
    PROVE  /\ job' \in ProvisionJob /\ job'.kind = "provision" /\ job'.at = job.at
           /\ job'.step = job.step + 1 /\ job'.doc = job.doc
           /\ job'.first = job.first
<1>1. job \in ProvisionJob
  BY JobTells
<1>2. QED
  BY <1>1 DEF ProvisionJob, Onward

\* Every step of a provisioning leaves a provisioning of the same document,
\* or ends it.
LEMMA ProvisionMoves ==
    ASSUME JobIs, ProvisionStep
    PROVE  /\ job.kind = "provision" /\ JobIs'
           /\ \/ /\ job' \in ProvisionJob /\ job'.kind = "provision"
                 /\ job'.doc = job.doc /\ outcome' = outcome
              \/ job' = NoJob /\ outcome' \in {"error", "provisioned"}
           /\ UNCHANGED <<version, before, others, failed, uncertain, unread, backup>>
<1>1. job.kind = "provision"
  BY DEF ProvisionStep, ApplyNode, LoadAccounts, ApplyAccount, FreePort, OrderPair,
     InstallPair, IssueFails, SetTimer, SaveSettings, ApplyStore, ApplyFails,
     SaveDeployed, SetRules, StartService, Doing
<1>2. job \in ProvisionJob
  BY <1>1, JobTells
<1>3. UNCHANGED <<version, before, others, failed, uncertain, unread, backup>>
  <2>1. CASE ApplyNode \/ ApplyAccount \/ ApplyStore \/ ApplyFails \/ StartService
    BY <2>1 DEF ApplyNode, ApplyAccount, ApplyStore, ApplyFails, StartService, files
  <2>2. CASE \/ LoadAccounts \/ FreePort \/ OrderPair \/ InstallPair
             \/ IssueFails \/ SetTimer
             \/ SaveSettings \/ SaveDeployed \/ SetRules
    BY <2>2 DEF LoadAccounts, FreePort, OrderPair, InstallPair, IssueFails, SetTimer,
       SaveSettings, SaveDeployed, SetRules, files, lifeHistory
  <2>3. QED
    BY <2>1, <2>2 DEF ProvisionStep
<1>4. \/ job' = NoJob /\ outcome' \in {"error", "provisioned"}
      \/ /\ outcome' = outcome
         /\ \/ Onward
            \/ \E at \in Places : To(at)
            \/ job' = [job EXCEPT !.at = "issue", !.stopped = "core" \in parts]
  <2>1. CASE ApplyNode \/ ApplyAccount \/ ApplyStore \/ ApplyFails \/ StartService
    BY <2>1 DEF ApplyNode, ApplyAccount, ApplyStore, ApplyFails, StartService,
       Refused, Ends, Places
  <2>2. CASE \/ LoadAccounts \/ FreePort \/ OrderPair \/ InstallPair
             \/ IssueFails \/ SetTimer
             \/ SaveSettings \/ SaveDeployed \/ SetRules
    BY <2>2 DEF LoadAccounts, FreePort, OrderPair, InstallPair, IssueFails, SetTimer,
       SaveSettings, SaveDeployed, SetRules, Ends, Places
  <2>3. QED
    BY <2>1, <2>2 DEF ProvisionStep
<1>5. ASSUME job' = [job EXCEPT !.at = "issue", !.stopped = "core" \in parts]
      PROVE  job' \in ProvisionJob /\ job'.kind = "provision" /\ job'.doc = job.doc
  <2>1. "issue" \in Places /\ ("core" \in parts) \in BOOLEAN
    BY DEF Places
  <2>2. QED
    BY <1>2, <1>5, <2>1 DEF ProvisionJob
<1>6. \/ job' = NoJob /\ outcome' \in {"error", "provisioned"}
      \/ /\ job' \in ProvisionJob /\ job'.kind = "provision"
         /\ job'.doc = job.doc /\ outcome' = outcome
  BY <1>1, <1>4, <1>5, ProvisionTo, ProvisionOnward
<1>7. QED
  BY <1>1, <1>3, <1>6 DEF JobIs

\* There are fourteen steps of an uninstallation.
LEMMA StepsAre ==
    /\ Len(UninstallSteps) = 14 /\ DOMAIN UninstallSteps = 1..14
    /\ UninstallSteps[1] = "backup" /\ UninstallSteps[2] = "stash"
    /\ UninstallSteps[5] = "sub" /\ UninstallSteps[12] = "files"
    /\ UninstallSteps[14] = "restore"
BY DEF UninstallSteps

\* A step of it is done once: it goes to the next one or ends.
LEMMA RemovingMoves ==
    ASSUME JobIs, NEW step, Removing(step)
    PROVE  /\ job.kind = "uninstall" /\ job.step \in 1..14
           /\ UninstallSteps[job.step] = step
           /\ \/ /\ job.step < 14 /\ job' \in UninstallJob /\ job'.kind = "uninstall"
                 /\ job'.step = job.step + 1
                 /\ outcome' = outcome /\ copy' = copy
              \/ job.step = 14 /\ job' = NoJob /\ outcome' = "removed"
<1>1. job.kind = "uninstall" /\ UninstallSteps[job.step] = step
  BY DEF Removing, Doing
<1>2. job \in UninstallJob
  BY <1>1, JobTells
<1>3. job.step \in 1..14
  BY <1>2, StepsAre DEF UninstallJob
<1>4. CASE job.step < 14
  <2>1. Onward /\ outcome' = outcome /\ copy' = copy
    BY <1>4, StepsAre DEF Removing
  <2>2. job' \in UninstallJob /\ job'.kind = "uninstall" /\ job'.step = job.step + 1
    BY <1>2, <1>3, <1>4, <2>1, StepsAre DEF UninstallJob, Onward
  <2>3. QED
    BY <1>1, <1>3, <1>4, <2>1, <2>2
<1>5. CASE ~(job.step < 14)
  <2>1. job.step = 14 /\ Ends("removed")
    BY <1>3, <1>5, StepsAre DEF Removing
  <2>2. QED
    BY <1>1, <2>1 DEF Ends
<1>6. QED
  BY <1>4, <1>5

\* Which step an action of an uninstallation does.
LEMMA UninstallDoes ==
    ASSUME UninstallStep
    PROVE  \E step : Removing(step)
BY DEF UninstallStep, BackUp, StashPair, RemovePart, RemoveFiles, RestorePair,
   RemovalFails

\* Every step of an uninstallation goes on with it or ends it.
LEMMA UninstallMoves ==
    ASSUME JobIs, UninstallStep
    PROVE  /\ job.kind = "uninstall" /\ JobIs'
           /\ \/ job' \in UninstallJob /\ job'.kind = "uninstall" /\ outcome' = outcome
              \/ job' = NoJob /\ outcome' = "removed"
           /\ UNCHANGED <<version, before, unread, orders, wasted>>
<1>1. PICK step : Removing(step)
  BY UninstallDoes
<1>2. UNCHANGED <<version, before, unread, orders, wasted>>
  BY DEF UninstallStep, BackUp, StashPair, RemovePart, RemoveFiles, RestorePair,
     RemovalFails, lifeHistory
<1>3. QED
  BY <1>1, <1>2, RemovingMoves DEF JobIs

\* A job that starts is alone, and forgets what the last one ended with.
LEMMA StartMoves ==
    ASSUME JobTypes, StartStep
    PROVE  /\ job = NoJob /\ JobIs' /\ outcome' = "none"
           /\ \/ \E d \in Documents : Provision(d) /\ job' \in ProvisionJob
                    /\ job'.kind = "provision" /\ job'.doc = d
                    /\ job'.at = "nodes" /\ job'.step = 1
              \/ Uninstall /\ job' \in UninstallJob /\ job'.kind = "uninstall"
                    /\ job'.step = 1
              \/ Update /\ job' \in UpdateJob /\ job'.kind = "update"
                    /\ job'.at = "remote"
           /\ before'.version = version
           /\ overlap' = FALSE /\ others' = FALSE /\ failed' = {} /\ unread' = FALSE
           /\ UNCHANGED <<files, core, parts, orders, stray, version, cycle,
                          adrift, uncertain, wasted, made, mishaps, edits,
                          cycles>>
<1>1. cfg \in [deployed : BOOLEAN, sub : Nat] /\ MaxVersion \in Nat
  BY BoundsAssumption DEF JobTypes
<1>2. ASSUME NEW d \in Documents, Provision(d)
      PROVE  /\ job = NoJob /\ outcome' = "none" /\ job' \in ProvisionJob
             /\ job'.kind = "provision" /\ job'.doc = d
             /\ job'.at = "nodes" /\ job'.step = 1
             /\ before'.version = version
  <2>1. d.sub \in Nat
    BY DocumentsAssumption
  <2>2. (IF d.sub > 0 THEN d.sub ELSE cfg.sub) \in Nat
    BY <1>1, <2>1
  <2>3. "nodes" \in Places /\ 1 \in Nat \ {0} /\ (~cfg.deployed) \in BOOLEAN
    BY DEF Places
  <2>4. job' = [kind |-> "provision", at |-> "nodes", step |-> 1, doc |-> d,
                first |-> ~cfg.deployed, stopped |-> FALSE,
                sub |-> IF d.sub > 0 THEN d.sub ELSE cfg.sub]
    BY <1>2 DEF Provision, StartJob
  <2>5. job' \in ProvisionJob
    BY <2>2, <2>3, <2>4 DEF ProvisionJob
  <2>6. QED
    BY <1>2, <2>4, <2>5 DEF Provision, StartJob
<1>3. ASSUME Uninstall
      PROVE  /\ job = NoJob /\ outcome' = "none" /\ job' \in UninstallJob
             /\ job'.kind = "uninstall" /\ job'.step = 1
             /\ before'.version = version
  BY <1>3, StepsAre DEF Uninstall, StartJob, UninstallJob, NoBefore
<1>4. ASSUME Update
      PROVE  /\ job = NoJob /\ outcome' = "none" /\ job' \in UpdateJob
             /\ job'.kind = "update" /\ job'.at = "remote"
             /\ before'.version = version
  <2>1. Unread \in 0..Unread /\ 1 \in Nat \ {0}
    BY <1>1 DEF Unread
  <2>2. QED
    BY <1>4, <2>1 DEF Update, StartJob, UpdateJob, NoBefore
<1>5. /\ overlap' = FALSE /\ others' = FALSE /\ failed' = {} /\ unread' = FALSE
      /\ UNCHANGED <<files, core, parts, orders, stray, version, cycle, adrift,
                     uncertain, wasted, made, mishaps, edits, cycles>>
  BY DEF StartStep, Provision, Uninstall, Update, StartJob
<1>6. QED
  BY <1>2, <1>3, <1>4, <1>5 DEF StartStep, JobIs

\* What else happens leaves the job alone.
LEMMA OtherMoves ==
    ASSUME OtherStep
    PROVE  UNCHANGED <<job, copy, outcome, version, before, failed, uncertain,
                       wasted, unread, cfg, document, pair, backup, core, parts,
                       orders, printed, mishaps, adrift>>
BY DEF OtherStep, CycleLoads, CycleSaves, PanelEdits, files, lifeHistory, limits

\* A kill ends the job and leaves the host as it is.
LEMMA KilledMoves ==
    ASSUME Killed
    PROVE  /\ job # NoJob /\ job' = NoJob /\ outcome' = "error"
           /\ UNCHANGED <<files, core, parts, orders, stray, version, before,
                          failed, unread>>
BY DEF Killed, Ends

\* Installing the package again brings the panel back, and nothing else.
LEMMA ReinstallMoves ==
    ASSUME Reinstall
    PROVE  /\ job = NoJob /\ job' = job /\ outcome' = "none"
           /\ parts' = parts \cup {"panel"}
           /\ UNCHANGED <<files, core, orders, stray, version, copy, cycle,
                          lifeHistory, limits>>
BY DEF Reinstall

\* A step of an upgrade: from where to where, and what it learns.
LEMMA UpdateMoves ==
    ASSUME JobTypes, UpdateStep
    PROVE  /\ job \in UpdateJob /\ JobIs' /\ version' \in 0..MaxVersion
           /\ UNCHANGED <<files, core, parts, orders, stray, cycle, before, failed,
                          uncertain, wasted>>
           /\ \/ /\ job.at = "remote" /\ job' = NoJob /\ outcome' = "same"
                 /\ version' = version /\ unread' = unread
              \/ /\ job.at = "remote" /\ job' \in UpdateJob /\ job'.at = "before"
                 /\ outcome' = outcome /\ version' = version /\ unread' = unread
              \/ /\ job.at = "before" /\ job' \in UpdateJob /\ job'.at = "install"
                 /\ outcome' = outcome /\ version' = version
                 /\ \/ job'.was = version /\ unread' = unread
                    \/ job'.was = Unread /\ unread'
              \/ /\ job.at = "install" /\ job' \in UpdateJob /\ job'.at = "after"
                 /\ job'.was = job.was /\ outcome' = outcome /\ unread' = unread
              \/ /\ job.at = "install" /\ job' = NoJob /\ outcome' = "error"
              \/ /\ job.at = "after" /\ job' = NoJob /\ version' = version
                 /\ \E v : /\ outcome' = Compared(job.was, v)
                           /\ \/ v = version /\ unread' = unread
                              \/ v = Unread /\ unread'
<1>1. job.kind = "update" /\ UpdateFrame
  BY DEF UpdateStep, CompareVersions, QueryBefore, InstallPackage, QueryAfter, Doing
<1>2. job \in UpdateJob /\ MaxVersion \in Nat /\ version \in 0..MaxVersion
  BY <1>1, JobTells, BoundsAssumption DEF JobTypes
<1>3. UNCHANGED <<files, core, parts, orders, stray, cycle, before, failed,
                  uncertain, wasted>>
  BY <1>1 DEF UpdateFrame
<1>4. ASSUME NEW at \in {"before", "after"}, To(at)
      PROVE  job' \in UpdateJob /\ job'.at = at /\ job'.was = job.was
  <2>1. job' = [job EXCEPT !.at = at, !.step = 1]
    BY <1>4 DEF To
  <2>2. [job EXCEPT !.at = at] \in UpdateJob
    BY <1>2 DEF UpdateJob
  <2>3. job' = [[job EXCEPT !.at = at] EXCEPT !.step = 1]
    BY <1>2, <2>1
  <2>4. job' \in UpdateJob
    <3>1. 1 \in Nat \ {0}
      OBVIOUS
    <3>2. QED
      BY <2>2, <2>3, <3>1 DEF UpdateJob
  <2>5. QED
    BY <1>2, <2>1, <2>4 DEF UpdateJob
<1>5. CASE CompareVersions
  <2>1. job.at = "remote" /\ version' = version /\ unread' = unread
    BY <1>5 DEF CompareVersions, Doing
  <2>2. \/ job' = NoJob /\ outcome' = "same"
        \/ To("before") /\ outcome' = outcome
    BY <1>5 DEF CompareVersions, Ends
  <2>3. QED
    BY <1>2, <1>3, <1>4, <2>1, <2>2 DEF JobIs
<1>6. CASE QueryBefore
  <2>1. PICK v \in 0..Unread : Query(v) /\ job' = [job EXCEPT !.at = "install", !.was = v]
    BY <1>6 DEF QueryBefore
  <2>2. job.at = "before" /\ version' = version /\ outcome' = outcome
    BY <1>6 DEF QueryBefore, Doing
  <2>3. job' \in UpdateJob /\ job'.at = "install" /\ job'.was = v
    BY <1>2, <2>1 DEF UpdateJob
  <2>4. \/ v = version /\ unread' = unread
        \/ v = Unread /\ unread'
    BY <2>1 DEF Query
  <2>5. QED
    BY <1>2, <1>3, <2>2, <2>3, <2>4 DEF JobIs
<1>7. CASE InstallPackage
  <2>1. job.at = "install" /\ unread' = unread
    BY <1>7 DEF InstallPackage, Doing
  <2>2. \E v \in version..MaxVersion : version' = v
    BY <1>7 DEF InstallPackage
  <2>3. version' \in 0..MaxVersion
    BY <1>2, <2>2
  <2>4. \/ To("after") /\ outcome' = outcome
        \/ job' = NoJob /\ outcome' = "error"
    BY <1>7 DEF InstallPackage, Ends
  <2>5. QED
    BY <1>2, <1>3, <1>4, <2>1, <2>3, <2>4 DEF JobIs
<1>8. CASE QueryAfter
  <2>1. PICK v \in 0..Unread : Query(v) /\ Ends(Compared(job.was, v))
    BY <1>8 DEF QueryAfter
  <2>2. job.at = "after" /\ version' = version
    BY <1>8 DEF QueryAfter, Doing
  <2>3. job' = NoJob /\ outcome' = Compared(job.was, v)
    BY <2>1 DEF Ends
  <2>4. \/ v = version /\ unread' = unread
        \/ v = Unread /\ unread'
    BY <2>1 DEF Query
  <2>5. QED
    BY <1>2, <1>3, <2>2, <2>3, <2>4 DEF JobIs
<1>9. QED
  BY <1>5, <1>6, <1>7, <1>8 DEF UpdateStep

\* The state file keeps its two fields, whoever writes it.
LEMMA CfgStays ==
    ASSUME JobTypes, LifeNext
    PROVE  cfg' \in [deployed : BOOLEAN, sub : Nat]
<1>1. cfg \in [deployed : BOOLEAN, sub : Nat] /\ DefaultSub \in Nat
  BY BoundsAssumption DEF JobTypes
<1>2. CASE StartStep
  BY <1>1, <1>2, StartMoves DEF files
<1>3. CASE ProvisionStep
  <2>1. job \in ProvisionJob
    BY <1>3, ProvisionMoves, JobTells DEF JobTypes
  <2>2. job.sub \in Nat /\ job.first \in BOOLEAN
    BY <2>1 DEF ProvisionJob
  <2>3. CASE SaveSettings \/ SaveDeployed
    <3>1. ASSUME NEW b \in BOOLEAN, cfg' = [sub |-> job.sub, deployed |-> b]
          PROVE  cfg' \in [deployed : BOOLEAN, sub : Nat]
      BY <2>2, <3>1
    <3>2. (~job.first) \in BOOLEAN /\ TRUE \in BOOLEAN
      OBVIOUS
    <3>3. \/ cfg' = [sub |-> job.sub, deployed |-> ~job.first]
          \/ cfg' = [sub |-> job.sub, deployed |-> TRUE]
      BY <2>3 DEF SaveSettings, SaveDeployed
    <3>4. QED
      BY <3>1, <3>2, <3>3, Zenon
  <2>4. CASE ApplyNode \/ ApplyAccount \/ InstallPair \/ ApplyStore \/ ApplyFails
    BY <1>1, <2>4 DEF ApplyNode, ApplyAccount, InstallPair, ApplyStore, ApplyFails
  <2>5. CASE \/ LoadAccounts \/ FreePort \/ OrderPair \/ IssueFails \/ SetTimer
             \/ SetRules \/ StartService
    BY <1>1, <2>5 DEF LoadAccounts, FreePort, OrderPair, IssueFails, SetTimer,
       SetRules, StartService, files
  <2>6. QED
    BY <1>3, <2>3, <2>4, <2>5 DEF ProvisionStep
<1>4. CASE UninstallStep
  <2>1. CASE RemoveFiles
    BY <1>1, <2>1 DEF RemoveFiles, Fresh
  <2>2. CASE BackUp \/ StashPair \/ RemovePart \/ RestorePair \/ RemovalFails
    BY <1>1, <2>2 DEF BackUp, StashPair, RemovePart, RestorePair, RemovalFails, files
  <2>3. QED
    BY <1>4, <2>1, <2>2 DEF UninstallStep
<1>5. CASE UpdateStep
  BY <1>1, <1>5, UpdateMoves DEF files
<1>6. CASE Killed \/ OtherStep \/ Reinstall
  BY <1>1, <1>6, KilledMoves, OtherMoves, ReinstallMoves DEF files
<1>7. QED
  BY <1>2, <1>3, <1>4, <1>5, <1>6, LifeSteps

\* A step keeps the types of the job, the state file and the version.
LEMMA JobTypesStep ==
    ASSUME JobTypes, LifeNext
    PROVE  JobTypes'
<1>1. cfg' \in [deployed : BOOLEAN, sub : Nat]
  BY CfgStays
<1>2. JobIs' /\ version' \in 0..MaxVersion
  <2>0. JobIs /\ version \in 0..MaxVersion
    BY DEF JobTypes
  <2>1. CASE StartStep
    BY <2>0, <2>1, StartMoves
  <2>2. CASE ProvisionStep
    BY <2>0, <2>2, ProvisionMoves
  <2>3. CASE UninstallStep
    BY <2>0, <2>3, UninstallMoves
  <2>4. CASE UpdateStep
    BY <2>4, UpdateMoves
  <2>5. CASE Killed \/ OtherStep \/ Reinstall
    BY <2>0, <2>5, KilledMoves, OtherMoves, ReinstallMoves DEF JobIs
  <2>6. QED
    BY <2>1, <2>2, <2>3, <2>4, <2>5, LifeSteps
<1>3. QED
  BY <1>1, <1>2 DEF JobTypes

\* Of the first state and of a step that changes nothing.
LEMMA JobTypesInit ==
    LifeInit => JobTypes
<1>1. MaxVersion \in Nat /\ DefaultSub \in Nat
  BY BoundsAssumption
<1>2. QED
  BY <1>1 DEF LifeInit, JobTypes, JobIs, Fresh

\* And of a step that changes nothing.
LEMMA JobTypesSame ==
    JobTypes /\ UNCHANGED lifeVars => JobTypes'
BY DEF JobTypes, JobIs, lifeVars, files

\* The types of the job hold in every behaviour.
LEMMA JobsTyped ==
    LifeSpec => []JobTypes
<1>1. JobTypes /\ [LifeNext]_lifeVars => JobTypes'
  BY JobTypesStep, JobTypesSame
<1>2. QED
  BY JobTypesInit, <1>1, PTL DEF LifeSpec

-----------------------------------------------------------------------------
(***************************************************************************)
(* Upgrades.  Until the package is installed its version is the one the    *)
(* upgrade found, and from there on the upgrade holds that version, or it  *)
(* could not read it.                                                      *)
(***************************************************************************)
Told ==
    /\ job # NoJob => outcome = "none"
    /\ job.kind = "update" =>
        /\ job.at \in {"remote", "before", "install"} => version = before.version
        /\ job.at = "install" => job.was = version \/ (job.was = Unread /\ unread)
        /\ job.at = "after" =>
              job.was = before.version \/ (job.was = Unread /\ unread)
    /\ UpdateIsTold

\* An upgrade keeps it.
LEMMA ToldOfUpdates ==
    ASSUME JobTypes, Told, UpdateStep
    PROVE  Told'
<1>1. job \in UpdateJob /\ before' = before /\ version \in 0..MaxVersion
  BY UpdateMoves DEF JobTypes
<1>2. job # NoJob /\ job.kind = "update" /\ outcome = "none"
  BY <1>1, JobTells DEF Told, UpdateJob, JobTypes
<1>3. version # Unread
  BY <1>1, BoundsAssumption DEF Unread
<1>4. CASE /\ job.at = "remote" /\ job' = NoJob /\ outcome' = "same"
           /\ version' = version /\ unread' = unread
  BY <1>1, <1>2, <1>4, JobTells DEF Told, UpdateIsTold, JobTypes
<1>5. CASE /\ job.at = "remote" /\ job' \in UpdateJob /\ job'.at = "before"
           /\ outcome' = outcome /\ version' = version /\ unread' = unread
  BY <1>1, <1>2, <1>5 DEF Told, UpdateIsTold
<1>6. CASE /\ job.at = "before" /\ job' \in UpdateJob /\ job'.at = "install"
           /\ outcome' = outcome /\ version' = version
           /\ \/ job'.was = version /\ unread' = unread
              \/ job'.was = Unread /\ unread'
  BY <1>1, <1>2, <1>6 DEF Told, UpdateIsTold, Unread
<1>7. CASE /\ job.at = "install" /\ job' \in UpdateJob /\ job'.at = "after"
           /\ job'.was = job.was /\ outcome' = outcome /\ unread' = unread
  BY <1>1, <1>2, <1>7 DEF Told, UpdateIsTold, Unread
<1>8. CASE job.at = "install" /\ job' = NoJob /\ outcome' = "error"
  BY <1>1, <1>2, <1>8, JobTells DEF Told, UpdateIsTold, JobTypes
<1>9. CASE /\ job.at = "after" /\ job' = NoJob /\ version' = version
           /\ \E v : /\ outcome' = Compared(job.was, v)
                     /\ \/ v = version /\ unread' = unread
                        \/ v = Unread /\ unread'
  <2>1. PICK v : /\ outcome' = Compared(job.was, v)
                 /\ \/ v = version /\ unread' = unread
                    \/ v = Unread /\ unread'
    BY <1>9
  <2>2. job.was = before.version \/ (job.was = Unread /\ unread)
    BY <1>2, <1>9 DEF Told
  <2>3. CASE outcome' = "same"
    <3>1. v # Unread /\ v = job.was
      BY <2>1, <2>3 DEF Compared
    <3>2. QED
      BY <1>1, <1>9, <2>1, <2>2, <2>3, <3>1, JobTells
         DEF Told, UpdateIsTold, JobTypes
  <2>4. CASE outcome' = "updated"
    <3>1. v = Unread \/ v # job.was
      BY <2>1, <2>4 DEF Compared
    <3>2. version # before.version \/ unread'
      BY <1>3, <2>1, <2>2, <3>1
    <3>3. QED
      BY <1>1, <1>9, <2>4, <3>2, JobTells DEF Told, UpdateIsTold, JobTypes
  <2>5. outcome' \in {"same", "updated"}
    BY <2>1 DEF Compared
  <2>6. QED
    BY <2>3, <2>4, <2>5
<1>10. QED
  BY <1>4, <1>5, <1>6, <1>7, <1>8, <1>9, UpdateMoves

\* So does every other step.
LEMMA ToldStep ==
    ASSUME JobTypes, Told, LifeNext
    PROVE  Told'
<1>0. JobIs
  BY DEF JobTypes
<1>1. CASE StartStep
  <2>1. outcome' = "none" /\ before'.version = version /\ version' = version
    BY <1>1, StartMoves
  <2>2. job'.kind = "update" => job'.at = "remote"
    BY <1>1, StartMoves
  <2>3. QED
    BY <2>1, <2>2 DEF Told, UpdateIsTold
<1>2. CASE ProvisionStep
  <2>1. /\ version' = version /\ before' = before /\ unread' = unread
        /\ \/ job' # NoJob /\ job'.kind = "provision" /\ outcome' = outcome
           \/ job' = NoJob /\ outcome' \in {"error", "provisioned"}
    BY <1>0, <1>2, ProvisionMoves DEF ProvisionJob, NoJob
  <2>2. job # NoJob
    BY <1>0, <1>2, ProvisionMoves, JobTells
  <2>3. QED
    BY <2>1, <2>2, JobTells, <1>0 DEF Told, UpdateIsTold
<1>3. CASE UninstallStep
  <2>1. /\ version' = version /\ before' = before /\ unread' = unread
        /\ \/ job' # NoJob /\ job'.kind = "uninstall" /\ outcome' = outcome
           \/ job' = NoJob /\ outcome' = "removed"
    BY <1>0, <1>3, UninstallMoves DEF UninstallJob, NoJob
  <2>2. job # NoJob
    BY <1>0, <1>3, UninstallMoves, JobTells
  <2>3. QED
    BY <2>1, <2>2, JobTells, <1>0 DEF Told, UpdateIsTold
<1>4. CASE UpdateStep
  BY <1>4, ToldOfUpdates
<1>5. CASE Killed
  BY <1>0, <1>5, KilledMoves, JobTells DEF Told, UpdateIsTold
<1>6. CASE OtherStep
  BY <1>6, OtherMoves DEF Told, UpdateIsTold
<1>7. CASE Reinstall
  BY <1>0, <1>7, ReinstallMoves, JobTells DEF Told, UpdateIsTold, lifeHistory
<1>8. QED
  BY <1>1, <1>2, <1>3, <1>4, <1>5, <1>6, <1>7, LifeSteps

(* The upgrade says it changed the package only when it did, or when it    *)
(* could not read a version, and never that nothing changed when it did    *)
(* (update.Apply): at any number of published versions, and whoever edits  *)
(* the stores meanwhile.                                                   *)
THEOREM UpdatesAreTold ==
    LifeSpec => []UpdateIsTold
<1>1. LifeInit => Told
  BY JobTells, JobTypesInit DEF LifeInit, Told, UpdateIsTold, JobTypes
<1>2. JobTypes /\ Told /\ [LifeNext]_lifeVars => Told'
  <2>1. Told /\ UNCHANGED lifeVars => Told'
    BY DEF Told, UpdateIsTold, lifeVars, lifeHistory
  <2>2. QED
    BY <2>1, ToldStep
<1>3. Told => UpdateIsTold
  BY DEF Told
<1>4. QED
  BY <1>1, <1>2, <1>3, JobsTyped, PTL DEF LifeSpec

-----------------------------------------------------------------------------
(***************************************************************************)
(* The certificate.  An uninstallation that still finds it in place past   *)
(* the stash has had a step fail, and two when there is no archive either; *)
(* a certificate that is aside belongs to an uninstallation that runs, or  *)
(* was left there.                                                         *)
(***************************************************************************)
PairTypes ==
    /\ orders \in Nat /\ wasted \in Nat /\ mishaps \in Nat
    /\ pair \in {"none", "work", "stash", "lost"}

Reached ==
    job.kind = "uninstall" /\ pair = "work" =>
        /\ job.step > 1 => backup \/ mishaps > 0
        /\ job.step > 2 => mishaps > 0 /\ (backup \/ mishaps > 1)

\* An order is spent and its certificate not installed yet.
Ordering == Doing("provision", "pair")
Underway == IF Ordering THEN 1 ELSE 0

Pairs ==
    /\ PairTypes
    /\ pair = "none" => orders <= wasted + Underway
    /\ orders > 1 + wasted => uncertain
    /\ Ordering => pair # "work"
    /\ pair = "lost" => uncertain /\ (backup \/ mishaps > 1)
    /\ pair = "stash" => uncertain \/ job.kind = "uninstall"
    /\ Reached

\* Where in the sequence the steps that concern the certificate are.
LEMMA PairSteps ==
    ASSUME NEW i \in 1..14
    PROVE  /\ UninstallSteps[i] = "backup" => i = 1
           /\ UninstallSteps[i] = "stash" => i = 2
           /\ UninstallSteps[i] = "files" => i = 12
           /\ UninstallSteps[i] = "restore" => i = 14
           /\ UninstallSteps[i] \in LifeParts => i > 2 /\ i < 14
<1>1. i \in {1, 2, 3, 4, 5, 6, 7, 8, 9, 10, 11, 12, 13, 14}
  OBVIOUS
<1>2. CASE i \in {1, 2, 12, 14}
  BY <1>2, StepsAre DEF LifeParts
<1>3. CASE i \in {3, 4, 5, 6}
  <2>1. /\ UninstallSteps[3] = "core"
        /\ UninstallSteps[4] = "core boot"
        /\ UninstallSteps[5] = "sub"
        /\ UninstallSteps[6] = "sub boot"
    BY DEF UninstallSteps
  <2>2. i > 2 /\ i < 14
    BY <1>3
  <2>3. UninstallSteps[i] \in {"core", "core boot", "sub", "sub boot"}
    BY <1>3, <2>1
  <2>4. QED
    BY <2>2, <2>3
<1>4. CASE i \in {7, 8, 9}
  <2>1. /\ UninstallSteps[7] = "rules"
        /\ UninstallSteps[8] = "rules boot"
        /\ UninstallSteps[9] = "rules unit"
    BY DEF UninstallSteps
  <2>2. i > 2 /\ i < 14
    BY <1>4
  <2>3. UninstallSteps[i] \in {"rules", "rules boot", "rules unit"}
    BY <1>4, <2>1
  <2>4. QED
    BY <2>2, <2>3
<1>5. CASE i \in {10, 11, 13}
  <2>1. /\ UninstallSteps[10] = "core unit"
        /\ UninstallSteps[11] = "sub unit"
        /\ UninstallSteps[13] = "panel"
    BY DEF UninstallSteps
  <2>2. i > 2 /\ i < 14
    BY <1>5
  <2>3. UninstallSteps[i] \in {"core unit", "sub unit", "panel"}
    BY <1>5, <2>1
  <2>4. QED
    BY <2>2, <2>3
<1>6. QED
  BY <1>1, <1>2, <1>3, <1>4, <1>5

\* A step that touches neither the certificate nor the stage of an
\* uninstallation keeps it; failures only add up.
LEMMA PairsKept ==
    ASSUME JobIs, JobIs', Pairs,
           pair' = pair, backup' = backup, orders' = orders,
           wasted' \in {wasted, wasted + 1},
           wasted' + Underway' = wasted + Underway,
           Ordering' => Ordering,
           mishaps' \in {mishaps, mishaps + 1}, uncertain => uncertain',
           job'.kind = "uninstall" =>
              job'.step = 1 \/ (job.kind = "uninstall" /\ job'.step = job.step),
           pair = "stash" => uncertain' \/ job'.kind = "uninstall"
    PROVE  Pairs'
<1>0. Underway \in {0, 1} /\ Underway' \in {0, 1}
  BY DEF Underway
<1>1. /\ mishaps \in Nat /\ mishaps' \in Nat /\ mishaps' >= mishaps
      /\ PairTypes' /\ wasted' + Underway' = wasted + Underway
  <2>1. PairTypes
    BY DEF Pairs
  <2>2. wasted \in Nat /\ mishaps \in Nat
    BY <2>1 DEF PairTypes
  <2>3. wasted' \in Nat
    BY <2>2
  <2>4. mishaps' \in Nat /\ mishaps' >= mishaps
    BY <2>2
  <2>5. QED
    BY <2>1, <2>2, <2>3, <2>4 DEF PairTypes
<1>2. backup \/ mishaps > 1 => backup' \/ mishaps' > 1
  BY <1>1
<1>3. Reached'
  BY <1>1, <1>2 DEF Pairs, Reached
<1>4. pair = "none" => orders' <= wasted' + Underway'
  BY <1>1 DEF Pairs
<1>5. orders' > 1 + wasted' => uncertain'
  <2>1. wasted \in Nat /\ orders \in Nat /\ (orders > 1 + wasted => uncertain)
    BY DEF Pairs, PairTypes
  <2>2. orders > 1 + wasted' => orders > 1 + wasted
    <3>1. CASE wasted' = wasted
      BY <3>1
    <3>2. CASE wasted' = wasted + 1
      BY <2>1, <3>2
    <3>3. QED
      BY <3>1, <3>2
  <2>3. QED
    BY <2>1, <2>2
<1>6. QED
  BY <1>1, <1>2, <1>3, <1>4, <1>5 DEF Pairs

\* Provisioning orders one when there is none that is valid, and the only
\* one there can have been by then is one that was left aside or lost.
LEMMA PairsOfProvisions ==
    ASSUME JobTypes, Pairs, ProvisionStep
    PROVE  Pairs'
<1>1. /\ JobIs /\ JobIs' /\ job.kind = "provision" /\ job'.kind # "uninstall"
      /\ uncertain' = uncertain /\ backup' = backup
  <2>1. JobIs
    BY DEF JobTypes
  <2>2. QED
    BY <2>1, ProvisionMoves, JobTells
<1>2. wasted \in Nat /\ orders \in Nat /\ Underway \in {0, 1} /\ PairTypes
  BY DEF Pairs, PairTypes, Underway
<1>3. CASE OrderPair /\ Due
  <2>1. pair' = pair /\ mishaps' = mishaps /\ wasted' = wasted
        /\ orders' = orders + 1 /\ pair # "work"
    BY <1>3 DEF OrderPair, Due, files, limits, lifeHistory
  <2>2. ~Ordering
    BY <1>3 DEF OrderPair, Ordering, Doing
  <2>3. Ordering'
    <3>1. To("pair") /\ "pair" \in Places
      BY <1>3 DEF OrderPair, Places
    <3>2. QED
      BY <1>1, <3>1, ProvisionTo DEF Ordering, Doing
  <2>4. Underway = 0 /\ Underway' = 1
    BY <2>2, <2>3 DEF Underway
  <2>5. PairTypes'
    BY <1>2, <2>1 DEF PairTypes
  <2>6. pair = "none" => orders <= wasted
    BY <1>2, <2>4 DEF Pairs
  <2>7. orders' > 1 + wasted' => uncertain'
    <3>1. pair = "none" => ~(orders' > 1 + wasted')
      BY <1>2, <2>1, <2>6
    <3>2. pair # "none" => uncertain
      BY <1>1, <2>1 DEF Pairs, PairTypes
    <3>3. QED
      BY <1>1, <3>1, <3>2
  <2>8. QED
    BY <1>1, <1>2, <2>1, <2>4, <2>5, <2>6, <2>7 DEF Pairs, Reached
<1>4. CASE InstallPair
  <2>1. pair' = "work" /\ mishaps' = mishaps /\ wasted' = wasted
        /\ orders' = orders
    BY <1>4 DEF InstallPair, limits, lifeHistory
  <2>2. ~Ordering'
    <3>1. To("timer") /\ "timer" \in Places
      BY <1>4 DEF InstallPair, Places
    <3>2. QED
      BY <1>1, <3>1, ProvisionTo DEF Ordering, Doing
  <2>3. PairTypes'
    BY <1>2, <2>1 DEF PairTypes
  <2>4. QED
    BY <1>1, <2>1, <2>2, <2>3 DEF Pairs, Reached
<1>5. CASE ~(OrderPair /\ Due) /\ ~InstallPair
  <2>1. /\ pair' = pair /\ orders' = orders /\ mishaps' \in {mishaps, mishaps + 1}
        /\ ~Ordering'
        /\ wasted' = IF Ordering THEN wasted + 1 ELSE wasted
    <3>1. CASE OrderPair
      <4>1. pair' = pair /\ orders' = orders /\ mishaps' = mishaps
            /\ wasted' = wasted
        BY <1>5, <3>1 DEF OrderPair, files, limits, lifeHistory
      <4>2. ~Ordering /\ To("timer") /\ "timer" \in Places
        BY <1>5, <3>1 DEF OrderPair, Ordering, Doing, Places
      <4>3. ~Ordering'
        BY <1>1, <4>2, ProvisionTo DEF Ordering, Doing
      <4>4. QED
        BY <4>1, <4>2, <4>3
    <3>2. CASE IssueFails
      <4>1. pair' = pair /\ orders' = orders /\ mishaps' = mishaps + 1
        BY <3>2 DEF IssueFails, files, Mishap
      <4>2. ~Ordering'
        <5>1. job' = NoJob
          BY <3>2 DEF IssueFails, Ends
        <5>2. QED
          BY <1>1, <5>1, JobTells DEF Ordering, Doing
      <4>3. wasted' = IF Ordering THEN wasted + 1 ELSE wasted
        BY <3>2 DEF IssueFails, Ordering, Doing
      <4>4. QED
        BY <4>1, <4>2, <4>3
    <3>3. CASE ApplyNode \/ ApplyAccount
      <4>1. pair' = pair /\ orders' = orders /\ mishaps' = mishaps
            /\ wasted' = wasted
        BY <3>3 DEF ApplyNode, ApplyAccount
      <4>2. job.at \in {"nodes", "accounts"} /\ (Onward \/ job' = NoJob)
        BY <3>3 DEF ApplyNode, ApplyAccount, Refused, Ends, Doing
      <4>3. ~Ordering /\ ~Ordering'
        BY <1>1, <4>2, ProvisionOnward, JobTells DEF Ordering, Doing
      <4>4. QED
        BY <4>1, <4>3
    <3>4. CASE ApplyStore \/ ApplyFails
      <4>1. pair' = pair /\ orders' = orders /\ mishaps' \in {mishaps, mishaps + 1}
            /\ wasted' = wasted
        BY <3>4 DEF ApplyStore, ApplyFails, limits, Mishap
      <4>2. job.at = "apply" /\ (To("deployed") \/ job' = NoJob)
        BY <3>4 DEF ApplyStore, ApplyFails, Ends, Doing
      <4>3. "deployed" \in Places
        BY DEF Places
      <4>4. ~Ordering /\ ~Ordering'
        BY <1>1, <4>2, <4>3, ProvisionTo, JobTells DEF Ordering, Doing
      <4>5. QED
        BY <4>1, <4>4
    <3>5. CASE SaveSettings \/ SaveDeployed \/ LoadAccounts \/ SetTimer \/ SetRules
      <4>1. pair' = pair /\ orders' = orders /\ wasted' = wasted
        BY <3>5 DEF SaveSettings, SaveDeployed, LoadAccounts, SetTimer, SetRules,
           files, lifeHistory
      <4>2. mishaps' \in {mishaps, mishaps + 1}
        BY <3>5 DEF SaveSettings, SaveDeployed, LoadAccounts, SetTimer, SetRules,
           limits, Mishap
      <4>3. job.at # "pair"
            /\ \E at \in Places \ {"pair"} : To(at)
        BY <3>5 DEF SaveSettings, SaveDeployed, LoadAccounts, SetTimer, SetRules,
           Doing, Places
      <4>4. ~Ordering /\ ~Ordering'
        BY <1>1, <4>3, ProvisionTo DEF Ordering, Doing
      <4>5. QED
        BY <4>1, <4>2, <4>4
    <3>6. CASE FreePort
      <4>1. pair' = pair /\ orders' = orders /\ mishaps' = mishaps
            /\ wasted' = wasted /\ job.at = "accounts"
        BY <3>6 DEF FreePort, files, limits, lifeHistory, Doing
      <4>2. job'.at # "pair"
        <5>1. \/ job' = [job EXCEPT !.at = "issue", !.stopped = "core" \in parts]
              \/ To("config")
          BY <3>6 DEF FreePort
        <5>2. job \in ProvisionJob /\ "config" \in Places
          BY <1>1, JobTells DEF Places
        <5>3. QED
          BY <1>1, <5>1, <5>2, ProvisionTo DEF ProvisionJob
      <4>3. QED
        BY <4>1, <4>2 DEF Ordering, Doing
    <3>7. CASE StartService
      <4>1. pair' = pair /\ orders' = orders /\ wasted' = wasted
            /\ job.at = "service" /\ job' = NoJob
        BY <3>7 DEF StartService, files, Ends, Doing
      <4>2. mishaps' \in {mishaps, mishaps + 1}
        BY <3>7 DEF StartService, Mishap
      <4>3. ~Ordering /\ ~Ordering'
        BY <1>1, <4>1, JobTells DEF Ordering, Doing
      <4>4. QED
        BY <4>1, <4>2, <4>3
    <3>8. QED
      BY <1>5, <3>1, <3>2, <3>3, <3>4, <3>5, <3>6, <3>7 DEF ProvisionStep
  <2>2. /\ wasted' \in {wasted, wasted + 1}
        /\ wasted' + Underway' = wasted + Underway
    BY <1>2, <2>1 DEF Underway
  <2>3. pair = "stash" => uncertain'
    BY <1>1 DEF Pairs
  <2>4. QED
    BY <1>1, <2>1, <2>2, <2>3, PairsKept
<1>6. QED
  BY <1>3, <1>4, <1>5

\* An uninstallation stashes it, and puts it back when it is done.
LEMMA PairsOfUninstalls ==
    ASSUME JobTypes, Pairs, UninstallStep
    PROVE  Pairs'
<1>1. /\ JobIs /\ JobIs' /\ orders' = orders /\ wasted' = wasted /\ PairTypes
      /\ job.kind = "uninstall" /\ Underway = 0 /\ Underway' = 0 /\ ~Ordering'
  <2>1. /\ JobIs /\ JobIs' /\ orders' = orders /\ wasted' = wasted /\ PairTypes
        /\ job.kind = "uninstall"
        /\ job'.kind = "uninstall" \/ job' = NoJob
    BY UninstallMoves DEF JobTypes, Pairs
  <2>2. job'.kind # "provision" /\ job.kind # "provision"
    BY <2>1, JobTells
  <2>3. QED
    BY <2>1, <2>2 DEF Underway, Ordering, Doing
<1>2. PICK step : Removing(step)
  BY UninstallDoes
<1>3. job'.kind = "uninstall" => job.step < 14 /\ job'.step = job.step + 1
  BY <1>1, <1>2, RemovingMoves, JobTells
<1>4. job'.kind # "uninstall" => job.step = 14
  BY <1>1, <1>2, RemovingMoves, JobTells
<1>5. job.step \in 1..14
  BY <1>1, <1>2, RemovingMoves
<1>6. CASE BackUp
  <2>1. Removing("backup") /\ backup' = (backup \/ pair = "work")
        /\ pair' = pair /\ uncertain' = uncertain /\ mishaps' = mishaps
    BY <1>6 DEF BackUp, lifeHistory, limits
  <2>2. job.step = 1 /\ job'.kind = "uninstall" /\ job'.step = 2
    BY <1>1, <1>3, <1>4, <2>1, RemovingMoves, PairSteps
  <2>3. PairTypes'
    BY <1>1, <2>1 DEF PairTypes
  <2>4. (backup => backup') /\ (pair = "work" => backup')
    BY <2>1
  <2>5. Reached'
    BY <2>1, <2>2, <2>4 DEF Reached
  <2>6. QED
    BY <1>1, <2>1, <2>2, <2>3, <2>4, <2>5 DEF Pairs
<1>7. CASE StashPair
  <2>1. /\ Removing("stash") /\ pair' = (IF pair = "work" THEN "stash" ELSE pair)
        /\ backup' = backup /\ uncertain' = uncertain /\ mishaps' = mishaps
    BY <1>7 DEF StashPair, lifeHistory, limits
  <2>2. job.step = 2 /\ job'.kind = "uninstall"
    BY <1>1, <1>4, <2>1, RemovingMoves, PairSteps
  <2>3. PairTypes' /\ pair' # "work"
    BY <1>1, <2>1 DEF PairTypes
  <2>4. Reached'
    BY <2>3 DEF Reached
  <2>5. QED
    BY <1>1, <2>1, <2>2, <2>3, <2>4 DEF Pairs
<1>8. CASE RemovePart
  <2>1. PICK part \in LifeParts : Removing(part)
    BY <1>8 DEF RemovePart
  <2>2. /\ pair' = pair /\ backup' = backup /\ uncertain' = uncertain
        /\ mishaps' = mishaps
    BY <1>8 DEF RemovePart, files, lifeHistory, limits
  <2>3. job.step > 2 /\ job.step < 14
    BY <1>1, <2>1, RemovingMoves, PairSteps
  <2>4. job'.kind = "uninstall" /\ PairTypes'
    BY <1>1, <1>4, <2>2, <2>3 DEF PairTypes
  <2>5. Reached'
    BY <1>1, <2>2, <2>3 DEF Pairs, Reached
  <2>6. QED
    BY <1>1, <2>2, <2>4, <2>5 DEF Pairs
<1>9. CASE RemoveFiles
  <2>1. /\ Removing("files") /\ pair' = (IF pair = "work" THEN "lost" ELSE pair)
        /\ backup' = backup /\ uncertain' = (uncertain \/ pair = "work")
        /\ mishaps' = mishaps
    BY <1>9 DEF RemoveFiles, limits
  <2>2. job.step = 12 /\ job'.kind = "uninstall"
    BY <1>1, <1>4, <2>1, RemovingMoves, PairSteps
  <2>3. PairTypes' /\ pair' # "work"
    BY <1>1, <2>1 DEF PairTypes
  <2>4. Reached'
    BY <2>3 DEF Reached
  <2>5. pair = "work" => mishaps > 0 /\ (backup \/ mishaps > 1)
    BY <1>1, <2>2 DEF Pairs, Reached
  <2>6. (uncertain => uncertain') /\ (pair = "work" => uncertain')
    BY <2>1
  <2>7. CASE pair = "work"
    BY <1>1, <2>1, <2>2, <2>3, <2>4, <2>5, <2>6, <2>7 DEF Pairs
  <2>8. CASE pair # "work"
    BY <1>1, <2>1, <2>2, <2>3, <2>4, <2>6, <2>8 DEF Pairs
  <2>9. QED
    BY <2>7, <2>8
<1>10. CASE RestorePair
  <2>1. /\ Removing("restore") /\ pair' = (IF pair = "stash" THEN "work" ELSE pair)
        /\ backup' = backup /\ uncertain' = uncertain /\ mishaps' = mishaps
    BY <1>10 DEF RestorePair, lifeHistory, limits
  <2>2. job.step = 14 /\ job'.kind # "uninstall"
    BY <1>1, <1>3, <2>1, RemovingMoves, PairSteps
  <2>3. PairTypes' /\ pair' # "stash"
    BY <1>1, <2>1 DEF PairTypes
  <2>4. Reached'
    BY <2>2 DEF Reached
  <2>5. QED
    BY <1>1, <2>1, <2>3, <2>4 DEF Pairs
<1>11. CASE RemovalFails
  <2>1. PICK fails : /\ Removing(fails)
                     /\ uncertain' = (uncertain \/ (fails = "restore" /\ pair = "stash"))
    BY <1>11 DEF RemovalFails
  <2>2. pair' = pair /\ backup' = backup /\ mishaps' = mishaps + 1
    BY <1>11 DEF RemovalFails, Mishap, files
  <2>3. PairTypes' /\ mishaps' > 0 /\ (mishaps > 0 => mishaps' > 1)
    BY <1>1, <2>2 DEF PairTypes
  <2>4. uncertain => uncertain'
    BY <2>1
  <2>5. Reached'
    <3>1. SUFFICES ASSUME job'.kind = "uninstall", pair = "work"
                   PROVE  /\ job'.step > 1 => backup' \/ mishaps' > 0
                          /\ job'.step > 2 =>
                                mishaps' > 0 /\ (backup' \/ mishaps' > 1)
      BY <2>2 DEF Reached
    <3>2. job'.step > 2 => job.step > 1
      BY <1>3, <1>5, <3>1
    <3>3. job.step > 1 => backup \/ mishaps > 0
      BY <1>1, <3>1 DEF Pairs, Reached
    <3>4. QED
      BY <2>2, <2>3, <3>2, <3>3
  <2>6. pair' = "stash" => uncertain' \/ job'.kind = "uninstall"
    <3>1. SUFFICES ASSUME pair = "stash", job'.kind # "uninstall"
                   PROVE  uncertain'
      BY <2>2
    <3>2. fails = "restore"
      BY <1>1, <1>4, <2>1, <3>1, RemovingMoves, StepsAre
    <3>3. QED
      BY <2>1, <3>1, <3>2
  <2>7. mishaps > 1 => mishaps' > 1
    BY <1>1, <2>2 DEF PairTypes
  <2>8. QED
    BY <1>1, <2>2, <2>3, <2>4, <2>5, <2>6, <2>7 DEF Pairs
<1>12. QED
  BY <1>6, <1>7, <1>8, <1>9, <1>10, <1>11 DEF UninstallStep

\* So does every other step.
LEMMA PairsStep ==
    ASSUME JobTypes, Pairs, LifeNext
    PROVE  Pairs'
<1>0. /\ JobIs /\ JobIs' /\ wasted \in Nat /\ mishaps \in Nat
      /\ Underway = (IF Ordering THEN 1 ELSE 0)
      /\ Underway' = (IF Ordering' THEN 1 ELSE 0)
  BY JobTypesStep DEF JobTypes, Pairs, PairTypes, Underway
<1>1. CASE StartStep
  <2>1. /\ job = NoJob /\ pair' = pair /\ backup' = backup /\ orders' = orders
        /\ mishaps' = mishaps /\ uncertain' = uncertain /\ wasted' = wasted
    BY <1>1, StartMoves DEF files
  <2>5. ~Ordering /\ ~Ordering'
    <3>1. job.kind # "provision"
      BY <1>0, <2>1, JobTells
    <3>2. job'.kind # "provision" \/ job'.at = "nodes"
      BY <1>1, StartMoves
    <3>3. QED
      BY <3>1, <3>2 DEF Ordering, Doing
  <2>2. job'.kind = "uninstall" => job'.step = 1
    BY <1>1, StartMoves DEF UninstallJob, UpdateJob, ProvisionJob
  <2>3. pair = "stash" => uncertain
    BY <2>1, JobTells, <1>0 DEF Pairs
  <2>4. QED
    BY <1>0, <2>1, <2>2, <2>3, <2>5, PairsKept
<1>2. CASE ProvisionStep
  BY <1>2, PairsOfProvisions
<1>3. CASE UninstallStep
  BY <1>3, PairsOfUninstalls
<1>4. CASE UpdateStep
  <2>1. /\ job \in UpdateJob /\ pair' = pair /\ backup' = backup
        /\ orders' = orders /\ uncertain' = uncertain /\ wasted' = wasted
        /\ (job' \in UpdateJob \/ job' = NoJob)
    BY <1>4, UpdateMoves DEF files
  <2>2. /\ job.kind # "uninstall" /\ job'.kind # "uninstall"
        /\ ~Ordering /\ ~Ordering'
    BY <2>1, JobTells, <1>0 DEF UpdateJob, Ordering, Doing
  <2>3. mishaps' \in {mishaps, mishaps + 1}
    BY <1>4 DEF UpdateStep, CompareVersions, QueryBefore, InstallPackage, QueryAfter,
       Query, Mishap
  <2>4. pair = "stash" => uncertain
    BY <2>2 DEF Pairs
  <2>5. QED
    BY <1>0, <2>1, <2>2, <2>3, <2>4, PairsKept
<1>5. CASE Killed
  <2>1. /\ pair' = pair /\ backup' = backup /\ orders' = orders
        /\ mishaps' = mishaps + 1 /\ uncertain' = (uncertain \/ pair = "stash")
        /\ wasted' = (IF Ordering THEN wasted + 1 ELSE wasted)
    BY <1>5 DEF Killed, Mishap, files, Ordering
  <2>2. job'.kind # "uninstall" /\ ~Ordering'
    BY <1>0, <1>5, KilledMoves, JobTells DEF Ordering, Doing
  <2>3. (uncertain => uncertain') /\ (pair = "stash" => uncertain')
    BY <2>1
  <2>4. QED
    BY <1>0, <2>1, <2>2, <2>3, PairsKept
<1>6. CASE OtherStep
  <2>1. /\ pair' = pair /\ backup' = backup /\ orders' = orders /\ wasted' = wasted
        /\ mishaps' = mishaps /\ uncertain' = uncertain /\ job' = job
    BY <1>6, OtherMoves
  <2>2. Ordering' <=> Ordering
    BY <2>1 DEF Ordering, Doing
  <2>3. QED
    BY <1>0, <2>1, <2>2, PairsKept DEF Pairs
<1>7. CASE Reinstall
  <2>1. /\ pair' = pair /\ backup' = backup /\ orders' = orders
        /\ mishaps' = mishaps /\ uncertain' = uncertain /\ job' = job
        /\ wasted' = wasted
    BY <1>7, ReinstallMoves DEF files, lifeHistory, limits
  <2>2. Ordering' <=> Ordering
    BY <2>1 DEF Ordering, Doing
  <2>3. QED
    BY <1>0, <2>1, <2>2, PairsKept DEF Pairs
<1>8. QED
  BY <1>1, <1>2, <1>3, <1>4, <1>5, <1>6, <1>7, LifeSteps

(* The certificate outlives the deployment: whatever the sequence of       *)
(* provisionings and uninstallations, beyond the orders whose certificate  *)
(* the CA issued and a failure or a kill kept from being installed, a      *)
(* second one is ordered only after one was left aside or lost, and none   *)
(* is lost but with an archive, or after two failures (uninstall.Run,      *)
(* provision.issueCertificate, cert.Ensure).                               *)
THEOREM PairsAreKept ==
    LifeSpec => []PairIsKept
<1>1. LifeInit => Pairs
  BY DEF LifeInit, Pairs, PairTypes, Reached, NoJob, Underway, Ordering, Doing
<1>2. JobTypes /\ Pairs /\ [LifeNext]_lifeVars => Pairs'
  <2>1. Pairs /\ UNCHANGED lifeVars => Pairs'
    BY DEF Pairs, PairTypes, Reached, Underway, Ordering, Doing, lifeVars,
       lifeHistory, files, limits
  <2>2. QED
    BY <2>1, PairsStep
<1>3. Pairs => PairIsKept
  BY DEF Pairs, PairIsKept
<1>4. QED
  BY <1>1, <1>2, <1>3, JobsTyped, PTL DEF LifeSpec

-----------------------------------------------------------------------------
(***************************************************************************)
(* What an uninstallation leaves.  Every step it has passed and that did   *)
(* not fail is still undone of nothing: neither the loop nor another panel *)
(* can bring back a file once the service and its files are gone.          *)
(***************************************************************************)
FilesGone ==
    /\ nodes = {} /\ document = NoDocument /\ cfg = Fresh
    /\ "sub" \notin failed => accounts = NoAccounts

Gone(step) ==
    IF step = "files" THEN FilesGone
    ELSE step \notin parts \/ (step = "rules" /\ stray)

AllGone(n) ==
    \A i \in 1..14 :
       i < n /\ UninstallSteps[i] \notin failed => Gone(UninstallSteps[i])

Left ==
    /\ parts \subseteq LifeParts
    /\ cycle.held => "sub" \in parts
    /\ job.kind = "uninstall" => AllGone(job.step)
    /\ outcome = "removed" => job = NoJob /\ AllGone(15)

\* The files are gone with the twelfth step and the service with the fifth.
LEMMA GoneAt ==
    ASSUME NEW n \in Nat, AllGone(n), n > 12, "files" \notin failed
    PROVE  FilesGone /\ ("sub" \notin failed => "sub" \notin parts)
<1>1. FilesGone
  BY StepsAre DEF AllGone, Gone
<1>2. "sub" \notin failed => "sub" \notin parts
  BY StepsAre DEF AllGone, Gone
<1>3. QED
  BY <1>1, <1>2

\* What is gone stays so when no part is added, no failure forgotten and no
\* file written.
LEMMA GoneStays ==
    ASSUME NEW n \in Nat, AllGone(n), parts' \subseteq parts, failed \subseteq failed',
           stray => stray',
           n > 12 /\ "files" \notin failed => FilesGone'
    PROVE  \A i \in 1..14 :
              i < n /\ UninstallSteps[i] \notin failed' => Gone(UninstallSteps[i])'
<1>1. SUFFICES ASSUME NEW i \in 1..14, i < n, UninstallSteps[i] \notin failed'
               PROVE  Gone(UninstallSteps[i])'
  OBVIOUS
<1>2. UninstallSteps[i] \notin failed /\ Gone(UninstallSteps[i])
  BY <1>1 DEF AllGone
<1>3. CASE UninstallSteps[i] = "files"
  <2>1. i = 12
    BY <1>3, PairSteps
  <2>2. FilesGone'
    BY <1>1, <1>2, <1>3, <2>1
  <2>3. QED
    BY <1>3, <2>2 DEF Gone, UninstallSteps
<1>4. CASE UninstallSteps[i] # "files"
  BY <1>2, <1>4 DEF Gone, UninstallSteps
<1>5. QED
  BY <1>3, <1>4

\* A step of an uninstallation only takes away, and has undone its own part
\* or is counted as failed.
LEMMA UninstallTakes ==
    ASSUME Left, NEW step, Removing(step), UninstallStep,
           \A other : Removing(other) => other = step
    PROVE  /\ parts' \subseteq parts /\ failed \subseteq failed'
           /\ stray => stray'
           /\ FilesGone => FilesGone'
           /\ step \in failed' \/ Gone(step)'
           /\ cycle'.held => "sub" \in parts'
<1>1. parts \subseteq LifeParts /\ (cycle.held => "sub" \in parts)
  BY DEF Left
<1>2. "backup" \notin LifeParts /\ "stash" \notin LifeParts /\ "restore" \notin LifeParts
  BY DEF LifeParts
<1>3. CASE BackUp \/ StashPair \/ RestorePair
  <2>1. step \in {"backup", "stash", "restore"}
    BY <1>3 DEF BackUp, StashPair, RestorePair
  <2>2. UNCHANGED <<nodes, accounts, cfg, document, parts, stray, cycle, failed>>
    BY <1>3 DEF BackUp, StashPair, RestorePair, stores, lifeHistory
  <2>3. QED
    BY <1>1, <1>2, <2>1, <2>2 DEF FilesGone, Gone
<1>4. CASE RemovePart
  <2>1. PICK part \in LifeParts :
           /\ Removing(part)
           /\ parts' = IF part = "rules" /\ stray THEN parts ELSE parts \ {part}
           /\ cycle' = IF part = "sub" THEN NoCopy ELSE cycle
    BY <1>4 DEF RemovePart
  <2>2. part = step /\ part # "files"
    BY <2>1 DEF LifeParts
  <2>3. UNCHANGED <<nodes, accounts, cfg, document, stray, failed>>
    BY <1>4 DEF RemovePart, files, lifeHistory
  <2>4. cycle'.held => "sub" \in parts'
    BY <1>1, <2>1 DEF NoCopy
  <2>5. QED
    BY <2>1, <2>2, <2>3, <2>4 DEF FilesGone, Gone
<1>5. CASE RemoveFiles
  <2>1. /\ step = "files" /\ UNCHANGED <<parts, cycle, failed>>
        /\ nodes' = {} /\ accounts' = NoAccounts /\ cfg' = Fresh
        /\ document' = NoDocument /\ (stray => stray')
    BY <1>5 DEF RemoveFiles
  <2>2. FilesGone'
    BY <2>1 DEF FilesGone
  <2>3. QED
    BY <1>1, <2>1, <2>2 DEF Gone
<1>6. CASE RemovalFails
  <2>1. step \in failed' /\ failed \subseteq failed'
    BY <1>6 DEF RemovalFails
  <2>2. UNCHANGED <<nodes, accounts, cfg, document, parts, stray, cycle>>
    BY <1>6 DEF RemovalFails, files
  <2>3. QED
    BY <1>1, <2>1, <2>2 DEF FilesGone
<1>7. QED
  BY <1>3, <1>4, <1>5, <1>6 DEF UninstallStep

\* An uninstallation that goes on has undone one step more.
LEMMA LeftOfUninstalls ==
    ASSUME JobTypes, Left, UninstallStep
    PROVE  Left'
<1>1. JobIs /\ job.kind = "uninstall"
  BY UninstallMoves DEF JobTypes
<1>2. PICK step : Removing(step)
  BY UninstallDoes
<1>3. \A other : Removing(other) => other = step
  BY <1>2 DEF Removing
<1>4. /\ parts' \subseteq parts /\ failed \subseteq failed'
      /\ stray => stray'
      /\ FilesGone => FilesGone'
      /\ step \in failed' \/ Gone(step)'
      /\ cycle'.held => "sub" \in parts'
  BY <1>2, <1>3, UninstallTakes
<1>5. job.step \in 1..14 /\ UninstallSteps[job.step] = step
  BY <1>1, <1>2, RemovingMoves
<1>6. PICK n \in Nat : n = job.step
  BY <1>5
<1>7. AllGone(n)
  BY <1>1, <1>6 DEF Left
<1>8. n > 12 /\ "files" \notin failed => FilesGone'
  BY <1>4, <1>7, GoneAt
<1>9. \A i \in 1..14 : i < n + 1 /\ UninstallSteps[i] \notin failed'
                          => Gone(UninstallSteps[i])'
  <2>1. SUFFICES ASSUME NEW i \in 1..14, i < n + 1, UninstallSteps[i] \notin failed'
                 PROVE  Gone(UninstallSteps[i])'
    OBVIOUS
  <2>2. CASE i < n
    BY <1>4, <1>7, <1>8, <2>1, <2>2, GoneStays
  <2>3. CASE i = n
    <3>1. UninstallSteps[i] = step
      BY <1>5, <1>6, <2>3
    <3>2. Gone(step)'
      BY <1>4, <2>1, <3>1
    <3>3. QED
      BY <3>1, <3>2 DEF Gone, UninstallSteps
  <2>4. QED
    BY <1>6, <2>1, <2>2, <2>3
<1>10. parts' \subseteq LifeParts
  BY <1>4 DEF Left
<1>11. CASE job.step < 14
  <2>1. job'.kind = "uninstall" /\ job'.step = n + 1 /\ outcome' = outcome
    BY <1>1, <1>2, <1>6, <1>11, RemovingMoves
  <2>2. AllGone(job.step)'
    BY <1>9, <2>1 DEF AllGone
  <2>3. outcome # "removed"
    BY <1>1, JobTells DEF Left
  <2>4. QED
    BY <1>4, <1>10, <2>1, <2>2, <2>3 DEF Left
<1>12. CASE job.step = 14
  <2>1. job' = NoJob
    BY <1>1, <1>2, <1>12, RemovingMoves
  <2>2. AllGone(15)'
    BY <1>6, <1>9, <1>12 DEF AllGone
  <2>3. job'.kind # "uninstall"
    BY <2>1, JobTells, <1>1
  <2>4. QED
    BY <1>4, <1>10, <2>1, <2>2, <2>3 DEF Left
<1>13. QED
  BY <1>5, <1>11, <1>12

\* Neither a cycle of the loop nor another panel brings anything back: the
\* loop is gone with its service, and there is nothing to edit.
LEMMA LeftOfOthers ==
    ASSUME JobIs, Left, OtherStep
    PROVE  Left'
<1>1. UNCHANGED <<job, outcome, parts, failed, document, cfg>> /\ (stray => stray')
  <2>1. UNCHANGED <<job, outcome, parts, failed, document, cfg>>
    BY OtherMoves
  <2>2. CASE CycleLoads \/ CycleSaves
    BY <2>1, <2>2 DEF CycleLoads, CycleSaves
  <2>3. CASE PanelEdits
    <3>1. stray' = stray \/ \E n \in nodes :
             stray' = (stray \/ (n.protocol = "hysteria2" /\ "rules" \in parts))
      BY <2>3, Zenon DEF PanelEdits
    <3>2. stray => stray'
      BY <3>1, Zenon
    <3>3. QED
      BY <2>1, <3>2
  <2>4. QED
    BY <2>2, <2>3 DEF OtherStep
<1>2. parts \subseteq LifeParts /\ (cycle.held => "sub" \in parts)
  BY DEF Left
<1>3. cycle'.held => "sub" \in parts
  BY <1>2 DEF OtherStep, CycleLoads, CycleSaves, PanelEdits, NoCopy
<1>4. FilesGone /\ ("sub" \notin failed => "sub" \notin parts) => FilesGone'
  <2>1. SUFFICES ASSUME FilesGone, "sub" \notin failed => "sub" \notin parts
                 PROVE  nodes' = {} /\ ("sub" \notin failed => accounts' = NoAccounts)
    BY <1>1 DEF FilesGone
  <2>2. nodes = {} /\ ("sub" \notin failed => accounts = NoAccounts)
    BY <2>1 DEF FilesGone
  <2>3. CASE CycleLoads
    BY <2>2, <2>3 DEF CycleLoads, files
  <2>4. CASE CycleSaves
    BY <1>2, <2>1, <2>2, <2>4 DEF CycleSaves
  <2>5. CASE PanelEdits
    <3>1. DOMAIN NoAccounts = {}
      BY DEF NoAccounts
    <3>2. QED
      BY <2>2, <2>5, <3>1 DEF PanelEdits
  <2>6. QED
    BY <2>3, <2>4, <2>5 DEF OtherStep
<1>5. ASSUME NEW n \in Nat, AllGone(n)
      PROVE  \A i \in 1..14 : i < n /\ UninstallSteps[i] \notin failed'
                                 => Gone(UninstallSteps[i])'
  <2>1. n > 12 /\ "files" \notin failed => FilesGone'
    BY <1>4, <1>5, GoneAt
  <2>2. QED
    BY <1>1, <1>5, <2>1, GoneStays
<1>6. job.kind = "uninstall" => AllGone(job.step)'
  <2>1. SUFFICES ASSUME job.kind = "uninstall"
                 PROVE  AllGone(job.step)'
    OBVIOUS
  <2>2. job.step \in Nat /\ AllGone(job.step)
    BY <2>1, JobTells, StepsAre DEF Left, UninstallJob
  <2>3. PICK n \in Nat : n = job.step
    BY <2>2
  <2>4. AllGone(n)
    BY <2>2, <2>3
  <2>5. QED
    BY <1>1, <1>5, <2>3, <2>4 DEF AllGone
<1>7. outcome = "removed" => job = NoJob /\ AllGone(15)'
  BY <1>5 DEF Left, AllGone
<1>8. QED
  BY <1>1, <1>2, <1>3, <1>6, <1>7 DEF Left

\* Provisioning starts and enables parts, and takes away none but the core.
LEMMA ProvisionParts ==
    ASSUME parts \subseteq LifeParts, ProvisionStep
    PROVE  /\ parts' \subseteq LifeParts /\ parts \ {"core"} \subseteq parts'
           /\ cycle' = cycle \/ cycle' = NoCopy
<1>1. {"core", "core boot", "core unit", "sub", "sub boot", "sub unit", "rules",
       "rules boot", "rules unit", "timer"} \subseteq LifeParts
  BY DEF LifeParts
<1>2. cycle' = cycle \/ cycle' = NoCopy
  BY DEF ProvisionStep, ApplyNode, LoadAccounts, ApplyAccount, FreePort, OrderPair,
     InstallPair, IssueFails, SetTimer, SaveSettings, ApplyStore, ApplyFails,
     SaveDeployed, SetRules, StartService
<1>3. CASE FreePort \/ OrderPair \/ InstallPair \/ IssueFails \/ SetTimer
  BY <1>1, <1>2, <1>3 DEF FreePort, OrderPair, InstallPair, IssueFails, SetTimer, CoreBack
<1>4. CASE ApplyStore
  <2>1. \/ parts' = parts
        \/ parts' = parts \cup {"core"}
        \/ parts' = parts \cup {"core", "core boot", "core unit"}
    BY <1>4 DEF ApplyStore, Applied
  <2>2. QED
    BY <1>1, <1>2, <2>1
<1>5. CASE ApplyFails \/ SetRules
  BY <1>1, <1>2, <1>5 DEF ApplyFails, SetRules
<1>6. CASE StartService
  BY <1>1, <1>2, <1>6 DEF StartService
<1>7. CASE ApplyNode \/ LoadAccounts \/ ApplyAccount \/ SaveSettings \/ SaveDeployed
  BY <1>2, <1>7 DEF ApplyNode, LoadAccounts, ApplyAccount, SaveSettings, SaveDeployed
<1>8. QED
  BY <1>3, <1>4, <1>5, <1>6, <1>7 DEF ProvisionStep

\* Every step keeps it.
LEMMA LeftStep ==
    ASSUME JobTypes, Left, LifeNext
    PROVE  Left'
<1>0. JobIs /\ JobIs'
  BY JobTypesStep DEF JobTypes
<1>1. parts \subseteq LifeParts /\ (cycle.held => "sub" \in parts)
  BY DEF Left
<1>2. CASE StartStep
  <2>1. outcome' = "none" /\ parts' = parts /\ cycle' = cycle
    BY <1>2, StartMoves
  <2>2. job'.kind = "uninstall" => job'.step = 1
    BY <1>2, StartMoves DEF UninstallJob, UpdateJob, ProvisionJob
  <2>3. job'.kind = "uninstall" => AllGone(job.step)'
    BY <2>2 DEF AllGone
  <2>4. QED
    BY <1>1, <2>1, <2>3 DEF Left
<1>3. CASE ProvisionStep
  <2>1. parts' \subseteq LifeParts /\ (cycle'.held => "sub" \in parts')
    BY <1>1, <1>3, ProvisionParts DEF NoCopy
  <2>2. /\ job.kind = "provision" /\ outcome' # "removed"
        /\ job'.kind # "uninstall"
    BY <1>0, <1>3, ProvisionMoves, JobTells DEF Left
  <2>3. QED
    BY <2>1, <2>2 DEF Left
<1>4. CASE UninstallStep
  BY <1>4, LeftOfUninstalls
<1>5. CASE UpdateStep
  <2>1. /\ job \in UpdateJob /\ parts' = parts /\ cycle' = cycle
        /\ (job' \in UpdateJob \/ job' = NoJob)
    BY <1>5, UpdateMoves
  <2>2. job # NoJob /\ job'.kind # "uninstall"
    BY <2>1, JobTells, <1>0 DEF UpdateJob
  <2>3. outcome' # "removed"
    BY <1>5, <2>2, UpdateMoves DEF Left, Compared
  <2>4. QED
    BY <1>1, <2>1, <2>2, <2>3 DEF Left
<1>6. CASE Killed
  <2>1. /\ outcome' = "error" /\ job' = NoJob /\ parts' = parts
        /\ cycle' = cycle
    BY <1>6, KilledMoves DEF Killed
  <2>2. job'.kind # "uninstall"
    BY <2>1, JobTells, <1>0
  <2>3. QED
    BY <1>1, <2>1, <2>2 DEF Left
<1>7. CASE OtherStep
  BY <1>0, <1>7, LeftOfOthers
<1>8. CASE Reinstall
  <2>1. "panel" \in LifeParts
    BY DEF LifeParts
  <2>2. /\ outcome' = "none" /\ job' = NoJob /\ parts' = parts \cup {"panel"}
        /\ cycle' = cycle
    BY <1>8, ReinstallMoves
  <2>3. job'.kind # "uninstall"
    BY <2>2, JobTells, <1>0
  <2>4. QED
    BY <1>1, <2>1, <2>2, <2>3 DEF Left
<1>9. QED
  BY <1>2, <1>3, <1>4, <1>5, <1>6, <1>7, <1>8, LifeSteps

\* Every part but the timer has its step.
LEMMA PartHasStep ==
    ASSUME NEW part \in LifeParts \ {"timer"}
    PROVE  \E i \in 1..14 : UninstallSteps[i] = part /\ part # "files"
<1>1. part \in {"core", "core boot", "sub", "sub boot", "rules", "rules boot"}
      \/ part \in {"rules unit", "core unit", "sub unit", "panel"}
  BY DEF LifeParts
<1>2. CASE part \in {"core", "core boot", "sub", "sub boot", "rules", "rules boot"}
  <2>1. /\ UninstallSteps[3] = "core" /\ UninstallSteps[4] = "core boot"
        /\ UninstallSteps[5] = "sub" /\ UninstallSteps[6] = "sub boot"
        /\ UninstallSteps[7] = "rules" /\ UninstallSteps[8] = "rules boot"
    BY DEF UninstallSteps
  <2>2. part # "files"
    BY <1>2
  <2>3. /\ 3 \in 1..14 /\ 4 \in 1..14 /\ 5 \in 1..14 /\ 6 \in 1..14
        /\ 7 \in 1..14 /\ 8 \in 1..14
    OBVIOUS
  <2>4. QED
    BY <1>2, <2>1, <2>2, <2>3, Zenon
<1>3. CASE part \in {"rules unit", "core unit", "sub unit", "panel"}
  <2>1. /\ UninstallSteps[9] = "rules unit" /\ UninstallSteps[10] = "core unit"
        /\ UninstallSteps[11] = "sub unit" /\ UninstallSteps[13] = "panel"
    BY DEF UninstallSteps
  <2>2. part # "files"
    BY <1>3
  <2>3. 9 \in 1..14 /\ 10 \in 1..14 /\ 11 \in 1..14 /\ 13 \in 1..14
    OBVIOUS
  <2>4. QED
    BY <1>3, <2>1, <2>2, <2>3, Zenon
<1>4. QED
  BY <1>1, <1>2, <1>3

(* After an uninstallation nothing of EasySB runs or is left but what a    *)
(* step that failed was to remove, the renewal timer, and hop rules of     *)
(* nodes that had been moved or forgotten: whatever ran before it,         *)
(* whatever failed, and with the loop and another panel writing the files  *)
(* until they are gone (uninstall.Run).                                    *)
THEOREM LeftoversAreExplained ==
    LifeSpec => []LeftoversExplained
<1>1. LifeInit => Left
  <2>1. "panel" \in LifeParts
    BY DEF LifeParts
  <2>2. QED
    BY <2>1 DEF LifeInit, Left, NoJob, NoCopy
<1>2. JobTypes /\ Left /\ [LifeNext]_lifeVars => Left'
  <2>1. Left /\ UNCHANGED lifeVars => Left'
    <3>1. SUFFICES ASSUME Left, UNCHANGED lifeVars
                   PROVE  Left'
      OBVIOUS
    <3>2. /\ nodes' = nodes /\ accounts' = accounts /\ cfg' = cfg
          /\ document' = document /\ parts' = parts /\ cycle' = cycle
          /\ job' = job /\ outcome' = outcome /\ failed' = failed
          /\ stray' = stray
      BY <3>1 DEF lifeVars, files, lifeHistory
    <3>3. QED
      BY <3>1, <3>2 DEF Left, AllGone, Gone, FilesGone
  <2>2. QED
    BY <2>1, LeftStep
<1>3. Left => LeftoversExplained
  <2>1. SUFFICES ASSUME Left, outcome = "removed"
                 PROVE  /\ parts \ {"timer"} \subseteq
                              failed \cup {x \in {"rules"} : stray}
                        /\ "files" \notin failed => FilesGone
    BY DEF LeftoversExplained, FilesGone
  <2>2. AllGone(15) /\ parts \subseteq LifeParts
    BY <2>1 DEF Left
  <2>3. ASSUME NEW part \in parts \ {"timer"}
        PROVE  part \in failed \cup {x \in {"rules"} : stray}
    <3>1. PICK i \in 1..14 : UninstallSteps[i] = part /\ part # "files"
      BY <2>2, <2>3, PartHasStep
    <3>2. i < 15
      BY <3>1
    <3>3. QED
      BY <2>2, <2>3, <3>1, <3>2 DEF AllGone, Gone
  <2>4. "files" \notin failed => FilesGone
    BY <2>2, GoneAt
  <2>5. QED
    BY <2>3, <2>4
<1>4. QED
  BY <1>1, <1>2, <1>3, JobsTyped, PTL DEF LifeSpec

-----------------------------------------------------------------------------
(***************************************************************************)
(* What the stores hold, on disk, in the copies of a provisioning and of a *)
(* cycle of the loop, and in the record of how a job found them.           *)
(***************************************************************************)
Names == STRING \cup {"other"}
NodeRecord == [id : Nat, name : Names, protocol : STRING, port : Nat]
AccountRecord == [token : Nat, picks : SUBSET Nat, quota : Nat, used : Nat]
IsStore(f) == f \in [DOMAIN f -> AccountRecord]

StoreTypes ==
    /\ made \in Nat
    /\ nodes \subseteq NodeRecord /\ copy.nodes \subseteq NodeRecord
    /\ IsStore(accounts) /\ IsStore(copy.accounts)
    /\ IsStore(cycle.accounts) /\ IsStore(before.accounts)
    /\ copy = [nodes |-> copy.nodes, accounts |-> copy.accounts, held |-> copy.held]

\* Nothing is a store as well.
LEMMA NothingStored ==
    /\ IsStore(NoAccounts) /\ DOMAIN NoAccounts = {}
    /\ NoCopy.accounts = NoAccounts /\ NoCopy.nodes = {} /\ NoCopy.held = FALSE
    /\ NoCopy = [nodes |-> NoCopy.nodes, accounts |-> NoCopy.accounts,
                 held |-> NoCopy.held]
    /\ NoBefore.accounts = NoAccounts
BY DEF NoCopy, NoBefore, NoAccounts, IsStore

\* What a sequence is.
LEMMA SequenceIs ==
    ASSUME NEW S, NEW s \in Seq(S)
    PROVE  /\ DOMAIN s = 1..Len(s) /\ Len(s) \in Nat
           /\ \A i \in DOMAIN s : s[i] \in S
OBVIOUS

\* What a document asks for.
LEMMA DocumentParts ==
    ASSUME NEW d \in Documents
    PROVE  /\ DOMAIN d.nodes = 1..Len(d.nodes) /\ Len(d.nodes) \in Nat
           /\ DOMAIN d.accounts = 1..Len(d.accounts) /\ Len(d.accounts) \in Nat
           /\ \A i \in DOMAIN d.nodes :
                 d.nodes[i] \in [name : STRING, protocol : STRING, port : Nat]
           /\ \A i \in DOMAIN d.accounts :
                 d.accounts[i] \in [name : STRING, words : SUBSET STRING, quota : Nat]
<1>1. d.nodes \in Seq([name : STRING, protocol : STRING, port : Nat])
  BY DocumentsAssumption
<1>2. d.accounts \in Seq([name : STRING, words : SUBSET STRING, quota : Nat])
  BY DocumentsAssumption
<1>3. QED
  BY <1>1, <1>2, SequenceIs

\* The nodes that words name are among their numbers.
LEMMA NamedNumbers ==
    ASSUME NEW ns, ns \subseteq NodeRecord, NEW words
    PROVE  Named(ns, words) \in SUBSET Nat
BY DEF Named, NodeRecord

\* What settling a node does.
LEMMA ApplyNodeTurn ==
    ASSUME JobTypes, StoreTypes, ApplyNode
    PROVE  LET want == job.doc.nodes[job.step] IN
           /\ job \in ProvisionJob /\ job.kind = "provision" /\ job.at = "nodes"
           /\ job.step \in DOMAIN job.doc.nodes
           /\ UNCHANGED <<accounts, cycle, before, others, cfg, document, core,
                          parts, adrift, printed>>
           /\ \/ /\ Onward /\ \E n \in copy.nodes : Serves(n, want)
                 /\ UNCHANGED <<nodes, copy, overlap, made, outcome>>
              \/ /\ job' = NoJob /\ outcome' = "error" /\ copy' = NoCopy
                 /\ UNCHANGED <<nodes, overlap, made>>
              \/ /\ Onward /\ ~\E n \in copy.nodes : Serves(n, want)
                 /\ \E new \in NodeRecord :
                       Serves(new, want) /\ nodes' = copy.nodes \cup {new}
                 /\ copy'.nodes = nodes' /\ copy'.accounts = copy.accounts
                 /\ copy' = [nodes |-> copy'.nodes, accounts |-> copy'.accounts,
                             held |-> copy'.held]
                 /\ ~overlap' => ~overlap /\ nodes = copy.nodes
                 /\ made' = made + 1 /\ outcome' = outcome
<1> DEFINE want == job.doc.nodes[job.step]
<1> DEFINE new == [id |-> made + 1, name |-> want.name, protocol |-> want.protocol,
                   port |-> want.port]
<1>1. job.kind = "provision" /\ job.at = "nodes" /\ job.step \in DOMAIN job.doc.nodes
  BY DEF ApplyNode, Doing
<1>2. job \in ProvisionJob /\ job.doc \in Documents
  <2>1. job \in ProvisionJob
    BY <1>1, JobTells DEF JobTypes
  <2>2. QED
    BY <2>1 DEF ProvisionJob
<1>3. UNCHANGED <<accounts, cycle, before, others, cfg, document, core, parts,
                  adrift, printed>>
  BY DEF ApplyNode, Refused, stores
<1>4. new \in NodeRecord /\ Serves(new, want)
  <2>1. want \in [name : STRING, protocol : STRING, port : Nat]
    BY <1>1, <1>2, DocumentParts
  <2>2. made + 1 \in Nat
    BY DEF StoreTypes
  <2>3. new \in NodeRecord
    BY <2>1, <2>2 DEF NodeRecord, Names
  <2>4. new.name = want.name
    OBVIOUS
  <2>5. QED
    BY <2>3, <2>4 DEF Serves
<1>5. copy = [nodes |-> copy.nodes, accounts |-> copy.accounts, held |-> copy.held]
  BY DEF StoreTypes
<1>6. \/ /\ \E n \in copy.nodes : Serves(n, want)
         /\ Onward /\ UNCHANGED <<stores, copy, made, overlap, outcome>>
      \/ Refused
      \/ /\ ~\E n \in copy.nodes : Serves(n, want) \/ n.port = want.port
         /\ nodes' = copy.nodes \cup {new}
         /\ copy' = [copy EXCEPT !.nodes = nodes']
         /\ overlap' = (overlap \/ nodes # copy.nodes)
         /\ made' = made + 1 /\ Onward /\ UNCHANGED <<accounts, outcome>>
  BY DEF ApplyNode
<1>7. CASE /\ \E n \in copy.nodes : Serves(n, want)
           /\ Onward /\ UNCHANGED <<stores, copy, made, overlap, outcome>>
  BY <1>1, <1>2, <1>3, <1>7 DEF stores
<1>8. CASE Refused
  BY <1>1, <1>2, <1>3, <1>8 DEF Refused, Ends, stores
<1>9. CASE /\ ~\E n \in copy.nodes : Serves(n, want) \/ n.port = want.port
           /\ nodes' = copy.nodes \cup {new}
           /\ copy' = [copy EXCEPT !.nodes = nodes']
           /\ overlap' = (overlap \/ nodes # copy.nodes)
           /\ made' = made + 1 /\ Onward /\ UNCHANGED <<accounts, outcome>>
  <2>1. ~\E n \in copy.nodes : Serves(n, want)
    BY <1>9
  <2>2. \E fresh \in NodeRecord : Serves(fresh, want) /\ nodes' = copy.nodes \cup {fresh}
    BY <1>4, <1>9
  <2>3. copy' = [nodes |-> nodes', accounts |-> copy.accounts, held |-> copy.held]
    BY <1>5, <1>9
  <2>4. /\ copy'.nodes = nodes' /\ copy'.accounts = copy.accounts
        /\ copy' = [nodes |-> copy'.nodes, accounts |-> copy'.accounts,
                    held |-> copy'.held]
    BY <2>3
  <2>5. ~overlap' => ~overlap /\ nodes = copy.nodes
    BY <1>9
  <2>6. QED
    BY <1>1, <1>2, <1>3, <1>9, <2>1, <2>2, <2>4, <2>5
<1>10. QED
  BY <1>6, <1>7, <1>8, <1>9

\* What settling an account does.
LEMMA ApplyAccountTurn ==
    ASSUME JobTypes, StoreTypes, ApplyAccount
    PROVE  LET a == job.doc.accounts[job.step] IN
           /\ job \in ProvisionJob /\ job.kind = "provision" /\ job.at = "accounts"
           /\ job.step \in DOMAIN job.doc.accounts
           /\ UNCHANGED <<nodes, cycle, before, others, cfg, document, core,
                          parts, adrift, printed>>
           /\ \/ /\ job' = NoJob /\ outcome' = "error" /\ copy' = NoCopy
                 /\ UNCHANGED <<accounts, overlap, made>>
              \/ /\ Onward
                 /\ accounts' = [n \in DOMAIN copy.accounts \cup {a.name} |->
                                   IF n = a.name THEN SettledAccount(a)
                                                 ELSE copy.accounts[n]]
                 /\ copy'.accounts = accounts' /\ copy'.nodes = copy.nodes
                 /\ copy' = [nodes |-> copy'.nodes, accounts |-> copy'.accounts,
                             held |-> copy'.held]
                 /\ ~overlap' => ~overlap /\ accounts = copy.accounts
                 /\ made' = made + 1 /\ outcome' = outcome
<1> DEFINE a == job.doc.accounts[job.step]
<1> DEFINE put == [n \in DOMAIN copy.accounts \cup {a.name} |->
                     IF n = a.name THEN SettledAccount(a) ELSE copy.accounts[n]]
<1>1. /\ job.kind = "provision" /\ job.at = "accounts"
      /\ job.step \in DOMAIN job.doc.accounts
  BY DEF ApplyAccount, Doing
<1>2. job \in ProvisionJob
  BY <1>1, JobTells DEF JobTypes
<1>3. UNCHANGED <<nodes, cycle, before, others, cfg, document, core, parts,
                  adrift, printed>>
  BY DEF ApplyAccount, Refused, stores
<1>4. \/ /\ accounts' = put /\ copy' = [copy EXCEPT !.accounts = put]
         /\ overlap' = (overlap \/ accounts # copy.accounts)
         /\ made' = made + 1 /\ Onward /\ UNCHANGED <<nodes, outcome>>
      \/ Refused
  BY DEF ApplyAccount
<1> HIDE DEF put
<1>5. CASE /\ accounts' = put /\ copy' = [copy EXCEPT !.accounts = put]
           /\ overlap' = (overlap \/ accounts # copy.accounts)
           /\ made' = made + 1 /\ Onward /\ UNCHANGED <<nodes, outcome>>
  <2>1. copy = [nodes |-> copy.nodes, accounts |-> copy.accounts, held |-> copy.held]
    BY DEF StoreTypes
  <2>2. copy' = [nodes |-> copy.nodes, accounts |-> put, held |-> copy.held]
    BY <1>5, <2>1
  <2>3. /\ copy'.accounts = accounts' /\ copy'.nodes = copy.nodes
        /\ copy' = [nodes |-> copy'.nodes, accounts |-> copy'.accounts,
                    held |-> copy'.held]
    BY <1>5, <2>2
  <2>4. ~overlap' => ~overlap /\ accounts = copy.accounts
    BY <1>5
  <2>5. QED
    BY <1>1, <1>2, <1>3, <1>5, <2>3, <2>4 DEF put
<1>6. CASE Refused
  BY <1>1, <1>2, <1>3, <1>6 DEF Refused, Ends, stores
<1>7. QED
  BY <1>4, <1>5, <1>6

\* An account that is settled is one.
LEMMA SettledIs ==
    ASSUME StoreTypes, NEW a \in [name : STRING, words : SUBSET STRING, quota : Nat]
    PROVE  /\ SettledAccount(a) \in AccountRecord
           /\ SettledAccount(a).quota = a.quota
           /\ Named(copy.nodes, a.words) \subseteq SettledAccount(a).picks
           /\ a.name \in DOMAIN copy.accounts =>
                 /\ SettledAccount(a).token = copy.accounts[a.name].token
                 /\ SettledAccount(a).used = copy.accounts[a.name].used
                 /\ SettledAccount(a).picks =
                       copy.accounts[a.name].picks \cup Named(copy.nodes, a.words)
<1> DEFINE named == Named(copy.nodes, a.words)
<1>1. named \in SUBSET Nat /\ made + 1 \in Nat
  BY NamedNumbers DEF StoreTypes
<1> HIDE DEF named
<1>2. CASE a.name \in DOMAIN copy.accounts
  <2>1. SettledAccount(a) = [copy.accounts[a.name] EXCEPT
                               !.picks = @ \cup named, !.quota = a.quota]
    BY <1>2 DEF SettledAccount, named
  <2>2. copy.accounts[a.name] \in AccountRecord
    BY <1>2 DEF StoreTypes, IsStore
  <2>3. PICK x \in AccountRecord : x = copy.accounts[a.name]
    BY <2>2
  <2>4. SettledAccount(a) = [x EXCEPT !.picks = @ \cup named, !.quota = a.quota]
    BY <2>1, <2>3
  <2>5. SettledAccount(a) = [token |-> x.token, picks |-> x.picks \cup named,
                             quota |-> a.quota, used |-> x.used]
    BY <2>4 DEF AccountRecord
  <2>6. x.picks \cup named \in SUBSET Nat /\ x.token \in Nat /\ x.used \in Nat
    BY <1>1 DEF AccountRecord
  <2>7. QED
    BY <2>3, <2>5, <2>6 DEF AccountRecord, named
<1>3. CASE a.name \notin DOMAIN copy.accounts
  <2>1. SettledAccount(a) = [token |-> made + 1, picks |-> named, quota |-> a.quota,
                             used |-> 0]
    BY <1>3 DEF SettledAccount, named
  <2>2. QED
    BY <1>1, <1>3, <2>1 DEF AccountRecord, named
<1>4. QED
  BY <1>2, <1>3

\* The stores after an account was settled.
LEMMA SettledStore ==
    ASSUME StoreTypes, NEW a \in [name : STRING, words : SUBSET STRING, quota : Nat],
           NEW put, put = [n \in DOMAIN copy.accounts \cup {a.name} |->
                             IF n = a.name THEN SettledAccount(a)
                                           ELSE copy.accounts[n]]
    PROVE  /\ IsStore(put) /\ DOMAIN put = DOMAIN copy.accounts \cup {a.name}
           /\ put[a.name] = SettledAccount(a)
           /\ \A n \in DOMAIN copy.accounts : n # a.name => put[n] = copy.accounts[n]
<1>1. SettledAccount(a) \in AccountRecord
  BY SettledIs
<1>2. \A n \in DOMAIN copy.accounts : copy.accounts[n] \in AccountRecord
  BY DEF StoreTypes, IsStore
<1>3. QED
  BY <1>1, <1>2 DEF IsStore

\* A step of the loop adds a byte to one account and changes nothing else.
LEMMA CounterTurn ==
    ASSUME StoreTypes, CycleSaves
    PROVE  /\ IsStore(accounts') /\ DOMAIN accounts' = DOMAIN cycle.accounts
           /\ \A n \in DOMAIN accounts' :
                 /\ accounts'[n].token = cycle.accounts[n].token
                 /\ accounts'[n].picks = cycle.accounts[n].picks
                 /\ accounts'[n].quota = cycle.accounts[n].quota
                 /\ accounts'[n].used >= cycle.accounts[n].used
<1>1. PICK a \in Admitted(cycle.accounts) :
         accounts' = [cycle.accounts EXCEPT ![a].used = @ + 1]
  BY DEF CycleSaves
<1>2. a \in DOMAIN cycle.accounts
  BY DEF Admitted
<1>3. PICK x \in AccountRecord : x = cycle.accounts[a]
  BY <1>2 DEF StoreTypes, IsStore
<1>4. /\ [x EXCEPT !.used = @ + 1] \in AccountRecord
      /\ [x EXCEPT !.used = @ + 1].token = x.token
      /\ [x EXCEPT !.used = @ + 1].picks = x.picks
      /\ [x EXCEPT !.used = @ + 1].quota = x.quota
      /\ [x EXCEPT !.used = @ + 1].used = x.used + 1
      /\ x.used \in Nat
  BY DEF AccountRecord
<1>5. PICK y \in AccountRecord :
         /\ accounts' = [cycle.accounts EXCEPT ![a] = y]
         /\ y.token = x.token /\ y.picks = x.picks /\ y.quota = x.quota
         /\ y.used >= x.used
  <2>1. accounts' = [cycle.accounts EXCEPT ![a] = [x EXCEPT !.used = @ + 1]]
    BY <1>1, <1>3
  <2>2. x.used + 1 >= x.used
    BY <1>4
  <2>3. QED
    BY <1>4, <2>1, <2>2
<1>6. IsStore(cycle.accounts)
  BY DEF StoreTypes
<1>7. /\ DOMAIN accounts' = DOMAIN cycle.accounts /\ accounts'[a] = y
      /\ \A n \in DOMAIN accounts' : n # a => accounts'[n] = cycle.accounts[n]
      /\ accounts' = [n \in DOMAIN cycle.accounts |-> accounts'[n]]
  BY <1>2, <1>5, <1>6 DEF IsStore
<1>8. \A n \in DOMAIN accounts' : accounts'[n] \in AccountRecord
  BY <1>6, <1>7 DEF IsStore
<1>9. \A n \in DOMAIN cycle.accounts : cycle.accounts[n].used \in Nat
  BY <1>6 DEF IsStore, AccountRecord
<1>10. IsStore(accounts')
  BY <1>7, <1>8 DEF IsStore
<1>11. ASSUME NEW n \in DOMAIN accounts'
       PROVE  /\ accounts'[n].token = cycle.accounts[n].token
              /\ accounts'[n].picks = cycle.accounts[n].picks
              /\ accounts'[n].quota = cycle.accounts[n].quota
              /\ accounts'[n].used >= cycle.accounts[n].used
  <2>1. CASE n = a
    BY <1>3, <1>5, <1>7, <2>1
  <2>2. CASE n # a
    BY <1>7, <1>9, <1>11, <2>2
  <2>3. QED
    BY <2>1, <2>2
<1>12. QED
  BY <1>7, <1>10, <1>11

\* What another panel writes is a store again.
LEMMA EditsTurn ==
    ASSUME StoreTypes, PanelEdits
    PROVE  nodes' \subseteq NodeRecord /\ IsStore(accounts') /\ made' \in Nat
<1>1. \/ /\ \E n \in nodes, m \in {"renamed", "moved"} :
               nodes' = (nodes \ {n}) \cup
                   {IF m = "renamed" THEN [n EXCEPT !.name = "other"]
                                     ELSE [n EXCEPT !.port = 0]}
         /\ UNCHANGED <<accounts, cfg, made>>
      \/ /\ \E a \in DOMAIN accounts :
               accounts' = [accounts EXCEPT ![a].token = made + 1]
         /\ made' = made + 1 /\ UNCHANGED <<nodes, cfg>>
      \/ /\ \E a \in DOMAIN accounts :
               accounts' = [b \in DOMAIN accounts \ {a} |-> accounts[b]]
         /\ UNCHANGED <<nodes, cfg, made>>
  BY DEF PanelEdits
<1>2. made \in Nat /\ nodes \subseteq NodeRecord /\ IsStore(accounts)
  BY DEF StoreTypes
<1>3. CASE /\ \E n \in nodes, m \in {"renamed", "moved"} :
                nodes' = (nodes \ {n}) \cup
                    {IF m = "renamed" THEN [n EXCEPT !.name = "other"]
                                      ELSE [n EXCEPT !.port = 0]}
           /\ UNCHANGED <<accounts, cfg, made>>
  <2>1. PICK n \in nodes, m \in {"renamed", "moved"} :
                nodes' = (nodes \ {n}) \cup
                    {IF m = "renamed" THEN [n EXCEPT !.name = "other"]
                                      ELSE [n EXCEPT !.port = 0]}
    BY <1>3
  <2>2. n \in NodeRecord
    BY <1>2
  <2>3. /\ [n EXCEPT !.name = "other"] \in NodeRecord
        /\ [n EXCEPT !.port = 0] \in NodeRecord
    BY <2>2 DEF NodeRecord, Names
  <2>4. QED
    BY <1>2, <1>3, <2>1, <2>3
<1>4. CASE /\ \E a \in DOMAIN accounts :
                accounts' = [accounts EXCEPT ![a].token = made + 1]
           /\ made' = made + 1 /\ UNCHANGED <<nodes, cfg>>
  <2>1. PICK a \in DOMAIN accounts :
                accounts' = [accounts EXCEPT ![a].token = made + 1]
    BY <1>4
  <2>2. PICK x \in AccountRecord : x = accounts[a]
    BY <1>2 DEF IsStore
  <2>3. [x EXCEPT !.token = made + 1] \in AccountRecord
    BY <1>2 DEF AccountRecord
  <2>4. PICK y \in AccountRecord : accounts' = [accounts EXCEPT ![a] = y]
    BY <2>1, <2>2, <2>3
  <2>5. IsStore(accounts')
    BY <1>2, <2>4 DEF IsStore
  <2>6. QED
    BY <1>2, <1>4, <2>5
<1>5. CASE /\ \E a \in DOMAIN accounts :
                accounts' = [b \in DOMAIN accounts \ {a} |-> accounts[b]]
           /\ UNCHANGED <<nodes, cfg, made>>
  BY <1>2, <1>5 DEF IsStore
<1>6. QED
  BY <1>1, <1>3, <1>4, <1>5

\* The copies only follow the stores or are dropped.
LEMMA StoresKept ==
    ASSUME StoreTypes, nodes' \subseteq NodeRecord, IsStore(accounts'), made' \in Nat,
           copy' = copy \/ copy' = NoCopy, cycle' = cycle \/ cycle' = NoCopy,
           before'.accounts = before.accounts \/ before'.accounts = NoAccounts
    PROVE  StoreTypes'
<1>1. /\ copy'.nodes \subseteq NodeRecord /\ IsStore(copy'.accounts)
      /\ copy' = [nodes |-> copy'.nodes, accounts |-> copy'.accounts,
                  held |-> copy'.held]
  BY NothingStored DEF StoreTypes
<1>2. IsStore(cycle'.accounts)
  BY NothingStored DEF StoreTypes
<1>3. IsStore(before'.accounts)
  BY NothingStored DEF StoreTypes
<1>4. QED
  BY <1>1, <1>2, <1>3 DEF StoreTypes, IsStore

\* Settling a node leaves stores,
LEMMA StoresOfNodes ==
    ASSUME JobTypes, StoreTypes, ApplyNode
    PROVE  StoreTypes'
<1>1. /\ made \in Nat /\ nodes \subseteq NodeRecord /\ copy.nodes \subseteq NodeRecord
      /\ IsStore(accounts) /\ IsStore(copy.accounts)
      /\ IsStore(cycle.accounts) /\ IsStore(before.accounts)
  BY DEF StoreTypes
<1>2. UNCHANGED <<accounts, cycle, before>>
  BY ApplyNodeTurn
<1>3. CASE UNCHANGED <<nodes, made>> /\ (copy' = copy \/ copy' = NoCopy)
  BY <1>1, <1>2, <1>3, StoresKept
<1>4. CASE /\ \E new \in NodeRecord : nodes' = copy.nodes \cup {new}
           /\ copy'.nodes = nodes' /\ copy'.accounts = copy.accounts
           /\ copy' = [nodes |-> copy'.nodes, accounts |-> copy'.accounts,
                       held |-> copy'.held]
           /\ made' = made + 1
  <2>1. nodes' \subseteq NodeRecord
    BY <1>1, <1>4
  <2>2. made' \in Nat
    BY <1>1, <1>4
  <2>3. QED
    BY <1>1, <1>2, <1>4, <2>1, <2>2 DEF StoreTypes, IsStore
<1>5. QED
  BY <1>3, <1>4, ApplyNodeTurn

\* settling an account does,
LEMMA StoresOfAccounts ==
    ASSUME JobTypes, StoreTypes, ApplyAccount
    PROVE  StoreTypes'
<1> DEFINE a == job.doc.accounts[job.step]
<1>1. /\ made \in Nat /\ nodes \subseteq NodeRecord /\ copy.nodes \subseteq NodeRecord
      /\ IsStore(accounts) /\ IsStore(copy.accounts)
      /\ IsStore(cycle.accounts) /\ IsStore(before.accounts)
  BY DEF StoreTypes
<1>2. /\ UNCHANGED <<nodes, cycle, before>> /\ job \in ProvisionJob
      /\ job.step \in DOMAIN job.doc.accounts
  BY ApplyAccountTurn
<1>3. CASE UNCHANGED <<accounts, made>> /\ copy' = NoCopy
  BY <1>1, <1>2, <1>3, StoresKept
<1>4. CASE /\ accounts' = [n \in DOMAIN copy.accounts \cup {a.name} |->
                             IF n = a.name THEN SettledAccount(a)
                                           ELSE copy.accounts[n]]
           /\ copy'.accounts = accounts' /\ copy'.nodes = copy.nodes
           /\ copy' = [nodes |-> copy'.nodes, accounts |-> copy'.accounts,
                       held |-> copy'.held]
           /\ made' = made + 1
  <2>1. a \in [name : STRING, words : SUBSET STRING, quota : Nat]
    BY <1>2, DocumentParts DEF ProvisionJob
  <2>2. PICK put : put = [n \in DOMAIN copy.accounts \cup {a.name} |->
                            IF n = a.name THEN SettledAccount(a)
                                          ELSE copy.accounts[n]]
    OBVIOUS
  <2>3. IsStore(put) /\ accounts' = put
    BY <1>4, <2>1, <2>2, SettledStore
  <2>4. made' \in Nat
    <3>1. made' = made + 1 /\ made \in Nat
      BY <1>1, <1>4, Zenon
    <3>2. QED
      BY <3>1
  <2>5. copy'.nodes \subseteq NodeRecord /\ nodes' \subseteq NodeRecord
    BY <1>1, <1>2, <1>4
  <2>6. QED
    BY <1>1, <1>2, <1>4, <2>3, <2>4, <2>5 DEF StoreTypes, IsStore
<1>5. QED
  BY <1>3, <1>4, ApplyAccountTurn

\* The other steps of a provisioning only drop the copies, or read.
LEMMA OtherProvisions ==
    ASSUME ProvisionStep, ~ApplyNode, ~ApplyAccount
    PROVE  /\ UNCHANGED <<nodes, accounts, made, before, overlap, others>>
           /\ \/ copy' = copy /\ outcome' = outcome
              \/ copy' = NoCopy /\ job' = NoJob /\ outcome' \in {"error", "provisioned"}
              \/ LoadAccounts
           /\ cycle' = cycle \/ cycle' = NoCopy
<1>1. CASE LoadAccounts
  BY <1>1 DEF LoadAccounts, files, lifeHistory, limits
<1>2. CASE FreePort \/ OrderPair \/ InstallPair \/ SaveSettings \/ SaveDeployed
  BY <1>2 DEF FreePort, OrderPair, InstallPair, SaveSettings, SaveDeployed,
     files, lifeHistory,
     limits
<1>3. CASE IssueFails \/ SetTimer \/ SetRules
  BY <1>3 DEF IssueFails, SetTimer, SetRules, files, lifeHistory, Ends
<1>4. CASE ApplyStore \/ ApplyFails
  BY <1>4 DEF ApplyStore, ApplyFails, limits, Ends
<1>5. CASE StartService
  BY <1>5 DEF StartService, files, Ends
<1>6. QED
  BY <1>1, <1>2, <1>3, <1>4, <1>5 DEF ProvisionStep

\* and so does every other step.
LEMMA StoreTypesStep ==
    ASSUME JobTypes, StoreTypes, LifeNext
    PROVE  StoreTypes'
<1>1. /\ made \in Nat /\ nodes \subseteq NodeRecord /\ copy.nodes \subseteq NodeRecord
      /\ IsStore(accounts) /\ IsStore(copy.accounts)
      /\ IsStore(cycle.accounts) /\ IsStore(before.accounts)
  BY DEF StoreTypes
<1>2. CASE StartStep
  <2>1. UNCHANGED <<nodes, accounts, made, cycle>>
    BY <1>2, StartMoves DEF files
  <2>2. ASSUME NEW d \in Documents, Provision(d)
        PROVE  StoreTypes'
    <3>1. /\ copy' = [nodes |-> nodes, accounts |-> NoAccounts, held |-> TRUE]
          /\ before'.accounts = accounts
      BY <2>2 DEF Provision
    <3>2. /\ copy'.nodes \subseteq NodeRecord /\ IsStore(copy'.accounts)
          /\ copy' = [nodes |-> copy'.nodes, accounts |-> copy'.accounts,
                      held |-> copy'.held]
      BY <1>1, <3>1, NothingStored
    <3>3. IsStore(before'.accounts) /\ IsStore(accounts') /\ IsStore(cycle'.accounts)
      BY <1>1, <2>1, <3>1
    <3>4. QED
      BY <1>1, <2>1, <3>2, <3>3 DEF StoreTypes, IsStore
  <2>3. CASE Uninstall \/ Update
    <3>1. copy' = copy /\ before'.accounts = NoAccounts
      BY <2>3 DEF Uninstall, Update, NoBefore
    <3>2. QED
      BY <1>1, <2>1, <3>1, StoresKept
  <2>4. QED
    BY <1>2, <2>2, <2>3 DEF StartStep
<1>3. CASE ProvisionStep
  <2>1. CASE ApplyNode
    BY <2>1, StoresOfNodes
  <2>2. CASE ApplyAccount
    BY <2>2, StoresOfAccounts
  <2>3. CASE LoadAccounts
    <3>1. UNCHANGED <<nodes, accounts, made, cycle, before>>
      BY <2>3 DEF LoadAccounts, files, lifeHistory, limits
    <3>2. copy' = [nodes |-> copy.nodes, accounts |-> accounts, held |-> copy.held]
      <4>1. copy' = [copy EXCEPT !.accounts = accounts]
        BY <2>3 DEF LoadAccounts
      <4>2. copy = [nodes |-> copy.nodes, accounts |-> copy.accounts,
                    held |-> copy.held]
        BY DEF StoreTypes
      <4>3. QED
        BY <4>1, <4>2
    <3>3. QED
      BY <1>1, <3>1, <3>2 DEF StoreTypes, IsStore
  <2>4. CASE ~ApplyNode /\ ~ApplyAccount /\ ~LoadAccounts
    <3>1. /\ UNCHANGED <<nodes, accounts, made, before>>
          /\ copy' = copy \/ copy' = NoCopy
          /\ cycle' = cycle \/ cycle' = NoCopy
      BY <1>3, <2>4, OtherProvisions
    <3>2. QED
      BY <1>1, <3>1, StoresKept
  <2>5. QED
    BY <2>1, <2>2, <2>3, <2>4
<1>4. CASE UninstallStep
  <2>1. before' = before
    BY <1>4, UninstallMoves DEF JobTypes
  <2>2. made' = made
    BY <1>4 DEF UninstallStep, BackUp, StashPair, RemovePart, RemoveFiles,
       RestorePair, RemovalFails, limits
  <2>3. copy' = copy \/ copy' = NoCopy
    BY <1>4, UninstallDoes DEF Removing, Ends
  <2>4. cycle' = cycle \/ cycle' = NoCopy
    BY <1>4 DEF UninstallStep, BackUp, StashPair, RemovePart, RemoveFiles,
       RestorePair, RemovalFails
  <2>5. nodes' \subseteq NodeRecord /\ (accounts' = accounts \/ accounts' = NoAccounts)
    BY <1>1, <1>4 DEF UninstallStep, BackUp, StashPair, RemovePart, RemoveFiles,
       RestorePair, RemovalFails, stores, files
  <2>6. QED
    BY <1>1, <2>1, <2>2, <2>3, <2>4, <2>5, StoresKept, NothingStored
<1>5. CASE UpdateStep
  <2>1. UNCHANGED <<nodes, accounts, cycle, before>>
    BY <1>5, UpdateMoves DEF files
  <2>2. made' = made /\ (copy' = copy \/ copy' = NoCopy)
    BY <1>5 DEF UpdateStep, CompareVersions, QueryBefore, InstallPackage,
       QueryAfter, UpdateFrame, Ends
  <2>3. QED
    BY <1>1, <2>1, <2>2, StoresKept
<1>6. CASE Killed
  <2>1. UNCHANGED <<nodes, accounts, made, before, cycle>> /\ copy' = NoCopy
    BY <1>6 DEF Killed, files, Ends
  <2>2. QED
    BY <1>1, <2>1, StoresKept
<1>7. CASE OtherStep
  <2>0. copy' = copy /\ before' = before
    BY <1>7, OtherMoves
  <2>1. CASE CycleLoads
    <3>1. /\ UNCHANGED <<nodes, accounts, made>> /\ cycle'.accounts = accounts
      BY <2>1 DEF CycleLoads, files, NoCopy
    <3>2. QED
      BY <1>1, <2>0, <3>1 DEF StoreTypes, IsStore
  <2>2. CASE CycleSaves
    <3>1. nodes' = nodes /\ made' = made /\ cycle' = NoCopy
      BY <2>2 DEF CycleSaves, limits
    <3>2. QED
      BY <1>1, <2>0, <2>2, <3>1, CounterTurn, StoresKept
  <2>3. CASE PanelEdits
    <3>1. cycle' = cycle
      BY <2>3 DEF PanelEdits
    <3>2. QED
      BY <2>0, <2>3, <3>1, EditsTurn, StoresKept
  <2>4. QED
    BY <1>7, <2>1, <2>2, <2>3 DEF OtherStep
<1>8. CASE Reinstall
  <2>1. UNCHANGED <<nodes, accounts, made, before, cycle, copy>>
    BY <1>8, ReinstallMoves DEF files, lifeHistory, limits
  <2>2. QED
    BY <1>1, <2>1, StoresKept
<1>9. QED
  BY <1>2, <1>3, <1>4, <1>5, <1>6, <1>7, <1>8, LifeSteps

-----------------------------------------------------------------------------
(***************************************************************************)
(* What a provisioning has done by the place where it is, and that a       *)
(* running core has the document on disk unless a restart went wrong.      *)
(***************************************************************************)
CoreFits == ~adrift /\ document.nodes # {} /\ "core" \in parts => core = document

Staged ==
    /\ Sound(job.doc) /\ before.goal = <<job.doc>>
    /\ job.at \in {"deployed", "firewall", "service"} =>
          "core" \in parts /\ document.nodes # {}
    /\ job.at \in {"firewall", "service"} => cfg.deployed

\* The document that is applied has the nodes of the store.
LEMMA RenderedNodes ==
    ASSUME NEW ns, NEW accs, ns # {}
    PROVE  RenderedFrom(ns, accs).nodes # {}
BY DEF RenderedFrom

\* What the apply leaves.
LEMMA AppliedTurn ==
    ASSUME ApplyStore, nodes # {}
    PROVE  /\ To("deployed") /\ "core" \in parts' /\ document'.nodes # {}
           /\ adrift' = (adrift /\ document' # core')
           /\ cfg' = cfg /\ before' = before /\ outcome' = outcome
           /\ \/ UNCHANGED <<document, core, parts>>
              \/ core' = document'
<1>1. /\ Applied /\ To("deployed") /\ outcome' = outcome
      /\ adrift' = (adrift /\ document' # core') /\ cfg' = cfg /\ before' = before
  BY DEF ApplyStore
<1> DEFINE now == RenderedFrom(nodes, accounts)
<1>2. now.nodes # {}
  BY RenderedNodes
<1>3. \/ "core" \in parts /\ document = now /\ UNCHANGED <<document, core, parts>>
      \/ document' = now /\ core' = now /\ "core" \in parts'
  BY <1>1 DEF Applied
<1> HIDE DEF now
<1>4. QED
  BY <1>1, <1>2, <1>3

\* The core and its document at every step of a provisioning.
LEMMA CoreOfProvisions ==
    ASSUME CoreFits, ProvisionStep
    PROVE  CoreFits'
<1>1. CASE \/ ApplyNode \/ LoadAccounts \/ ApplyAccount \/ SaveSettings
           \/ SaveDeployed
  BY <1>1 DEF ApplyNode, LoadAccounts, ApplyAccount, SaveSettings, SaveDeployed,
     CoreFits, files, lifeHistory
<1>2. CASE FreePort \/ SetTimer \/ SetRules
  <2>1. UNCHANGED <<document, core, adrift>>
    BY <1>2 DEF FreePort, SetTimer, SetRules, files, lifeHistory
  <2>2. parts' \subseteq parts \cup {"timer", "rules", "rules unit", "rules boot"}
    BY <1>2 DEF FreePort, SetTimer, SetRules
  <2>3. QED
    BY <2>1, <2>2 DEF CoreFits
<1>3. CASE OrderPair \/ InstallPair \/ IssueFails
  <2>1. /\ UNCHANGED <<document, adrift>>
        /\ CoreBack \/ UNCHANGED <<parts, core>>
    BY <1>3 DEF OrderPair, InstallPair, IssueFails, files, lifeHistory
  <2>2. QED
    BY <2>1 DEF CoreBack, CoreFits
<1>4. CASE ApplyStore
  <2>1. CASE nodes = {}
    <3>1. UNCHANGED <<document, core, parts>>
          /\ adrift' = (adrift /\ document' # core')
      BY <1>4, <2>1 DEF ApplyStore
    <3>2. ~adrift' => ~adrift \/ document' = core'
      BY <3>1
    <3>3. QED
      BY <3>1, <3>2 DEF CoreFits
  <2>2. CASE nodes # {}
    <3>1. ~adrift' => ~adrift \/ document' = core'
      BY <1>4, <2>2, AppliedTurn
    <3>2. QED
      BY <1>4, <2>2, <3>1, AppliedTurn DEF CoreFits
  <2>3. QED
    BY <2>1, <2>2
<1>5. CASE ApplyFails
  <2>1. /\ core' = core /\ adrift' = (adrift \/ document' # document)
        /\ "core" \in parts' => "core" \in parts
    BY <1>5 DEF ApplyFails
  <2>2. ~adrift' => ~adrift /\ document' = document
    BY <2>1
  <2>3. QED
    BY <2>1, <2>2 DEF CoreFits
<1>6. CASE StartService
  <2>1. UNCHANGED <<document, core, adrift>>
    BY <1>6 DEF StartService, files
  <2>2. parts' \subseteq parts \cup {"sub", "sub unit", "sub boot"}
    BY <1>6 DEF StartService
  <2>3. QED
    BY <2>1, <2>2 DEF CoreFits
<1>7. QED
  BY <1>1, <1>2, <1>3, <1>4, <1>5, <1>6 DEF ProvisionStep

\* And at every other step.
LEMMA CoreStep ==
    ASSUME JobTypes, CoreFits, LifeNext
    PROVE  CoreFits'
<1>0. JobIs
  BY DEF JobTypes
<1>1. CASE StartStep
  BY <1>1, StartMoves DEF CoreFits, files
<1>2. CASE ProvisionStep
  BY <1>2, CoreOfProvisions
<1>3. CASE UninstallStep
  <2>1. core' = core /\ adrift' = adrift
    BY <1>3 DEF UninstallStep, BackUp, StashPair, RemovePart, RemoveFiles,
       RestorePair, RemovalFails, lifeHistory
  <2>2. document' = document \/ document'.nodes = {}
    BY <1>3 DEF UninstallStep, BackUp, StashPair, RemovePart, RemoveFiles,
       RestorePair, RemovalFails, files, NoDocument
  <2>3. parts' \subseteq parts
    BY <1>3 DEF UninstallStep, BackUp, StashPair, RemovePart, RemoveFiles,
       RestorePair, RemovalFails
  <2>4. QED
    BY <2>1, <2>2, <2>3 DEF CoreFits
<1>4. CASE UpdateStep
  <2>1. UNCHANGED <<document, core, parts>>
    BY <1>4, UpdateMoves DEF files
  <2>2. adrift' = adrift
    BY <1>4 DEF UpdateStep, CompareVersions, QueryBefore, InstallPackage,
       QueryAfter, UpdateFrame
  <2>3. QED
    BY <2>1, <2>2 DEF CoreFits
<1>5. CASE Killed
  BY <1>5 DEF Killed, CoreFits, files
<1>6. CASE OtherStep
  BY <1>6, OtherMoves DEF CoreFits
<1>7. CASE Reinstall
  <2>1. /\ UNCHANGED <<document, core, adrift>> /\ parts' = parts \cup {"panel"}
    BY <1>7, ReinstallMoves DEF files, lifeHistory
  <2>2. "core" \in parts' => "core" \in parts
    BY <2>1
  <2>3. QED
    BY <2>1, <2>2 DEF CoreFits
<1>8. QED
  BY <1>1, <1>2, <1>3, <1>4, <1>5, <1>6, <1>7, LifeSteps

\* A provisioning is where it has got to.
LEMMA StagedStep ==
    ASSUME JobTypes, job.kind = "provision" => Staged, LifeNext
    PROVE  job'.kind = "provision" => Staged'
<1>0. JobIs /\ JobIs'
  BY JobTypesStep DEF JobTypes
<1>1. CASE StartStep
  <2>1. SUFFICES ASSUME job'.kind = "provision" PROVE Staged'
    OBVIOUS
  <2>2. PICK d \in Documents : /\ Provision(d) /\ job'.doc = d /\ job'.at = "nodes"
    BY <1>1, <2>1, StartMoves DEF UninstallJob, UpdateJob
  <2>3. Sound(d) /\ before'.goal = <<d>>
    BY <2>2 DEF Provision
  <2>4. QED
    BY <2>2, <2>3 DEF Staged
<1>2. CASE ProvisionStep
  <2>1. SUFFICES ASSUME job'.kind = "provision" PROVE Staged'
    OBVIOUS
  <2>2. /\ job.kind = "provision" /\ Staged /\ job'.doc = job.doc /\ before' = before
        /\ job' # NoJob
    BY <1>0, <1>2, <2>1, ProvisionMoves, JobTells
  <2>3. Sound(job'.doc) /\ before'.goal = <<job'.doc>>
    BY <2>2 DEF Staged
  <2>4. CASE ApplyNode \/ ApplyAccount
    <3>1. Onward
      BY <2>2, <2>4 DEF ApplyNode, ApplyAccount, Refused, Ends
    <3>2. job'.at = job.at /\ job.at \in {"nodes", "accounts"}
      BY <1>0, <2>2, <2>4, <3>1, ProvisionOnward DEF ApplyNode, ApplyAccount, Doing
    <3>3. QED
      BY <2>3, <3>2 DEF Staged
  <2>5. CASE \/ LoadAccounts \/ FreePort \/ OrderPair \/ InstallPair \/ SetTimer
             \/ SaveSettings
    <3>1. \/ \E at \in {"accounts", "config", "pair", "timer", "apply"} : To(at)
          \/ job' = [job EXCEPT !.at = "issue", !.stopped = "core" \in parts]
      BY <2>5 DEF LoadAccounts, FreePort, OrderPair, InstallPair, SetTimer,
         SaveSettings
    <3>2. {"accounts", "config", "pair", "timer", "apply"} \subseteq Places
      BY DEF Places
    <3>3. job'.at \in {"accounts", "config", "pair", "timer", "apply", "issue"}
      <4>1. CASE \E at \in {"accounts", "config", "pair", "timer", "apply"} : To(at)
        BY <1>0, <2>2, <3>2, <4>1, ProvisionTo
      <4>2. CASE job' = [job EXCEPT !.at = "issue", !.stopped = "core" \in parts]
        <5>1. job \in ProvisionJob
          BY <1>0, <2>2, JobTells
        <5>2. QED
          BY <4>2, <5>1 DEF ProvisionJob
      <4>3. QED
        BY <3>1, <4>1, <4>2
    <3>4. QED
      BY <2>3, <3>3 DEF Staged
  <2>6. CASE IssueFails \/ ApplyFails \/ StartService
    BY <2>2, <2>6 DEF IssueFails, ApplyFails, StartService, Ends
  <2>7. CASE ApplyStore
    <3>1. nodes # {}
      BY <2>2, <2>7 DEF ApplyStore, Ends
    <3>2. /\ To("deployed") /\ "core" \in parts' /\ document'.nodes # {}
      BY <2>7, <3>1, AppliedTurn
    <3>3. "deployed" \in Places
      BY DEF Places
    <3>4. job'.at = "deployed"
      BY <1>0, <2>2, <3>2, <3>3, ProvisionTo
    <3>5. QED
      BY <2>3, <3>2, <3>4 DEF Staged
  <2>8. CASE SaveDeployed
    <3>1. /\ job.at = "deployed" /\ To("firewall") /\ cfg'.deployed
          /\ UNCHANGED <<parts, document>>
      BY <2>8 DEF SaveDeployed, Doing
    <3>2. "firewall" \in Places
      BY DEF Places
    <3>3. job'.at = "firewall"
      BY <1>0, <2>2, <3>1, <3>2, ProvisionTo
    <3>4. QED
      BY <2>2, <2>3, <3>1, <3>3 DEF Staged
  <2>9. CASE SetRules
    <3>1. /\ job.at = "firewall" /\ To("service") /\ parts \subseteq parts'
          /\ UNCHANGED <<cfg, document>>
      BY <2>9 DEF SetRules, Doing, files
    <3>2. "service" \in Places
      BY DEF Places
    <3>3. job'.at = "service"
      BY <1>0, <2>2, <3>1, <3>2, ProvisionTo
    <3>4. QED
      BY <2>2, <2>3, <3>1, <3>3 DEF Staged
  <2>10. QED
    BY <1>2, <2>4, <2>5, <2>6, <2>7, <2>8, <2>9 DEF ProvisionStep
<1>3. CASE UninstallStep
  BY <1>0, <1>3, UninstallMoves, JobTells DEF UninstallJob
<1>4. CASE UpdateStep
  BY <1>0, <1>4, UpdateMoves, JobTells DEF UpdateJob
<1>5. CASE Killed
  BY <1>0, <1>5, KilledMoves, JobTells
<1>6. CASE OtherStep
  BY <1>6, OtherMoves DEF Staged
<1>7. CASE Reinstall
  BY <1>0, <1>7, ReinstallMoves, JobTells
<1>8. QED
  BY <1>1, <1>2, <1>3, <1>4, <1>5, <1>6, <1>7, LifeSteps

-----------------------------------------------------------------------------
(***************************************************************************)
(* A provisioning nobody disturbed.  Its copies are the stores but for the *)
(* bytes counted meanwhile, the nodes and accounts it has passed are there *)
(* as its document asks, and on a host that fitted it has changed nothing. *)
(***************************************************************************)
Agrees(f, g) ==
    /\ DOMAIN f = DOMAIN g
    /\ \A n \in DOMAIN g : /\ f[n].token = g[n].token /\ f[n].picks = g[n].picks
                           /\ f[n].quota = g[n].quota /\ f[n].used >= g[n].used

Granted(want, ns, accs) ==
    /\ want.name \in DOMAIN accs
    /\ Named(ns, want.words) \subseteq accs[want.name].picks
    /\ want.quota = accs[want.name].quota

Serving ==
    \A j \in DOMAIN job.doc.nodes :
       job.at # "nodes" \/ j < job.step =>
          \E n \in nodes : Serves(n, job.doc.nodes[j])

Granting ==
    \A j \in DOMAIN job.doc.accounts :
       job.at \notin {"nodes", "accounts"} \/ (job.at = "accounts" /\ j < job.step) =>
          Granted(job.doc.accounts[j], nodes, copy.accounts)

Keeping ==
    before.fits =>
       /\ Fits(job.doc, before.nodes, before.accounts)
       /\ nodes = before.nodes /\ Agrees(accounts, before.accounts)
       /\ job.at # "nodes" => Agrees(copy.accounts, before.accounts)

Converging ==
    /\ nodes = copy.nodes
    /\ job.at # "nodes" => Agrees(accounts, copy.accounts)
    /\ Serving /\ Granting /\ Keeping

Going == job.kind = "provision" /\ Undisturbed => Converging

\* A store agrees with itself, and agreement passes on.
LEMMA AgreesSelf ==
    ASSUME NEW f, IsStore(f)
    PROVE  Agrees(f, f)
<1>1. \A n \in DOMAIN f : f[n].used \in Nat
  BY DEF IsStore, AccountRecord
<1>2. QED
  BY <1>1 DEF Agrees

\* Agreement passes on.
LEMMA AgreesOn ==
    ASSUME NEW f, NEW g, NEW h, IsStore(f), IsStore(g), IsStore(h),
           Agrees(f, g), Agrees(g, h)
    PROVE  Agrees(f, h)
<1>1. /\ DOMAIN f = DOMAIN h /\ DOMAIN g = DOMAIN h
  BY DEF Agrees
<1>2. ASSUME NEW n \in DOMAIN h
      PROVE  f[n].used \in Nat /\ g[n].used \in Nat /\ h[n].used \in Nat
  BY <1>1, <1>2 DEF IsStore, AccountRecord
<1>3. QED
  BY <1>1, <1>2 DEF Agrees

\* What a document asks for, an agreeing store has as well.
LEMMA FitsOn ==
    ASSUME NEW d, NEW ns, NEW f, NEW g, Fits(d, ns, g), Agrees(f, g)
    PROVE  Fits(d, ns, f)
BY DEF Fits, Agrees

\* A step of the loop that overlapped nothing only counts.
LEMMA CounterAgrees ==
    ASSUME StoreTypes, CycleSaves, ~overlap'
    PROVE  ~overlap /\ Agrees(accounts', accounts)
<1>1. ~overlap /\ accounts = cycle.accounts
  <2>1. overlap' = (overlap \/ accounts # cycle.accounts)
    BY DEF CycleSaves
  <2>2. QED
    BY <2>1
<1>2. QED
  BY <1>1, CounterTurn DEF Agrees

\* What else happens without disturbing a provisioning leaves the nodes
\* alone, and of the accounts only counts.
LEMMA OthersCount ==
    ASSUME StoreTypes, OtherStep, Undisturbed'
    PROVE  /\ Undisturbed /\ nodes' = nodes /\ Agrees(accounts', accounts)
           /\ IsStore(accounts')
<1>1. IsStore(accounts)
  BY DEF StoreTypes
<1>2. CASE CycleLoads
  <2>1. UNCHANGED <<nodes, accounts, overlap, others>>
    BY <1>2 DEF CycleLoads, files, lifeHistory
  <2>2. QED
    BY <1>1, <2>1, AgreesSelf DEF Undisturbed
<1>3. CASE CycleSaves
  <2>1. UNCHANGED <<nodes, others>>
    BY <1>3 DEF CycleSaves
  <2>2. QED
    BY <1>3, <2>1, CounterAgrees, CounterTurn DEF Undisturbed
<1>4. CASE PanelEdits
  BY <1>4 DEF PanelEdits, Undisturbed
<1>5. QED
  BY <1>2, <1>3, <1>4 DEF OtherStep

\* A provisioning is not disturbed by what only counts.
LEMMA GoingOfOthers ==
    ASSUME StoreTypes, Going, OtherStep
    PROVE  Going'
<1>1. SUFFICES ASSUME job'.kind = "provision", Undisturbed'
               PROVE  Converging'
  BY DEF Going
<1>2. /\ Undisturbed /\ nodes' = nodes /\ Agrees(accounts', accounts)
      /\ IsStore(accounts')
  BY <1>1, OthersCount
<1>3. UNCHANGED <<job, copy, before>>
  BY OtherMoves
<1>4. Converging
  BY <1>1, <1>2, <1>3 DEF Going
<1>5. IsStore(accounts) /\ IsStore(copy.accounts) /\ IsStore(before.accounts)
  BY DEF StoreTypes
<1>6. job.at # "nodes" => Agrees(accounts', copy.accounts)
  BY <1>2, <1>4, <1>5, AgreesOn DEF Converging
<1>7. before.fits => Agrees(accounts', before.accounts)
  BY <1>2, <1>4, <1>5, AgreesOn DEF Converging, Keeping
<1>8. Keeping'
  BY <1>2, <1>3, <1>4, <1>7 DEF Converging, Keeping
<1>9. Serving' /\ Granting'
  BY <1>2, <1>3, <1>4 DEF Converging, Serving, Granting
<1>10. QED
  BY <1>2, <1>3, <1>4, <1>6, <1>8, <1>9 DEF Converging

\* A provisioning starts with nothing done, on the host as it finds it.
LEMMA GoingStarts ==
    ASSUME StoreTypes, NEW d \in Documents, Provision(d),
           job' \in ProvisionJob, job'.at = "nodes", job'.step = 1, job'.doc = d
    PROVE  Converging'
<1>1. /\ nodes' = nodes /\ accounts' = accounts /\ copy'.nodes = nodes
      /\ before' = [nodes |-> nodes, accounts |-> accounts,
                    fits |-> Fits(d, nodes, accounts), version |-> version,
                    goal |-> <<d>>]
  BY DEF Provision, files
<1>2. /\ before'.nodes = nodes /\ before'.accounts = accounts
      /\ before'.fits => Fits(d, nodes, accounts)
  BY <1>1
<1>3. Agrees(accounts, accounts)
  BY AgreesSelf DEF StoreTypes
<1>4. Keeping'
  BY <1>1, <1>2, <1>3 DEF Keeping
<1>5. Serving' /\ Granting'
  <2>1. DOMAIN d.nodes = 1..Len(d.nodes) /\ Len(d.nodes) \in Nat
    BY DocumentParts
  <2>2. \A j \in DOMAIN d.nodes : ~(j < 1)
    BY <2>1
  <2>3. QED
    BY <2>2 DEF Serving, Granting
<1>6. QED
  BY <1>1, <1>4, <1>5 DEF Converging

\* Settling a node: it is there afterwards, and was there on a host that
\* fitted.
LEMMA GoingOfNodes ==
    ASSUME JobTypes, StoreTypes, Going, ApplyNode, job'.kind = "provision",
           Undisturbed'
    PROVE  Converging'
<1> DEFINE want == job.doc.nodes[job.step]
<1>1. /\ job \in ProvisionJob /\ job.kind = "provision" /\ job.at = "nodes"
      /\ job.step \in DOMAIN job.doc.nodes
      /\ UNCHANGED <<accounts, before, others>>
  BY ApplyNodeTurn
<1>2. job.doc \in Documents /\ job.step \in Nat /\ JobIs
  BY <1>1 DEF ProvisionJob, JobTypes
<1>3. /\ Onward
      /\ copy'.nodes = nodes' /\ copy'.accounts = copy.accounts
      /\ ~overlap /\ nodes = copy.nodes
      /\ nodes \subseteq nodes' /\ \E n \in nodes' : Serves(n, want)
      /\ nodes' # nodes => ~\E n \in nodes : Serves(n, want)
  <2>1. job' # NoJob
    BY JobTells, <1>2
  <2>2. CASE /\ Onward /\ \E n \in copy.nodes : Serves(n, want)
             /\ UNCHANGED <<nodes, copy, overlap, made, outcome>>
    <3>1. Undisturbed
      BY <1>1, <2>2 DEF Undisturbed
    <3>2. nodes = copy.nodes
      BY <1>1, <3>1 DEF Going, Converging
    <3>3. QED
      BY <2>2, <3>1, <3>2 DEF Undisturbed
  <2>3. CASE /\ Onward /\ ~\E n \in copy.nodes : Serves(n, want)
             /\ \E new \in NodeRecord :
                   Serves(new, want) /\ nodes' = copy.nodes \cup {new}
             /\ copy'.nodes = nodes' /\ copy'.accounts = copy.accounts
             /\ ~overlap' => ~overlap /\ nodes = copy.nodes
    BY <2>3 DEF Undisturbed
  <2>4. QED
    BY <2>1, <2>2, <2>3, ApplyNodeTurn
<1>4. Undisturbed /\ Converging
  BY <1>1, <1>3 DEF Going, Undisturbed
<1>5. job'.at = "nodes" /\ job'.step = job.step + 1 /\ job'.doc = job.doc
  BY <1>1, <1>2, <1>3, ProvisionOnward
<1>6. Serving'
  <2>1. SUFFICES ASSUME NEW j \in DOMAIN job.doc.nodes, j < job.step + 1
                 PROVE  \E n \in nodes' : Serves(n, job.doc.nodes[j])
    BY <1>5 DEF Serving
  <2>2. j \in Nat
    BY <1>2, DocumentParts
  <2>3. CASE j < job.step
    <3>1. PICK n \in nodes : Serves(n, job.doc.nodes[j])
      BY <1>4, <2>3 DEF Converging, Serving
    <3>2. QED
      BY <1>3, <3>1
  <2>4. CASE j = job.step
    BY <1>3, <2>4
  <2>5. QED
    BY <1>2, <2>1, <2>2, <2>3, <2>4
<1>7. Granting'
  BY <1>5 DEF Granting
<1>8. Keeping'
  <2>1. SUFFICES ASSUME before.fits
                 PROVE  /\ Fits(job.doc, before.nodes, before.accounts)
                        /\ nodes' = before.nodes /\ Agrees(accounts, before.accounts)
    BY <1>1, <1>5 DEF Keeping
  <2>2. /\ Fits(job.doc, before.nodes, before.accounts)
        /\ nodes = before.nodes /\ Agrees(accounts, before.accounts)
    BY <1>4, <2>1 DEF Converging, Keeping
  <2>3. \E n \in nodes : Serves(n, want)
    BY <1>1, <2>2 DEF Fits
  <2>4. QED
    BY <1>3, <2>2, <2>3
<1>9. QED
  BY <1>3, <1>5, <1>6, <1>7, <1>8 DEF Converging

\* The accounts are loaded when every node is there.
LEMMA GoingOfLoad ==
    ASSUME JobTypes, StoreTypes, Going, LoadAccounts, Undisturbed'
    PROVE  Converging'
<1>1. /\ job.kind = "provision" /\ job.at = "nodes"
      /\ job.step \notin DOMAIN job.doc.nodes /\ To("accounts")
      /\ copy' = [copy EXCEPT !.accounts = accounts]
      /\ UNCHANGED <<nodes, accounts, before, overlap, others>>
  BY DEF LoadAccounts, Doing, files, lifeHistory
<1>2. copy = [nodes |-> copy.nodes, accounts |-> copy.accounts, held |-> copy.held]
  BY DEF StoreTypes
<1>3. copy'.nodes = copy.nodes /\ copy'.accounts = accounts
  BY <1>1, <1>2
<1>4. "accounts" \in Places /\ JobIs
  BY DEF Places, JobTypes
<1>5. /\ job \in ProvisionJob /\ job.doc \in Documents /\ job.step \in Nat \ {0}
      /\ job'.at = "accounts" /\ job'.step = 1 /\ job'.doc = job.doc
  BY <1>1, <1>4, ProvisionTo, JobTells DEF ProvisionJob
<1>6. Converging
  BY <1>1 DEF Going, Undisturbed
<1>7. Serving'
  <2>1. DOMAIN job.doc.nodes = 1..Len(job.doc.nodes) /\ Len(job.doc.nodes) \in Nat
    BY <1>5, DocumentParts
  <2>2. \A j \in DOMAIN job.doc.nodes : j < job.step
    BY <1>1, <1>5, <2>1
  <2>3. QED
    BY <1>1, <1>5, <1>6, <2>2 DEF Converging, Serving
<1>8. Granting'
  <2>1. DOMAIN job.doc.accounts = 1..Len(job.doc.accounts)
        /\ Len(job.doc.accounts) \in Nat
    BY <1>5, DocumentParts
  <2>2. \A j \in DOMAIN job.doc.accounts : ~(j < 1)
    BY <2>1
  <2>3. QED
    BY <1>5, <2>2 DEF Granting
<1>9. Keeping'
  BY <1>1, <1>3, <1>5, <1>6 DEF Converging, Keeping
<1>10. Agrees(accounts, accounts)
  BY AgreesSelf DEF StoreTypes
<1>11. QED
  BY <1>1, <1>3, <1>5, <1>6, <1>7, <1>8, <1>9, <1>10 DEF Converging

\* Settling an account: it is granted afterwards, those before it stay as
\* they are, and on a host that fitted it is what it was.
LEMMA GoingOfAccounts ==
    ASSUME JobTypes, StoreTypes, Going, Staged, ApplyAccount, job'.kind = "provision",
           Undisturbed'
    PROVE  Converging'
<1> DEFINE a == job.doc.accounts[job.step]
<1>1. /\ job \in ProvisionJob /\ job.kind = "provision" /\ job.at = "accounts"
      /\ job.step \in DOMAIN job.doc.accounts
      /\ UNCHANGED <<nodes, before, others>>
  BY ApplyAccountTurn
<1>2. job.doc \in Documents /\ job.step \in Nat /\ JobIs
  BY <1>1 DEF ProvisionJob, JobTypes
<1>3. /\ Onward /\ copy'.accounts = accounts' /\ copy'.nodes = copy.nodes
      /\ accounts' = [n \in DOMAIN copy.accounts \cup {a.name} |->
                        IF n = a.name THEN SettledAccount(a) ELSE copy.accounts[n]]
      /\ ~overlap /\ accounts = copy.accounts
  <2>1. job' # NoJob
    BY JobTells, <1>2
  <2>2. QED
    BY <2>1, ApplyAccountTurn DEF Undisturbed
<1>4. Undisturbed /\ Converging
  BY <1>1, <1>3 DEF Going, Undisturbed
<1>5. job'.at = "accounts" /\ job'.step = job.step + 1 /\ job'.doc = job.doc
  BY <1>1, <1>2, <1>3, ProvisionOnward
<1>6. a \in [name : STRING, words : SUBSET STRING, quota : Nat]
  BY <1>1, <1>2, DocumentParts
<1>7. PICK put : put = [n \in DOMAIN copy.accounts \cup {a.name} |->
                          IF n = a.name THEN SettledAccount(a) ELSE copy.accounts[n]]
  OBVIOUS
<1>8. accounts' = put /\ copy'.accounts = put
  BY <1>3, <1>7
<1>9. /\ IsStore(put) /\ DOMAIN put = DOMAIN copy.accounts \cup {a.name}
      /\ put[a.name] = SettledAccount(a)
      /\ \A n \in DOMAIN copy.accounts : n # a.name => put[n] = copy.accounts[n]
  BY <1>6, <1>7, SettledStore
<1> HIDE DEF a
<1>10. nodes = copy.nodes
  BY <1>4 DEF Converging
<1>11. ASSUME NEW j \in DOMAIN job.doc.accounts, j < job.step + 1
       PROVE  Granted(job.doc.accounts[j], nodes, put)
  <2>1. j \in Nat
    BY <1>2, DocumentParts
  <2>2. CASE j = job.step
    <3>1. Granted(a, nodes, put)
      BY <1>6, <1>9, <1>10, SettledIs DEF Granted
    <3>2. QED
      BY <2>2, <3>1 DEF a
  <2>3. CASE j < job.step
    <3>1. Granted(job.doc.accounts[j], nodes, copy.accounts)
      BY <1>1, <1>4, <2>3 DEF Converging, Granting
    <3>2. job.doc.accounts[j].name # a.name
      BY <1>1, <1>2, <2>1, <2>3 DEF Staged, Sound, a
    <3>3. QED
      BY <1>9, <3>1, <3>2 DEF Granted
  <2>4. QED
    BY <1>2, <1>11, <2>1, <2>2, <2>3
<1>12. Granting'
  BY <1>1, <1>5, <1>8, <1>11 DEF Granting
<1>13. Serving'
  BY <1>1, <1>4, <1>5 DEF Converging, Serving
<1>14. ASSUME before.fits
       PROVE  /\ Fits(job.doc, before.nodes, before.accounts)
              /\ nodes = before.nodes /\ Agrees(put, before.accounts)
  <2>1. /\ Fits(job.doc, before.nodes, before.accounts)
        /\ nodes = before.nodes /\ Agrees(copy.accounts, before.accounts)
    BY <1>1, <1>4, <1>14 DEF Converging, Keeping
  <2>2. Granted(a, before.nodes, before.accounts)
    BY <1>1, <2>1 DEF Fits, Granted, a
  <2>3. a.name \in DOMAIN copy.accounts /\ DOMAIN put = DOMAIN before.accounts
    BY <1>9, <2>1, <2>2 DEF Agrees, Granted
  <2>4. Agrees(put, before.accounts)
    <3>1. SUFFICES ASSUME NEW n \in DOMAIN before.accounts
                   PROVE  /\ put[n].token = before.accounts[n].token
                          /\ put[n].picks = before.accounts[n].picks
                          /\ put[n].quota = before.accounts[n].quota
                          /\ put[n].used >= before.accounts[n].used
      BY <2>3 DEF Agrees
    <3>2. /\ copy.accounts[n].token = before.accounts[n].token
          /\ copy.accounts[n].picks = before.accounts[n].picks
          /\ copy.accounts[n].quota = before.accounts[n].quota
          /\ copy.accounts[n].used >= before.accounts[n].used
          /\ n \in DOMAIN copy.accounts
      BY <2>1 DEF Agrees
    <3>3. CASE n # a.name
      BY <1>9, <3>2, <3>3
    <3>4. CASE n = a.name
      <4>1. Named(copy.nodes, a.words) \subseteq copy.accounts[a.name].picks
        BY <1>10, <2>1, <2>2, <3>2, <3>4 DEF Granted
      <4>2. /\ SettledAccount(a).quota = a.quota
            /\ SettledAccount(a).token = copy.accounts[a.name].token
            /\ SettledAccount(a).used = copy.accounts[a.name].used
            /\ SettledAccount(a).picks =
                  copy.accounts[a.name].picks \cup Named(copy.nodes, a.words)
        BY <1>6, <2>3, SettledIs
      <4>3. SettledAccount(a).picks = copy.accounts[a.name].picks
        BY <4>1, <4>2
      <4>4. a.quota = before.accounts[a.name].quota
        BY <2>2 DEF Granted
      <4>5. QED
        BY <1>9, <3>2, <3>4, <4>2, <4>3, <4>4
    <3>5. QED
      BY <3>3, <3>4
  <2>5. QED
    BY <2>1, <2>4
<1>15. Keeping'
  BY <1>1, <1>5, <1>8, <1>14 DEF Keeping
<1>16. Agrees(put, put)
  BY <1>9, AgreesSelf
<1>17. QED
  BY <1>1, <1>3, <1>8, <1>10, <1>12, <1>13, <1>15, <1>16 DEF Converging

\* From the accounts on a provisioning writes neither store.
LEMMA GoingOfRest ==
    ASSUME JobTypes, Going, ProvisionStep, ~ApplyNode, ~ApplyAccount, ~LoadAccounts,
           job'.kind = "provision", Undisturbed'
    PROVE  Converging'
<1>1. job.kind = "provision" /\ JobIs /\ job'.doc = job.doc /\ job' # NoJob
  BY ProvisionMoves, JobTells DEF JobTypes
<1>2. UNCHANGED <<nodes, accounts, before, overlap, others, copy>>
  BY <1>1, OtherProvisions
<1>3. Converging
  BY <1>1, <1>2 DEF Going, Undisturbed
<1>4. job.at # "nodes" /\ (job.at = "accounts" => job.step \notin DOMAIN job.doc.accounts)
  BY DEF ProvisionStep, FreePort, OrderPair, InstallPair, IssueFails, SetTimer,
     SaveSettings, ApplyStore, ApplyFails, SaveDeployed, SetRules, StartService,
     Doing
<1>5. job'.at \notin {"nodes", "accounts"}
  <2>1. \/ \E at \in Places \ {"nodes", "accounts"} : To(at)
        \/ job' = [job EXCEPT !.at = "issue", !.stopped = "core" \in parts]
    <3>1. /\ "pair" \in Places /\ "timer" \in Places
          /\ "config" \in Places /\ "apply" \in Places
          /\ "deployed" \in Places /\ "firewall" \in Places /\ "service" \in Places
      BY DEF Places
    <3>2. CASE \/ FreePort \/ OrderPair \/ InstallPair \/ IssueFails \/ SetTimer
               \/ SaveSettings
      BY <1>1, <3>1, <3>2 DEF FreePort, OrderPair, InstallPair, IssueFails, SetTimer,
         SaveSettings, Ends
    <3>3. CASE ApplyStore \/ ApplyFails \/ SaveDeployed \/ SetRules \/ StartService
      BY <1>1, <3>1, <3>3 DEF ApplyStore, ApplyFails, SaveDeployed, SetRules,
         StartService, Ends
    <3>4. QED
      BY <3>2, <3>3 DEF ProvisionStep
  <2>2. CASE \E at \in Places \ {"nodes", "accounts"} : To(at)
    BY <1>1, <2>2, ProvisionTo
  <2>3. CASE job' = [job EXCEPT !.at = "issue", !.stopped = "core" \in parts]
    <3>1. job \in ProvisionJob
      BY <1>1, JobTells
    <3>2. job'.at = "issue"
      BY <2>3, <3>1 DEF ProvisionJob
    <3>3. QED
      BY <3>2
  <2>4. QED
    BY <2>1, <2>2, <2>3
<1>6. job \in ProvisionJob /\ job.doc \in Documents /\ job.step \in Nat \ {0}
  BY <1>1, JobTells DEF ProvisionJob
<1>7. job.at = "accounts" => \A j \in DOMAIN job.doc.accounts : j < job.step
  <2>1. DOMAIN job.doc.accounts = 1..Len(job.doc.accounts)
        /\ Len(job.doc.accounts) \in Nat
    BY <1>6, DocumentParts
  <2>2. QED
    BY <1>4, <1>6, <2>1
<1>8. Granting'
  BY <1>1, <1>2, <1>3, <1>4, <1>7 DEF Converging, Granting
<1>9. Serving' /\ Keeping'
  BY <1>1, <1>2, <1>3, <1>4 DEF Converging, Serving, Keeping
<1>10. QED
  BY <1>2, <1>3, <1>4, <1>8, <1>9 DEF Converging

\* Every step keeps it.
LEMMA GoingStep ==
    ASSUME JobTypes, StoreTypes, Going, job.kind = "provision" => Staged, LifeNext
    PROVE  Going'
<1>0. JobIs /\ JobIs'
  BY JobTypesStep DEF JobTypes
<1>1. CASE StartStep
  <2>1. SUFFICES ASSUME job'.kind = "provision"
                 PROVE  Converging'
    BY DEF Going
  <2>2. PICK d \in Documents : /\ Provision(d) /\ job' \in ProvisionJob
                               /\ job'.doc = d /\ job'.at = "nodes" /\ job'.step = 1
    BY <1>1, <2>1, StartMoves DEF UninstallJob, UpdateJob
  <2>3. QED
    BY <2>2, GoingStarts
<1>2. CASE ProvisionStep
  <2>1. SUFFICES ASSUME job'.kind = "provision", Undisturbed'
                 PROVE  Converging'
    BY DEF Going
  <2>2. Staged
    BY <1>0, <1>2, ProvisionMoves
  <2>3. QED
    BY <1>2, <2>1, <2>2, GoingOfNodes, GoingOfAccounts, GoingOfLoad, GoingOfRest
<1>3. CASE UninstallStep
  BY <1>0, <1>3, UninstallMoves, JobTells DEF UninstallJob, Going
<1>4. CASE UpdateStep
  BY <1>0, <1>4, UpdateMoves, JobTells DEF UpdateJob, Going
<1>5. CASE Killed
  BY <1>0, <1>5, KilledMoves, JobTells DEF Going
<1>6. CASE OtherStep
  BY <1>6, GoingOfOthers
<1>7. CASE Reinstall
  BY <1>0, <1>7, ReinstallMoves, JobTells DEF Going
<1>8. QED
  BY <1>1, <1>2, <1>3, <1>4, <1>5, <1>6, <1>7, LifeSteps

-----------------------------------------------------------------------------
(***************************************************************************)
(* A provisioning that has ended.                                          *)
(***************************************************************************)
OutcomeHolds ==
    /\ outcome = "provisioned" => job = NoJob /\ document.nodes # {}
    /\ RunConverges

\* Only the restart of the subscription service ends one well.
LEMMA EndsBadly ==
    ASSUME JobTypes, OutcomeHolds, ProvisionStep, ~StartService
    PROVE  outcome' # "provisioned"
<1>1. job.kind = "provision" /\ JobIs
  BY ProvisionMoves DEF JobTypes
<1>2. outcome # "provisioned"
  BY <1>1, JobTells DEF OutcomeHolds
<1>3. outcome' = outcome \/ outcome' = "error"
  BY DEF ProvisionStep, ApplyNode, LoadAccounts, ApplyAccount, FreePort,
     OrderPair, InstallPair,
     IssueFails, SetTimer, SaveSettings, ApplyStore, ApplyFails, SaveDeployed,
     SetRules, Ends, Refused
<1>4. QED
  BY <1>2, <1>3

\* It leaves the host the document asks for.
LEMMA EndsWell ==
    ASSUME JobTypes, StoreTypes, CoreFits, Going, job.kind = "provision" => Staged,
           StartService, outcome' = "provisioned"
    PROVE  OutcomeHolds'
<1>1. /\ job.kind = "provision" /\ job.at = "service"
      /\ parts' = parts \cup {"sub", "sub unit", "sub boot"}
      /\ printed' = {<<a, copy.accounts[a].token>> : a \in DOMAIN copy.accounts}
      /\ job' = NoJob
      /\ UNCHANGED <<nodes, accounts, cfg, document, core, before, overlap, others,
                     adrift>>
  BY DEF StartService, Doing, Ends, files
<1>2. job \in ProvisionJob
  BY <1>1, JobTells DEF JobTypes
<1>3. /\ before.goal = <<job.doc>> /\ "core" \in parts /\ document.nodes # {}
      /\ cfg.deployed
  BY <1>1 DEF Staged
<1>4. SUFFICES ASSUME Undisturbed'
               PROVE  /\ {"core", "sub"} \subseteq parts' /\ cfg'.deployed
                      /\ \A p \in printed' : p[1] \in DOMAIN accounts'
                                             /\ accounts'[p[1]].token = p[2]
                      /\ {p[1] : p \in printed'} = DOMAIN accounts'
                      /\ ~adrift' => core' = document'
                      /\ Fits(before'.goal[1], nodes', accounts')
                      /\ before'.fits =>
                            /\ nodes' = before'.nodes
                            /\ \A a \in DOMAIN before'.accounts :
                                  /\ a \in DOMAIN accounts'
                                  /\ accounts'[a].token = before'.accounts[a].token
                                  /\ accounts'[a].picks = before'.accounts[a].picks
                                  /\ accounts'[a].used >= before'.accounts[a].used
  BY <1>1, <1>3 DEF OutcomeHolds, RunConverges
<1>5. Converging
  BY <1>1, <1>4 DEF Going, Undisturbed
<1>6. Agrees(accounts, copy.accounts)
  BY <1>1, <1>5 DEF Converging
<1>7. {"core", "sub"} \subseteq parts' /\ cfg'.deployed
  BY <1>1, <1>3
<1>8. ASSUME NEW p \in printed'
      PROVE  p[1] \in DOMAIN accounts' /\ accounts'[p[1]].token = p[2]
  <2>1. PICK a \in DOMAIN copy.accounts : p = <<a, copy.accounts[a].token>>
    BY <1>1, <1>8
  <2>2. p[1] = a /\ p[2] = copy.accounts[a].token
    BY <2>1
  <2>3. QED
    BY <1>1, <1>6, <2>2 DEF Agrees
<1>9. {p[1] : p \in printed'} = DOMAIN accounts'
  <2>1. DOMAIN accounts' = DOMAIN copy.accounts
    BY <1>1, <1>6 DEF Agrees
  <2>2. ASSUME NEW a \in DOMAIN copy.accounts
        PROVE  \E p \in printed' : p[1] = a
    <3>1. <<a, copy.accounts[a].token>> \in printed'
      BY <1>1
    <3>2. <<a, copy.accounts[a].token>>[1] = a
      OBVIOUS
    <3>3. QED
      BY <3>1, <3>2
  <2>3. \A p \in printed' : p[1] \in DOMAIN copy.accounts
    BY <1>8, <2>1
  <2>4. QED
    BY <2>1, <2>2, <2>3
<1>10. ~adrift' => core' = document'
  BY <1>1, <1>3 DEF CoreFits
<1>11. Fits(before'.goal[1], nodes', accounts')
  <2>1. before'.goal[1] = job.doc
    <3>1. \A x : <<x>>[1] = x
      OBVIOUS
    <3>2. before'.goal = <<job.doc>>
      BY <1>1, <1>3
    <3>3. QED
      BY <3>1, <3>2
  <2>2. \A i \in DOMAIN job.doc.nodes : \E n \in nodes : Serves(n, job.doc.nodes[i])
    BY <1>1, <1>5 DEF Converging, Serving
  <2>3. \A i \in DOMAIN job.doc.accounts :
           Granted(job.doc.accounts[i], nodes, copy.accounts)
    BY <1>1, <1>5 DEF Converging, Granting
  <2>4. Fits(job.doc, nodes, copy.accounts)
    BY <2>2, <2>3 DEF Fits, Granted
  <2>5. Fits(job.doc, nodes, accounts)
    BY <1>6, <2>4, FitsOn
  <2>6. QED
    BY <1>1, <2>1, <2>5
<1>12. ASSUME before'.fits
       PROVE  /\ nodes' = before'.nodes
              /\ \A a \in DOMAIN before'.accounts :
                    /\ a \in DOMAIN accounts'
                    /\ accounts'[a].token = before'.accounts[a].token
                    /\ accounts'[a].picks = before'.accounts[a].picks
                    /\ accounts'[a].used >= before'.accounts[a].used
  BY <1>1, <1>5, <1>12 DEF Converging, Keeping, Agrees
<1>13. QED
  BY <1>7, <1>8, <1>9, <1>10, <1>11, <1>12

\* And what happens after it keeps that, unless another panel edits.
LEMMA EndedOfOthers ==
    ASSUME StoreTypes, OutcomeHolds, OtherStep
    PROVE  OutcomeHolds'
<1>1. UNCHANGED <<job, outcome, before, cfg, document, core, parts, printed, adrift>>
  BY OtherMoves
<1>2. SUFFICES ASSUME outcome = "provisioned", Undisturbed'
               PROVE  RunConverges'
  BY <1>1 DEF OutcomeHolds, RunConverges
<1>3. Undisturbed /\ nodes' = nodes /\ Agrees(accounts', accounts) /\ IsStore(accounts')
  BY <1>2, OthersCount
<1>4. /\ {"core", "sub"} \subseteq parts /\ cfg.deployed
      /\ \A p \in printed : p[1] \in DOMAIN accounts
                            /\ accounts[p[1]].token = p[2]
      /\ {p[1] : p \in printed} = DOMAIN accounts
      /\ ~adrift => core = document
      /\ Fits(before.goal[1], nodes, accounts)
      /\ before.fits =>
            /\ nodes = before.nodes
            /\ \A a \in DOMAIN before.accounts :
                  /\ a \in DOMAIN accounts
                  /\ accounts[a].token = before.accounts[a].token
                  /\ accounts[a].picks = before.accounts[a].picks
                  /\ accounts[a].used >= before.accounts[a].used
  BY <1>2, <1>3 DEF OutcomeHolds, RunConverges
<1>5. DOMAIN accounts' = DOMAIN accounts
  BY <1>3 DEF Agrees
<1>6. \A p \in printed : p[1] \in DOMAIN accounts' /\ accounts'[p[1]].token = p[2]
  BY <1>3, <1>4 DEF Agrees
<1>7. Fits(before.goal[1], nodes, accounts')
  BY <1>3, <1>4, FitsOn
<1>8. ASSUME before.fits, NEW a \in DOMAIN before.accounts
      PROVE  /\ a \in DOMAIN accounts'
             /\ accounts'[a].token = before.accounts[a].token
             /\ accounts'[a].picks = before.accounts[a].picks
             /\ accounts'[a].used >= before.accounts[a].used
  <2>1. a \in DOMAIN accounts
    BY <1>4, <1>8
  <2>2. /\ accounts'[a].used \in Nat /\ accounts[a].used \in Nat
        /\ before.accounts[a].used \in Nat
    BY <1>3, <1>5, <1>8, <2>1 DEF StoreTypes, IsStore, AccountRecord
  <2>3. accounts'[a].used >= accounts[a].used
        /\ accounts[a].used >= before.accounts[a].used
    BY <1>3, <1>4, <1>8, <2>1 DEF Agrees
  <2>4. accounts'[a].token = accounts[a].token /\ accounts'[a].picks = accounts[a].picks
    BY <1>3, <2>1 DEF Agrees
  <2>5. QED
    BY <1>4, <1>5, <1>8, <2>1, <2>2, <2>3, <2>4
<1>9. QED
  BY <1>1, <1>3, <1>4, <1>5, <1>6, <1>7, <1>8 DEF RunConverges

\* Every step ends it badly, or well, or leaves it ended.
LEMMA EndedStep ==
    ASSUME JobTypes, StoreTypes, CoreFits, Going, job.kind = "provision" => Staged,
           OutcomeHolds, LifeNext
    PROVE  OutcomeHolds'
<1>0. JobIs
  BY DEF JobTypes
<1>1. outcome' # "provisioned" => OutcomeHolds'
  BY DEF OutcomeHolds, RunConverges
<1>2. job # NoJob => outcome # "provisioned"
  BY DEF OutcomeHolds
<1>3. CASE StartStep
  BY <1>1, <1>3, StartMoves
<1>4. CASE ProvisionStep
  BY <1>1, <1>4, EndsBadly, EndsWell
<1>5. CASE UninstallStep
  <2>1. outcome # "provisioned"
    BY <1>0, <1>2, <1>5, UninstallMoves, JobTells
  <2>2. QED
    BY <1>0, <1>1, <1>5, <2>1, UninstallMoves
<1>6. CASE UpdateStep
  <2>1. outcome # "provisioned"
    BY <1>0, <1>2, <1>6, UpdateMoves, JobTells DEF UpdateJob
  <2>2. outcome' # "provisioned"
    BY <1>6, <2>1, UpdateMoves DEF Compared
  <2>3. QED
    BY <1>1, <2>2
<1>7. CASE Killed
  BY <1>1, <1>7, KilledMoves
<1>8. CASE OtherStep
  BY <1>8, EndedOfOthers
<1>9. CASE Reinstall
  BY <1>1, <1>9, ReinstallMoves
<1>10. QED
  BY <1>3, <1>4, <1>5, <1>6, <1>7, <1>8, <1>9, LifeSteps

\* What a provisioning keeps, together.
Provisions ==
    /\ JobTypes /\ StoreTypes /\ CoreFits /\ Going
    /\ job.kind = "provision" => Staged
    /\ OutcomeHolds

\* A step that changes nothing keeps it.
LEMMA ProvisionsSame ==
    Provisions /\ UNCHANGED lifeVars => Provisions'
<1>1. SUFFICES ASSUME Provisions, UNCHANGED lifeVars
               PROVE  Provisions'
  OBVIOUS
<1>2. /\ UNCHANGED <<nodes, accounts, cfg, document, core, parts, version, job, copy,
                     cycle, outcome>>
      /\ UNCHANGED <<printed, before, overlap, others, adrift, made>>
  BY <1>1 DEF lifeVars, files, lifeHistory, limits
<1>3. JobTypes'
  BY <1>1, JobTypesSame DEF Provisions
<1>4. StoreTypes' /\ CoreFits'
  BY <1>1, <1>2 DEF Provisions, StoreTypes, IsStore, CoreFits
<1>5. Going'
  BY <1>1, <1>2 DEF Provisions, Going, Undisturbed, Converging, Serving, Granting,
     Keeping
<1>6. (job.kind = "provision" => Staged)'
  BY <1>1, <1>2 DEF Provisions, Staged
<1>7. OutcomeHolds'
  BY <1>1, <1>2 DEF Provisions, OutcomeHolds, RunConverges, Undisturbed
<1>8. QED
  BY <1>3, <1>4, <1>5, <1>6, <1>7 DEF Provisions

\* It holds when the program starts.
LEMMA ProvisionsInit ==
    LifeInit => Provisions
<1>1. SUFFICES ASSUME LifeInit
               PROVE  Provisions
  OBVIOUS
<1>2. /\ nodes = {} /\ accounts = NoAccounts /\ document = NoDocument
      /\ job = NoJob /\ copy = NoCopy /\ cycle = NoCopy /\ outcome = "none"
      /\ before = NoBefore /\ made = 0
  BY <1>1 DEF LifeInit
<1>3. StoreTypes
  BY <1>2, NothingStored DEF StoreTypes
<1>4. document.nodes = {}
  BY <1>2 DEF NoDocument
<1>5. job.kind = "none"
  BY <1>2 DEF NoJob
<1>6. QED
  BY <1>1, <1>2, <1>3, <1>4, <1>5, JobTypesInit
     DEF Provisions, CoreFits, Going, OutcomeHolds, RunConverges

(* A provisioning that nobody disturbed leaves the host its document asks  *)
(* for, with the core and the subscription service running, and the        *)
(* addresses it printed are those of the accounts; on a host that fitted   *)
(* it adds nothing and rotates nothing (provision.Run).  It holds after    *)
(* any sequence of failed runs, kills, upgrades and uninstallations, and   *)
(* while the loop counts.                                                  *)
THEOREM RunsConverge ==
    LifeSpec => []RunConverges
<1>1. Provisions /\ [LifeNext]_lifeVars => Provisions'
  <2>1. SUFFICES ASSUME Provisions, LifeNext
                 PROVE  Provisions'
    BY ProvisionsSame
  <2>2. QED
    BY <2>1, JobTypesStep, StoreTypesStep, CoreStep, GoingStep, StagedStep, EndedStep
       DEF Provisions
<1>2. Provisions => RunConverges
  BY DEF Provisions, OutcomeHolds
<1>3. QED
  BY ProvisionsInit, <1>1, <1>2, PTL DEF LifeSpec

=====
