# EasySB: a TLA+ verification project

EasySB is a single Go binary that turns a host into a sing-box server with many
accounts: an operator's panel (TUI), a subscription service that also accounts
traffic, the embedded core, a toolbox of network checks, and one-shot modes for
provisioning, certificate renewal and firewall rules. These are **separate
processes that share JSON files, advisory locks, systemd units and kernel state**;
there is no server that serialises them. The interesting questions are therefore
what happens when they interleave, when a step fails or a process is killed between
two files, whether what is recorded is what runs, and whether what a screen or a
report says was seen.

Paths below are relative to `src/` of the repository.

- [Inventory](#inventory)
- [Modules](#modules)
- [What each run checks](#what-each-run-checks)
- [Bounds](#bounds)
- [Fairness](#fairness)
- [Where the code and its text disagree](#where-the-code-and-its-text-disagree)
- [What is proved](#what-is-proved)
- [What is only model-checked](#what-is-only-model-checked)
- [What is not modelled](#what-is-not-modelled)
- [Plan](#plan)
- [Running it](#running-it)

## Inventory

### Processes

| process | started by | writes |
|---|---|---|
| panel (`easysb`) | operator; several at once are possible | accounts, nodes, state file, certificates, config.json, units, firewall, sysctl drop-ins, packages, toolbox board |
| subscription service (`easysb --serve`) | systemd | accounts (loop), `easysb-stats.json`, config.json |
| core (`easysb core run`) | systemd | nothing; keeps traffic counters in memory |
| provisioning (`--provision`) | operator | state file, accounts, nodes, certificates, config.json, units, firewall |
| renewal, firewall and toolbox modes (`--renew-certs`, `--apply-firewall`, `--tool`) | timers, units, operator | certificates; rules; toolbox board |

### Components

**Account store** (`internal/user`). State: `easysb-users.json`, per account the
token, the operator's terms (enabled, quota, expiry, selected nodes), counters per
node, start of the period, and the `applied` flag (what the core was last told).
Operations: add, update, remove, reset, rotate token, `MarkApplied`, all as load /
change / rename under the account lock (`user.Locked`). Correct when: no writer
undoes another one, counters only fall at a reset, the flag says what the core was
told.

**Node store** (`internal/node`). State: `easysb-nodes.json`, per node the
protocol, name, port, enabled flag, parameters; its own lock. Operations: add,
update, remove with validation. Correct when: no edit is lost, two enabled nodes do
not share a name or a port, no account selects a node that is gone.

**Accounting loop** (`internal/stats`). State: the previous counters (memory and
`easysb-stats.json`), what it read this cycle. One cycle: peek at the accounts
without the lock, read the counters over gRPC, lock and reload the accounts, charge
the differences, roll the month over, deploy if somebody gained or lost access,
save, move the baseline. Correct when: each byte is charged once whatever fails or
restarts, and an account that must be cut off is.

**Deployment** (`internal/deploy`), **core and unit** (`internal/sbcore`,
`internal/service`), **renderer** (`internal/config`). `deploy` renders nodes and
accounts, has the core accept the document, renames it into place, restarts the
core, records the flags. Called by the panel (`ApplyStore`) and by the loop
(`Apply`). The core reads the document when it starts and counts from zero; systemd
restarts it. Correct when: after a deployment core, document and flags agree.

**Panel screens** (`internal/tui`: `users.go`, `nodes.go`, `actions.go`,
`domain.go`, `params.go`, `maintenance.go`, `bbr.go`, `toolbox.go`, `board.go`,
`links.go`). A stack of pages whose rows capture tokens, ids and lists when the page
is pushed; forms that capture values when they open; tasks started when they are
answered. Correct when: a task acts on what its page was opened for.

**Task runner** (`internal/tui/progress.go`, `app.go`). A goroutine, a log channel,
a result channel and the message loop of a single-threaded model. Correct when: no
line is lost and no screen waits for ever.

**State file** (`internal/state`). `easysb.conf`: settings (domain, sub port,
certificate, deployed flag) read and written whole, with **no lock**, by the panel,
the domain screens and provisioning.

**Migrations** (`internal/node/migrate.go`, `internal/user/migrate.go`). Run at the
start of three process kinds, turn version-1 accounts and the state file's protocol
list into nodes and selections.

**Certificates** (`internal/cert`, `tui/domain.go`). ACME account and key, issue
and renew (stopping the core to free port 80), installation of a pair, timer.

**Subscription endpoint** (`internal/subd`) and **documents**
(`internal/subscribe`). A cached account store, the order of refusals, one document
per client kind, rendered from three files read one after another. Correct when: an
answer was true while the request was under way, and the core accepts what a
document hands out.

**Firewall** (`internal/firewall`). Redirect rules for port-hopping ranges, in nft
or iptables, added and removed by what the nodes say now; a boot unit. The rules
are a list in the kernel that no lock protects. Correct when: what was applied is
there, what was removed is gone, and a datagram reaches a node that hops.

**Kernel and congestion control** (`internal/bbr`). sysctl and modules-load
drop-ins with a record of what they replaced, published kernels as packages, the
boot menu. Correct when: clearing restores what was there, an upgrade that fails
leaves a kernel.

**Provisioning, update, uninstall** (`internal/provision`, `internal/update`,
`internal/uninstall`). Long scripts over every file above, provisioning without the
stores' locks. Correct when: a run converges and a second one changes nothing, the
certificate is not ordered twice, what was left behind was reported.

**Toolbox** (`internal/toolbox`) and its **probes** (`backtrace`, `ipquality`,
`portcheck`, `speed`, and `internal/unlock`). A board file with two writers; tools
that ask others about this host, some over one shared raw socket, with timeouts,
budgets and cancellation. Correct when: a run returns, every question has an
outcome, and what a report claims was measured.

**The rest**: hardware and disk benchmarks, host facts, presentation, argument
parsing. `PROJECT.json` lists every component with its status.

### How they interact

```
 panel ──lock──> easysb-nodes.json ──read without lock──┬─────────────┐
   │  │                                                 v             v
   │  ├──lock──> easysb-users.json ──────────────> deploy.Apply    firewall rules
   │  │               ^   ^     ^                       │          (kernel, no lock)
   │  │          lock │   │     │ no lock               v
   │  │               │   │     provisioning       config.json ──> core
   │  │               │   │ read, cached                             │ counters
   │  │               │   └── endpoint                               │
   │  │               └────────────────────── loop <─────────────────┘
   │  └─ no lock ─> state file <── provisioning, domain screens
   └──── lock ────> toolbox board <── --tool
```

### What is hard

Concurrency: two files with a lock each, never held together, plus reads without a
lock on both sides; a firewall and a settings file with no lock at all; one raw
socket under many traces. Failure: every file is replaced atomically, but a change
spans several (accounts, document, core, flags, baseline; record and setting; old
and new kernel; certificate and archive). Ordering: the baseline must follow the
account file; the document must precede the restart; the new kernel the removal of
the old. Time: the month boundary, expiry while a restart is under way, replies
after their deadline. Staleness: forms, pages, the loop's peek, the deployment's
node list, the endpoint's cache. `PROJECT.json` lists these under `hazards`, each at
the line where it bites, with the properties that cover it.

## Modules

| module | what it is |
|---|---|
| `Accounts` | the account file as data and the functions its writers apply to a copy: status, routable accounts, flags, charging, monthly reset, the names a document lists |
| `Ledger` | abstract specification: the account file behaves as if every writer changed it in one atomic step |
| `Accounting` | the account file with all its concurrent writers: panels, the loop, deployment step by step, the core and its counters, the baseline file, failures |
| `NodeStore` | the node file beside the account file: node screens, selections, the cascade of a deletion, deployments that read nodes without their lock |
| `Migration` | the upgrade of a version-5 host: several processes migrate the node list and the accounts at their start, and may be killed anywhere |
| `HostState` | the settings, the certificates and the two services of a host: domain and parameter screens, nightly renewal, the provisioning script's settings |
| `Endpoint` | requests to the subscription service over files that change under them, the documents they are answered with, and the core's own document they must agree with |
| `Firewall` | redirect rules in the kernel with every task that sets or clears them, for iptables and nft, with failing commands and reboots |
| `Kernel` | BBR and the published kernels, command by command, with failures, cancellation and reboots |
| `Lifecycle` | provisioning, update and uninstall step by step, beside a cycle of the loop and another panel |
| `Panel` | the message loop: a task's goroutine and channel, prompts, keys, the board and its two writers |
| `Pages` | the stack of pages and what their rows captured, over files other processes change |
| `Trace` | the return-path tool: a worker per target, one raw socket, one reader, the lookup |
| `Checks` | the tools that ask a list of questions: ports, databases, blocklists, servers, services |
| `Unlock` | every unlock probe: its next request or its verdict, from the replies so far |
| `MCAccounting`, `MCNodeStore`, `MCMigration`, `MCHostState`, `MCEndpoint`, `MCFirewall`, `MCPanel`, `MCPages` | a module as TLC runs it: symmetry, small sets of records |
| `MCSystem` | `Kernel` and `Lifecycle`: what changes the host as a whole |
| `MCTools` | `Trace`, `Checks` and `Unlock`: one run of one tool |
| `AccountingProofs` | lemmas about the functions of `Accounts`, the theorems of `Accounting` |
| `NodeStoreProofs`, `MigrationProofs`, `HostStateProofs`, `FirewallProofs` | the theorems of one module each |
| `SystemProofs` | the theorems of `Kernel` and `Lifecycle` |
| `FrontProofs` | the theorems of `Panel` and `Endpoint` |
| `ToolsProofs` | the theorems of `Trace`, `Checks`, `Unlock` and `Pages` |

`Accounting` and `NodeStore` both build on `Accounts` and look at the same locked
file from two sides. `Accounting` fixes the set of enabled nodes and details counters
and the inside of a deployment; `NodeStore` changes the nodes, treats an
installation as one step, and takes who may connect as a decision made outside
(`barred`). `MCSystem` and `MCTools` join modules that share no state, with a
variable `kind` that picks one of them in the initial state, so that one run answers
one question about several components.

### Accounting and the code

| model | code |
|---|---|
| `disk`, `lock`, `store[p]` | `easysb-users.json`, its `.lock` sidecar, the `Store` a process holds |
| `pc[p]` | where the process is in `accountsChange` + `ApplyStore`, or in `Loop.Tick` |
| `now[p]` | the `now` the process took, not the clock at the time of use |
| `sample`, `sampled`, `sampleFile` | `Loop.sample`, `Loop.sampled`, `easysb-stats.json` |
| `config`, `active`, `serves`, `count` | `config.json`; the unit; the users and counters of the running core |
| `PanelStart … PanelSave` | one action per critical section of a panel task |
| `LoopPeek … LoopBaseline` | one action per step of `Tick` that another process can observe |
| `ApplySame`, `ApplyInstall`, `ApplyRestart` | the three things `deploy.Apply` does |
| `GiveUp`, `RestartLeavesDown`, `LoopDies`, `LoopBaselineTorn` | error returns, kills, a restart that fails halfway, a torn baseline file |
| `intent`, `charged`, `waived`, `blind`, `repeated`, `gap` | history variables; they follow, they never guide |

A step ends where the code lets go of something others can see: a lock, a file, the
core. Whatever a handler does under a lock without touching a second shared thing
is one action, including the sort, the repair and the save that end it.

### NodeStore and the code

| model | code |
|---|---|
| `nodes`, `nodeLock` | `easysb-nodes.json` and its sidecar |
| `users`, `userLock` | the selections and the applied flag of `easysb-users.json` |
| `task[p]` | what the form captured when it was opened, the number of affected accounts included |
| `snap[p]`, `copy[p]`, `judged[p]` | the nodes, accounts and clock a process read and still uses |
| `LockNodes`, `ChangeNodes`, `RefuseNodes` | `node.Locked`, the change with `Validate` and `Save`, an error |
| `AskDelete`, `Confirm`, `LockCascade`, `Cascade` | `deleteNode`: count at 477, answer at 480, removal at 487, cascade at 492-502 |
| `LookUpNodes` | `nodeByID` / `enabledSelections`: the node file read without its lock inside an account change |
| `LoadNodes`, `LockAccounts`, `Apply`, `SaveAccounts` | `ApplyStore`, in the order of its lines |
| `LoopLock`, `LoopNodes`, `LoopSettled` | the part of `Tick` that deploys |
| `GiveUp` | an error return or a kill at any of these points |

The port stands for every parameter of a node that the document depends on (SNI,
keys, short id, hop range): an edit of any of them is an edit of the port as far as
locking, validation and deployment go. Names are validated like ports, over all
nodes.

### Migration and the code

| model | code |
|---|---|
| `nodes`, `users`, `state` | the node file (missing until the first node is saved), the account file in its old or new format, the protocol keys of `easysb.conf` |
| `task[p]` | where a process is in `migrateStores` (`main.go:168`), and what it has read |
| `FoundNodes`, `NothingToMigrate`, `NoNodesYet` | the three ways `node.Migrate` begins |
| `LockNodes`, `AddNode`, `AddRefused`, `AllAdded` | its loop: one `Store.Add`, and so one save, per protocol |
| `LoadIndex`, `ReadOldAccounts`, `SaveAccounts` | `migrateAccounts` and `user.MigrateV2`, which saves without the account lock |
| `SaveState`, `LockUsers`, `EditAccount` | what a migrated process may do next: save its settings (the old keys go), change an account |
| `Ends`, `Stop`, `Killed` | `os.Exit(1)`, an orderly end, a kill |

### HostState and the code

| model | code |
|---|---|
| `conf`, `task[p].cfg`, `task[p].fresh` | `easysb.conf`; the `state.Config` a task or form carries; whether anybody has saved since it was loaded |
| `key[d]`, `chain[d]`, `due` | `private.key` and `fullchain.cer` of a domain, and whether `dueForRenewal` says so |
| `acct`, `ca` | `account.key`, `account.json`, and the accounts the CA has |
| `doc`, `core`, `ep` | the pair `config.json` names; the core and the subscription service, with what they loaded |
| `FindKey` ... `WriteRegistration` | `cert.ensureAccount`, file by file |
| `Begin` ... `SaveIssued` | `issueCertTask`: stop the core, issue, install the pair, start the core, save the settings |
| `StartProvision`, `SaveProvision` | `provision.Run`, which loads the settings before everything else |
| `ApplyLoad` ... `StartEndpoint` | `applyDeployment` and what its callers do after it |
| `RenewSkips` ... `ReloadEndpoint` | `cert.Renew` and the reloads, by the timer or the panel |
| `OpenSwitch`, `SwitchCert`, `OpenRemove`, `RemovePair`, `ClearActive`, `OpenPort`, `SavePort`, `ToggleTimer` | the other screens, split where an operator may wait |
| `Cancel`, `Kill` | Esc on the progress page, which ends the task's context, so that every later `systemctl` of it fails; a kill |
| `EndpointStarts`, `EndpointFailed`, `EndpointRetries` | the subscription service starts with the pair of the active domain; with one that does not fit it ends at once, and its unit starts it again (`Restart=always`) |
| `decided`, `meant`, `excuse` | history variables |

The nightly pass is started only when something is due: a pass with nothing to do
changes no state. The core accepts a document exactly if the pair it names can be
loaded (`Loadable`).

### Firewall and the code

| model | code |
|---|---|
| `rules` | the prerouting chain in the kernel: the first rule that covers a port decides (`Deciding`); a reboot empties it |
| `backend` | what `Detect` answers: iptables, nft, or none |
| `run[p]` | the task of a process and where it is in it; `snap` is the node list it read |
| `StartApply`, `StartRemove`, `Deploy` | the two maintenance entries; a deployment, which reaches the firewall only when it is the host's first (`tui/actions.go:81`). Removing visits every hopping node, the other tasks those switched on |
| `Look`, `AddRule`, `DeleteRule` | the check for a rule and the command that follows, per node; `Kept` is the chain without the rules the check found |
| `Recognised` | what the check takes for the rule: the whole rule for iptables, for nft a line that contains the range and the start of the port's text (`TextPrefix`) |
| `WriteUnit`, `EnableUnit`, `DisableUnit`, `RemoveUnit` | the boot unit, whose errors are reported or not as in the code |
| `EditNodes`, `Foreign` | another change of the node file; rules the operator put in front |
| `left`, `swept`, `served` | history variables |

### Endpoint and the code

| model | code |
|---|---|
| `account`, `stamp`, `nodes`, `host`, `broken`, `late` | `easysb-users.json` with its modification time and size, `easysb-nodes.json`, what `state.Host` answers, a node file that cannot be parsed, the clock |
| `cache` | `storeCache` (`subd/server.go:83`): the stamp is taken before the file is opened |
| `Arrive`, `Stat`, `Load`, `ReadSettings`, `ReadNodes`, `Finish` | one request, in the order of `handle`: refusals first, then the settings, then the nodes, then the document for the client |
| `ClientOf`, `Document`, `Entry` | which client asks, and the entries of the sing-box, mihomo and link documents |
| `ServerConfig`, `Inbound`, `User` | the core's own document, from `internal/config` |
| `Save`, `Change`, `Apply`, `Restart` | a writer of the account file, of the other files or the clock; a deployment; a restart of the service |
| `seen`, `twins` | history variables |

### Kernel and the code

| model | code |
|---|---|
| `running`, `live`, `loaded` | the booted kernel, the two sysctls in force, the module |
| `dropin`, `modules` | the drop-in with its record of what it replaced; the modules-load file |
| `LoadModule` ... `WriteModules` | `Enable`, command by command; `KeepOldest` is the rule by which a second enable keeps the first record |
| `AsNoted`, `Partial` | what a record reads back as, of settings of which one could not be read: the note is split into words, so a queue discipline alone is taken for the control |
| `RemoveSysctl` ... `RestoreQdisc` | `Clear`: the record is read and its file removed; both writes that follow may fail unnoticed (`refused`), and the task still ends well |
| `Resolve`, `Fetch`, `Dpkg`, `Purge`, `UpdateBootloader` | `Install` and `Remove`: the version asked of the stamp file or the release list, the packages, then the old ones |
| `ReleasesFromTags`, `LatestVersions`, `Longer`, `Newer` | the release list and the order of versions (7.2 before 7.10) |
| `Reboot`, `Publish`, `Cancel`, `Fail` | a reboot at any point, a new release, Esc, a command that fails |

### Lifecycle and the code

| model | code |
|---|---|
| `nodes`, `accounts`, `cfg`, `document`, `core`, `pair`, `backup`, `parts` | the files, what the core runs, where the certificate is, what is installed and running |
| `Provision`, `ApplyNode`, `LoadAccounts`, `ApplyAccount`, `FreePort`, `OrderPair`, `InstallPair`, `IssueFails`, `SetTimer`, `SaveSettings`, `ApplyStore`, `SaveDeployed`, `SetRules`, `StartService` | `provision.Run`, in its order, with the stores it holds in memory (`copy`) |
| `OrderPair`, `InstallPair` | `cert.Issue` in two steps: what the CA issues is counted before anything is on disk, and a failure or a kill in between spends it (`wasted`) |
| `stray` | a hop rule whose node was moved or forgotten: `firewall.Remove` looks for the rules of the nodes in the file only |
| `BackUp`, `StashPair`, `RemovePart`, `RemoveFiles`, `RestorePair` | `uninstall.Run`: an archive, the certificate set aside, the parts one after another |
| `Update`, `QueryBefore`, `InstallPackage`, `QueryAfter` | `update.Apply`: the version before, apt, the version after |
| `CycleLoads`, `CycleSaves`, `PanelEdits` | a cycle of the loop under the lock; another panel |
| `Sound` | the documents `validate` lets through: no two nodes that collide, no two accounts of one name, and a domain where a node needs a certificate |
| `Mishap`, `Killed` | a step that fails, a kill |

### Panel and the code

| model | code |
|---|---|
| `task`, `form`, `screen` | the progress page with its log, a prompt over it, the page behind |
| `jobs`, `waits`, `mail` | goroutines of tasks, commands that wait on a task's channel, messages to the event loop |
| `Log`, `Hand`, `Return` | a task logs a line, the line gets room in the channel, the task returns |
| `WaitLog`, `WaitErr`, `LogLine`, `LogsClosed`, `TaskDone` | the commands of `progress.go` and the handlers of their messages; `Swallowed` is the message a prompt takes for itself |
| `AcquireBoard`, `SaveBoard`, `RunTool`, `RunToolLock`, `RunToolSave` | `UpdateBoard` (`board.go:62`) from the panel and from `--tool` |
| `EscAlways`, `TaskKey`, `FormKey`, `ToggleBoard`, ... | the keys |
| `Stop`, `Quit`, `Start` | the end of the panel and its next start |

### Pages and the code

| model | code |
|---|---|
| `stack`, `index`, `section`, `system` | the stack of menus, the cursor, the box a page is drawn in |
| a page `[id, of, list]` | a menu with the token or node it was built for and the list its rows were built from |
| `Move`, `Back`, `EnterRoot`, `EnterPage`, `EnterVersions`, ... | the keys, by page |
| `About`, `EnterForm`, `StartTask`, `EnterTask` | prompts with the name they were opened with (`byName`), and what a task acts on (`Subject`: by token or by name) |
| `Rebuilt`, `Land`, `FetchLands` | lists rebuilt or landing under the cursor |
| `OtherAccounts`, `OtherNodes` | other processes: renames, replacements, rotated tokens, nodes |

### Trace, Checks, Unlock and the code

| model | code |
|---|---|
| `worker`, `try`, `probe`, `path` | `tracer.Trace`: per target the goroutine, the attempt, the sequence number it waits for, the hops so far |
| `lock`, `ttl`, `waiters`, `reader` | `sendMu`, the TTL option of the shared socket, the map of one-slot channels, the reading goroutine |
| `Register`, `SetTTL`, `Write`, `Receive`, `TimesOut`, `Answer` | one probe. The counter is replaced by the first number no waiting or answerable probe has: a run sends fewer probes than there are numbers |
| `AnotherEcho`, `WriteFails`, `ReadFails`, `Cancel` | an echo reply of another process, failing socket calls, the end of the context |
| `Gather`, `Ask`, `GiveUp`, `Judge`, `Return` | the lookup of addresses in batches and the verdict per target |
| `asking`, `item`, `outcome`, `ended` | `Checks`: what a tool asks now, and per item its state, what was written down and what ended it |
| `MayStart`, `Settle`, `TimeOut`, `Cut`, `LeaveQueue` | the sequential and the pooled tools: a slot, an answer, a deadline of its own, the end of the run, a probe that never got its slot |
| `MailVerdict`, `SortedByDistance`, `PickNearest`, `PickCarriers`, `CountOutcomes` | the pure parts of the reports; the stable sort is by rank, the number of servers `Before` one |
| `Netflix` ... `Claude` | `Unlock`: per probe the order of its early returns: the next request or the verdict |
| `world`, `Pages`, `Replies` | what a service does for this address, its pages as the marks the probes look for, and what may arrive: its own page, one cut at the cap or left at a marker, somebody else's |

## What each run checks

### Passing runs

**`accounting_faults`**: one panel task, the loop and the core with one failure
(an error or a kill at any step, a torn baseline file, a restart that leaves the core
down) and one stop of the core.
- `BaselineCovered`: no baseline, in memory or on disk, runs ahead of the account
  file, so a crash at any point drops no traffic beyond the three named causes;
- `ChargedAtMostOnce`: nothing is charged twice, except the interval whose baseline
  was lost by a kill between two saves, and a name that left the readings and came
  back;
- `AppliedMatchesCore`: between deployments the flags say what the core accepts;
- `LedgerPromise`: the refinement to `Ledger`.

**`accounting_live`**: no faults, a quota, an expiry date, the month boundary and a
restart of the core. `AppliesCurrentTerms` (whoever deploys or saves works on the
terms in the file) and `EventuallyCutOff`, under the fairness below.

**`nodes_concurrent`**: two panels that add, edit, toggle and delete nodes, select
them for accounts and create accounts, with the loop, one failure anywhere and one
account barred or admitted.
- `NodesAsDecided`: the node file is what the committed changes amount to;
- `PortsDistinct`: two enabled nodes never share a port;
- `CoreMatchesFiles`: when nothing is under way the core runs exactly the listeners
  and users of the two files, unless the last deployment did not end or used nodes
  that had changed meanwhile, all nodes are off, or the loop has yet to look;
- `DanglingIsExcused`: a selection of a deleted node has one of two causes: its
  cascade was cut short, or it was made while the node was being deleted.

**`migration_starts`**: the panel and the service start on a version-5 host with old
accounts; one process may be killed anywhere.
- `OneNodeEach`: no protocol becomes two nodes;
- `SelectionsExist`, `SelectionsKept`: a migrated selection names a node that exists,
  and none is dropped unless a process was stopped halfway through its nodes or another
  one read the node file at that moment;
- `EditsSurvive`: an edit is not undone by another process's migration, but for the
  named cause;
- `EventuallyUpgraded`: the upgrade ends.

**`host_tasks`**: one panel, the timer and the script on a fresh or a deployed host
with two domains, two tasks, one failure, cancellation or kill anywhere, and one
certificate that comes due.
- `PairsFit`: a certificate beside a key it was not issued for is always one that is
  due, so the next pass replaces it; two installations of one domain that overlap are
  the exception;
- `CoreComesBack`: the core runs again after whatever stopped it, unless a task was
  cancelled or killed in between or its document cannot be loaded;
- `RenewedIsServed`: the services have loaded the pair that is on disk, also when
  another domain of the same pass failed;
- `SettingsAsDecided`: each setting is what its last change made it, unless somebody
  saved a copy older than another one's save;
- `AccountFits`: one account at the CA, with the key on disk, however often a
  registration was interrupted.

**`firewall_rules`**: two panels and the boot unit apply, remove and deploy while
nodes are edited, one command fails or one task is cancelled, and the host reboots.
- `AppliedIsPresent`: every node a task has visited has its redirect, whatever the
  task took for present, unless another task changed the rules meanwhile; nft may take
  the rule of a port that continues the text of the node's own for it;
- `RemovedIsGone`: a removal leaves no redirect of a node it has visited;
- `Delivered`: a datagram to any port of a redirected range reaches a node that hops
  there, unless an earlier rule of the operator decides, or one left behind by a node
  that was edited, switched off or removed.

**`endpoint_requests`**: two requests against one save of the account file, one
change of the nodes, the host or the clock, a deployment and a restart of the service.
- `AnswersAreCurrent`: each verdict on an account was true of the file at a moment
  while the request was under way, whatever was cached, unless two versions of one tick
  of the clock have the same size;
- `EntriesAreAccepted`: every entry of every document, in each of the three formats,
  reaches a listener of the core rendered from the same files that knows its
  credential.

**`panel_tasks`**: tasks that log through a channel of one line, prompts, a contended
lock on the board, one run of `--tool`, one failed write or kill, one restart.
- `LogIsComplete`: the task screen shows the lines of its own task in order, and all
  of them once it says the task is done;
- `RecordsAreKept`: neither writer of the board loses a tool or a record it did not
  itself replace;
- `ScreenCatchesUp`: the screen always catches up with its task; no prompt and no wait
  for a lock strands it.

**`pages_walk`**: the operator walks every page in every order while other processes
rename, replace and rotate accounts and lists land. `ActsOnItsAccount`: a task changes
the account whose page it was started from; a prompt, which acts by the name it was
opened with, is excused if another process changed the accounts while it was open.

**`toolbox_runs`**: one run of one tool.
- `HopsAreOwn`: a hop in a path is the address that answered a probe of that target
  with that TTL, although all traces share a socket and replies come late; the echo of
  another process is the exception the reader leaves open;
- `TraceEnds`: the run returns, whatever else fails and whenever it is cancelled; the
  exception is a run whose read failed (`PanickedOnRead`), which closes its socket a
  second time and panics;
- `NothingIsBlank`: every question of a run that ended has an outcome, however it was
  cut;
- `ReportIsMeasured`: "can run a mail server", "listed" and the servers of a speed test
  rest on answers seen in this run, in every order of answers and timeouts;
- `VerdictIsTrue`: a service said to work serves this address and one said to be
  blocked refuses it, with five named ways in which a page is misread (`Misread`).

**`system_tasks`**: the kernel tasks with one failure or cancellation and one reboot or
publication; and three runs of provisioning, update and uninstall with one failed step
or kill, beside a cycle of the loop and an edit in another panel.
- `KernelStays`: no install or upgrade, wherever it fails, leaves the host without a
  published kernel it had, unless it installed the only one again and dpkg failed on it
  (`spoiled`);
- `ClearUndoes`: clearing BBR puts back what it replaced, however often it was enabled
  since, unless the kernel no longer offers the old control, a write of this very clear
  failed, which it does not tell (`refused`), or an earlier task ended after a change
  without a true record (`lost`);
- `RunConverges`: an undisturbed provisioning leaves what its document asks for and
  prints addresses that work; run again it changes nothing;
- `PairIsKept`: another certificate is ordered only if one was left aside or lost by an
  uninstall that failed or was killed (`uncertain`), or if an order was spent on a pair
  that was never installed (`wasted`); one is lost only after two failures;
- `LeftoversExplained`: after an uninstall only what a failed step was to remove is
  left, the renewal timer, and hop rules of nodes moved or forgotten before (`stray`);
- `UpdateIsTold`: an upgrade says it changed the package only if it did, or if it
  could not read a version.

Every property of a passing run has a mutant in `PROJECT.json`: a definition changed
as a plausible bug would change it (a load before its lock, a cascade that stops at
the first account, a channel registered after the probe left, a stale packet of the
new kernel purged too, ...), under which TLC finds the property violated with the same
bounds. The type invariants (`TypeOK`, `TraceTypeOK`, `ChecksTypeOK`) hold on the same
instances but are not among the runs' properties; those of `Accounting`, `NodeStore`,
`Migration`, `HostState`, `Firewall` and `Kernel` are proved.

### Runs that show a disagreement

`host_schemes` checks one sentence of the repository's text, is expected to fail, and
is a finding in `PROJECT.json`. The other configurations of this kind are kept beside
it and are started by hand:

| configuration | module | expected |
|---|---|---|
| `AccountingAppliedDrift` | `MCAccounting` | `AppliedIsServed` violated |
| `AccountingRestartMiscount` | `MCAccounting` | `RestartNeverMiscounts` violated |
| `NodesDangling` | `MCNodeStore` | `NoSelectionDangles` violated |
| `MigrationPartial` | `MCMigration` | `FoundNodesComplete` violated |
| `HostTorn` | `MCHostState` | `PairNeverTorn` violated |
| `FirewallLater` | `MCFirewall` | `ServedHops` violated |
| `PagesNames` | `MCPages` | `ActsByToken` violated |
| `PanelNewest` | `MCPanel` | `NewestIsKept` violated |
| `KernelReboot` | `MCSystem` | `RebootIsAnnounced` violated |
| `SystemUrls` | `MCSystem` | `PrintedUrlsWork` violated |
| `ToolsPanics` | `MCTools` | `RunNeverPanics` violated |
| `UnlockPartial` | `MCTools` | `PartialIsPart` violated |
| `AccountingPanels` | `MCAccounting` | passes: two panels and the loop, `AppliesCurrentTerms`, `AppliedMatchesCore`, `LedgerPromise` |
| `ToolsRuns`, with `UnreadIsUnknown` in place of its properties | `MCTools` | `UnreadIsUnknown` violated |
| `PagesWalk`, with `CursorOnRow` and `SectionIsEntered` in place of its property | `MCPages` | passes |
| `PanelTasks`, with `SelectionIsKept` in place of its properties | `MCPanel` | passes |

The violations are described [below](#where-the-code-and-its-text-disagree).

## Bounds

The bounds appear in guards (`edits < MaxEdits`, ...), so a bounded run simply stops
doing more of the same; the theorems hold for every value of them.

| module | bounds of the runs | why they are enough |
|---|---|---|
| `Accounting` | 1 panel (2 in `AccountingPanels`), `Tokens` 1 or 2, 1 node, `MaxEdits` 1 or 2, `MaxFaults` 0 or 1, `MaxStops` 0 or 1, `MaxBytes` 1 or 2, `MaxMonth` 1 or 2 | counters are kept per name, so two accounts give two names; a counter must be able to pass a baseline of an earlier run; one rollover, which is also the expiry date. That two panels keep each other's changes is proved for any number (`CurrentTerms`, `FileImplementsLedger`) |
| `NodeStore` | 2 panels, 2 tokens, 2 nodes, 3 ports, `MaxEdits` 3, `MaxFaults` 1, `MaxFlips` 1 | two concurrent tasks and an earlier one; a node and another that collides, is added or replaces it; the first node's port, a free one, and that of the subscription service |
| `Migration` | 2 processes, 2 protocols, 1 account, `MaxFaults` 1, `MaxEdits` 2 | one that migrates and one that starts meanwhile; a kill between two nodes |
| `HostState` | 1 panel, the timer, the script, 2 domains, `MaxTasks` 2, `MaxFaults` 1, `MaxAges` 1 | two tasks overlap, or the second starts from what the first left; a domain renewed beside one that fails |
| `Endpoint` | 2 requests, 2 tokens, 3 node files, 2 credential files, 4 kinds of request, `MaxSaves` 1, `MaxChanges` 1 | a request that fills the cache and one that hits it; a node file with two protocols, one with a node off, one with a port that is none |
| `Firewall` | 2 panels and the boot unit, 2 slots, ports 8 and 80, 1 range, one rule of the operator, `MaxEdits` 1, `MaxTasks` 2, `MaxFaults` 1, `MaxReboots` 1 | the text of one port begins that of the other; two tasks that overlap, or a removal after an application |
| `Kernel` | versions 7.2 and 7.10, 2 profiles, `MaxTasks` 3, `MaxFaults` 1, `MaxEvents` 1 | a text order would sort them the other way; enable, enable again, clear |
| `Lifecycle` | 2 documents, the second extending the first, `MaxJobs` 3, `MaxMishaps` 1, `MaxEdits` 1, `MaxCycles` 1, `MaxVersion` 1 | provision, uninstall, provision again; with `MaxMishaps` 2 the deployment passes as well |
| `Panel` | `Capacity` 1, 2 tools, `MaxActs` 2, `MaxLines` 2, `MaxRuns` 1, `MaxFaults` 1, `MaxStarts` 1 | a full channel needs one line; an earlier and a later task; one run of `--tool` |
| `Pages` | 3 names, 1 node, 2 published kernels, boxes of 3 rows, `MaxActs` 3 | an account renamed, its name taken by another, a third to come; lists shorter and longer than a column |
| `Trace` | 2 targets at distances 1 and 3, `MaxHops` 2, `Tries` 2, 2 at once, `MaxWire` 2, `MaxFaults` 1 | one target that is reached and one that is not; a late reply to an earlier try |
| `Checks` | 3 items, 2 of them wanted, 2 slots, 2 endpoints, server lists of at most 2 of 2 carriers or none | one item waits for a slot; two servers of a carrier, one nearer |
| `Unlock` | every probe; no bound on what is lost, replaced or cut | a probe makes at most a handful of requests. The three titles of bilibili share one reply |

Panels, requests, tokens and names are symmetric where a `SYMMETRY` says so; no
liveness run uses symmetry. Deadlock is not checked where the system may come to rest:
a host whose operators and tasks are done, a tool that returned.

## Fairness

`Accounting`'s `FairSpec` assumes weak fairness of the loop's steps and of the steps of
a panel task that was started. The loop is driven by a ticker (`Loop.Run`) that fires
again whatever a cycle returned, and a started task runs to its end on its own
goroutine. The operator, the clients, the clock, stops and starts of the core promise
nothing. Waiting for the account lock is weakly fair in the model; `flock` queues are
served by the kernel once the holder lets go, and every holder lets go because its own
steps are fair. The liveness run has no faults: with unbounded failures no cycle need
ever complete.

In `Migration`, the steps of a process that has started are weakly fair, and so is
the start of the service: its unit (`internal/subd/unit.go`) says `Restart=always`.
Only boundedly many kills happen, so some start runs to its end.

In `Panel`, the event loop handles the next message, commands return, a task's line
goes into a channel that has room, and whoever holds the lock of the board saves (weak
fairness); the panel gets the lock if it is free again and again (strong fairness,
since a run of `--tool` may take it in between). No task has to return and no key has
to be pressed.

In `Trace`, every worker and the conclusion of the run are weakly fair: Go schedules
goroutines that can run, and every wait has a timer. That replies arrive is not
assumed.

`HostState`, `Firewall`, `Kernel` and `Lifecycle` claim no liveness: their tasks wait
for a CA, a download or a package manager that promises nothing.

## Where the code and its text disagree

| configuration | the text | what the code does |
|---|---|---|
| `HostSchemes` (run `host_schemes`) | `subd/server.go:169` "so the protocol the listener speaks and the scheme the printed URL promises can never disagree" | the listener chooses when it starts, the URL each time; removing the active certificate does not restart the listener |
| `AccountingAppliedDrift` | `deploy.go:128` "When the running core already serves the same document, nothing happens" | the shortcut compares the file on disk, not what the core was started on; a deployment that ended between the rename and the restart is later reported as done |
| `AccountingRestartMiscount` | `loop.go:252` "A counter that went backwards means the core restarted" | a restarted core whose counters have already passed the old baseline is not recognised, so that many bytes are never charged; the loop's own restart causes it |
| `NodesDangling` | `nodes.go:467` "so no selection is left dangling" | the cascade is decided by a count made when the form was opened, and runs under the other lock after the removal |
| `MigrationPartial` | `node/migrate.go:27` "A node store written by this version is complete" | the file exists from the first of several nodes on; a process that starts in between migrates the accounts against a part of them |
| `HostTorn` | `docs/pitfalls.md:223` "a failure between the two leaves a pair that does not exist rather than a certificate next to a key it was not issued for" | so it is for the first issue; a reissue replaces the key in the directory of the old certificate |
| `FirewallLater` | `README.md:219` Hysteria2 "auto-applies iptables / nftables DNAT and a boot restore unit" | only the host's first deployment applies rules (`tui/actions.go:81`); a hopping node added later has none until the operator asks |
| `PagesNames` | `users.go:181` "Every action inside looks the account up by token, so a rename cannot leave the menu pointing at the wrong account" | the prompts of those pages keep the name and act by it; an account that was given the name meanwhile is changed |
| `PanelNewest` | `toolbox/board.go:62` "a run recorded by one process is seen by the other instead of being overwritten by a copy read before it" | the panel merges every outcome it holds of its own runs into the board at each save, so an older one of its own replaces the newer run of `--tool` |
| `KernelReboot` | `bbr/system.go:121` "reports whether a BBRv3 kernel is installed but not yet running" | while an older published kernel runs, an upgrade that waits for its reboot is not announced |
| `SystemUrls` | `docs/architecture.md:232` "The node store and the account store are each written under their own lock"; the printed address "is the one a client can actually fetch" (`provision.go`) | provisioning loads and saves both stores without their locks (`provision.go:328`, `:337`); a cycle of the loop that began before can undo its accounts |
| `ToolsPanics` | `toolbox/toolbox.go:148` a run "must … never panic on odd output" | a failing read of the raw socket closes `done`, and the end of the run closes it again |
| `ToolsRuns` with `UnreadIsUnknown` | `portcheck/report.go:85` "Anything this run could not read leaves the verdict at 无法确认 [cannot be confirmed]" | a name whose forward lookup failed, and a dial the end of the run cut short, make it a "no" |
| `UnlockPartial` | `unlock.go:46` "StatusPartial means the service works but only in part: Netflix shows originals only" | "partial" is what two refused titles give; an address with originals only reads as unlocked |

The passing properties are stated so that these cases are the only exceptions: the
history variables `waived`, `blind`, `repeated`, `gap`, `behind`, `excused`, `excuse`,
`left`, `twins`, `lost`, `refused`, `spoiled`, `moved`, `overlap`, `uncertain`, `wasted`,
`stray` and `unread` and the operators `Misread` and `PanickedOnRead` name exactly what
is excused.

Read while modelling, without a configuration of their own:

- An empty baseline is saved but not loaded again (`stats/loop.go:332`, named by
  `waived`); a deployment reads the nodes before it waits for the account lock
  (`deploy/deploy.go:208`, named by `behind`).
- After a node is deleted from its own page the node list behind it is the old one
  (`tui/nodes.go:103-104`); after a token is rotated the account's page acts on nobody.
- The two halves of a quota are said to "reconstruct it exactly" (`tui/users.go:441`);
  they do when it is a whole number of MB.
- The reader of echo replies compares the sequence number and not the identifier
  (`backtrace`, named in `HopsAreOwn`); a lookup that fails is reported as leaving every
  target undecided although the ones already known are judged.
- A speed test cancelled during its last node does not say so; the budget per node
  ignores the time the list took; the unlock tool has no deadline of its own for the
  run.
- An uninstall leaves the `easysb-acme` timer and service ("Remove EasySB completely",
  `README.md:240`): `RemoveTimer` is called only at `tui/domain.go:271` and
  `main.go:500`. `LeftoversExplained` names the timer. The panel says the certificates
  were kept whether they were or not, and the rename that sets them aside fails between
  filesystems.
- Provisioning checks the nodes of a document against the port the document or the
  default gives the subscription service, not the one in the state file. The package
  says nodes are matched "by name, protocol and port"; `findNode` takes a name, or a
  protocol and a port. `applyAccounts` is said to bring an account to the document's
  selection; it only adds. An expiry in days moves with each run.
- `Clear` succeeds whether or not anything was put back: both `sysctl -w` are ignored
  (`bbr/system.go:244`, `:248`), a list of controls that cannot be read counts as one
  without the control, and the record is gone by then (`refused`). When a setting cannot
  be read on enabling, the note has one word, and the queue discipline is read back as
  the control (`:203`, `:226`).
- A failed installation of the only published kernel once more leaves none that is
  installed (`bbr/kernel.go:150`, named by `spoiled`).
- The CA issues before anything is written (`cert/acme.go:306`, `:317`): a pair that is
  not installed is ordered again by the next run (`wasted`).
- The rules are looked for by the nodes in the file (`uninstall/uninstall.go:88-95`,
  `firewall/firewall.go:82`): one of a node that was moved or forgotten stays, and the
  uninstall does not say so (`stray`). A file that cannot be read is logged.
- A service started with a pair that does not fit ends and is started again every five
  seconds until the pair is replaced (`subd/server.go:150`, `subd/unit.go:57`).
- `update.Apply` says it changed the package if `dpkg-query` cannot be read (`unread`).
- Bahamut's token reply of any status without its mark counts as blocked
  (`probes_region.go:214`); two surfaces of ChatGPT ask for no mark; a gateway's
  403 or 451 counts as Reddit's or Bahamut's (`:160`, `:194`); a page cut at the
  cap of 1 MB, or left at its first marker, can be misread (`Misread`). The region
  lookup returns an earlier endpoint's error although a later one answered without a
  region.
- `bench/mounts.go:410` says a device keeps its shallowest mount point; the first in
  the table's order is kept.

## What is proved

The proofs are for every value of the constants: any number of panels, tokens,
nodes, ports, domains, targets, servers and failures. They rest on the named
assumptions about the constants in the models: initial sets lie in the larger ones,
bounds are numbers, and the values that stand for nobody (the free lock, the answer of
no address, no congestion control) are not processes, targets or controls, and that the
services asked about are in the catalogue. TLC
evaluates them on every run of their modules.

| theorem | statement |
|---|---|
| `TypeCorrect` | `Accounting!Spec => []TypeOK` |
| `GuardedAlways` | the inductive invariant of `Accounting` |
| `CurrentTerms` | `Spec => []AppliesCurrentTerms` |
| `FileImplementsLedger` | `Spec => LedgerPromise`: `Accounting` implements `Ledger` |
| `BaselineAlwaysCovered` | `Spec => []BaselineCovered` |
| `NeverChargedTwice` | `Spec => []ChargedAtMostOnce` |
| `FlagsMatchCore` | `Spec => []AppliedMatchesCore` |
| `NodeTypeCorrect` | `NodeStore!Spec => []TypeOK` |
| `NodeFileIsDecided` | `Spec => []NodesAsDecided` |
| `PortsNeverShared` | `Spec => []PortsDistinct` |
| `DanglingAlwaysExcused` | `Spec => []DanglingIsExcused` |
| `CoreAlwaysMatchesFiles` | `Spec => []CoreMatchesFiles` |
| `UpgradeInvariant` | the inductive invariant of `Migration` |
| `MigrationTypeCorrect` | `Migration!Spec => []TypeOK` |
| `NeverTwoNodes` | `Spec => []OneNodeEach` |
| `SelectionsAlwaysExist` | `Spec => []SelectionsExist` |
| `SelectionsAlwaysKept` | `Spec => []SelectionsKept` |
| `AccountsAlwaysReadable` | `Spec => []AccountsReadable` |
| `EditsAlwaysSurvive` | `Spec => []EditsSurvive` |
| `TypeCorrect` | `HostState!Spec => []TypeOK` |
| `DecidedSettings` | `Spec => []SettingsAsDecided` |
| `OneAccount` | `Spec => []AccountFits` |
| `PairsAreFit` | `Spec => []PairsFit` |
| `CoreIsBack` | `Spec => []CoreComesBack` |
| `ServedIsRenewed` | `Spec => []RenewedIsServed` |
| `TypeCorrect` | `Firewall!Spec => []TypeOK` |
| `AppliedRules` | `Spec => []AppliedIsPresent` |
| `RemovedRules` | `Spec => []RemovedIsGone` |
| `DeliveredHops` | `Spec => []Delivered` |
| `KernelTypeCorrect` | `Kernel!Spec => []TypeOK` |
| `KernelsStay` | `Spec => []KernelStays` |
| `ClearPutsBack` | `Spec => ClearUndoes`, an action property |
| `UpdatesAreTold` | `LifeSpec => []UpdateIsTold` |
| `PairsAreKept` | `LifeSpec => []PairIsKept` |
| `LeftoversAreExplained` | `LifeSpec => []LeftoversExplained` |
| `RunsConverge` | `LifeSpec => []RunConverges` |
| `HopsOfTheWalk` | `TraceSpec => []HopsAreOwn` |
| `ReportsAreComplete` | `ChecksSpec => []NothingIsBlank` |
| `ReportsAreTrue` | `ChecksSpec => []ReportIsMeasured` |
| `VerdictsAreTrue` | `UnlockSpec => []VerdictIsTrue` |
| `ActsOnlyOnItsAccount` | `Pages!Spec => []ActsOnItsAccount` |
| `CursorStaysOnRow` | `Pages!Spec => []CursorOnRow` |
| `SectionStaysEntered` | `Pages!Spec => []SectionIsEntered` |
| `PanelTypeCorrect` | the type invariant of `Panel` |
| `LogsAreComplete` | `Panel!Spec => []LogIsComplete` |
| `RecordsAlwaysKept` | `Panel!Spec => []RecordsAreKept` |
| `SelectionAlwaysKept` | `Panel!Spec => []SelectionIsKept` |
| `AnswersAlwaysCurrent` | `EndpointSpec => AnswersAreCurrent`, an action property |
| `EntriesAlwaysAccepted` | `EndpointSpec => []EntriesAreAccepted` |

**Accounting.** `AppliesCurrentTerms` is not inductive: to keep it across a panel's
commit one must know that nobody else is between its load and its save. The
invariant is `IInv == TypeOK /\ Guarded`, and `Guarded` has three parts: whoever is
in a critical section holds the lock (exclusion); a copy taken under the lock keeps
what the file says up to bookkeeping (copies); and the terms in the file are the ones
the operator decided (decided). Every step of the refinement to `Ledger` then is
either a decision about one account or bookkeeping, because what is written is the
file under the lock with such a change.

Three more invariants stand on it. `CoverInv`: between the save of a cycle and the move
of its baseline the bytes are charged and the baseline does not know it yet
(`Pending`); with that, what is charged, waived or unseen covers both baselines
(`ChargesCover`). `OnceInv`: a baseline of this core run is never ahead of a reading nor a reading of the
counters (`ReadingsFit`), and what a name was charged in this run is not above its
baselines, but for the deltas that are pending (`ChargesFit`).
`AppliedInv`: while no step has failed, the document on disk and the core agree with
the flags a deployment is about to save (`DeployFits`, `FilesFit`).

**NodeStore.** Three layers, each proved on the one before.
- `NodeInv`: a panel in the node critical section holds the node lock and its copy is
  the file; the file is what was decided; enabled nodes are apart. `Validate` only
  looks at the copy, so freshness of the copy is what makes it a check of the file.
- `UserInv`: the same for the account lock, with the copy allowed to differ from the
  file in the flags it is about to save. `CascadeInv`: every dangling selection is
  excused or belongs to a node whose cascade is under way, and a panel that skips
  the cascade counted no account before the node went.
- `CoreInv`: what a process has installed and not saved fits the core it made
  (`SavedFits`), and whenever the account lock is free, the deployment is not
  `behind` and nobody is `Ahead` with a commit yet to be deployed, the core runs
  what the files say up to accounts whose flag disagrees (`RunningFits`).

**Migration.** `UpgradeInv` joins what a step needs to know of the others. The test
for the file is made without a lock, so nothing follows from it; what makes one node
each is `Exclusive`: who adds nodes holds the lock and its store is the file, so the
name that is taken in the store is taken in the file. Nodes are only added, so what
was read of them (`IndexFits`) and selected through them (`CopiesFit`) stays true.
`VersionFits` says that nobody returns to the old accounts, and that a copy about to
be saved over a version-1 file is that file; `NodesFit` that a file of which a part is
missing has somebody adding the rest, unless a process was cut. From the last two
follow `EditsSurvive` and `SelectionsKept`.

**HostState.** Each property has an invariant that says what every task under way owes.
- `SettingsInv`: a copy of the settings that is still current is what the next save
  writes; a save makes all other copies old, and saving one of those is `stale`.
- `AccountInv`: whoever is about to register does it with the key on disk, unless two
  made a key at once (`doubled`).
- `PairInv`: a task that installs a pair replaces one that is due or none at all, so a
  pair that is left half written is one that is due.
- `DownInv`: a core that is down although it is meant to run was stopped by a task that
  still holds the duty to start it. `CoreInv` and `EndpointInv` say the same of what is
  loaded: a core or a service that runs on a pair that was replaced has somebody on the
  way to restart it (`RestartedLater`, `ServedLater`).

**Firewall.** `TasksInv`: the nodes a task has passed have their redirect, or none of
them has one, as the task goes; a deletion looks again after each rule it deletes, and
`KeptRules` says what is left of the chain. `OriginInv`: every redirect in the chain is
one of a node that hops, one a task under way is going to set, one an edit left behind
(`left`), or the operator's, so the rule that decides a port is one of these.

**Kernel.** `StaysInv`: an install that has come to the purge of the old packages has its
own target installed, and that is what the purge leaves.
The only kernel may be set up halfway over itself; that is what `spoiled` remembers.
`UndoInv`: what BBR replaced is in the record of the drop-in, in the hands of a task, or
in force, unless something was lost (`Traced`); a second enable keeps the first record. A
clear under way has put back what it has passed, but for what it could not write
(`refused`).

**Lifecycle.** `Told` fixes what an upgrade knows of the version by the place where it
is. `Pairs`: an uninstallation that finds a certificate in place past the step that
sets it aside has had that step fail, and one that is aside belongs to the
uninstallation under way or was left by one; on a host that never had one, the orders
are those spent in vain and the one under way. `Left`: the steps passed so far that did
not fail are still done, since neither the loop nor a panel writes a file once the
service and its files are gone. `Provisions` is the largest: the types of the stores and
their copies (`StoreTypes`), a core that has the document on disk unless a restart went
wrong (`CoreFits`), what a provisioning has done by the place where it is (`Staged`),
and, while nobody disturbs it, that the nodes and accounts it has passed are as its
document asks and on a host that fitted nothing changed (`Converging`). The attempt to
prove the last showed that the model let documents through that the code refuses: two
accounts of one name, and a node that needs a certificate without a domain. `Sound`
now refuses them as `provision.go:120-175` does.

**Trace.** `TraceInv` joins the walks with the socket they share. The lock is held by
the worker that writes, and the TTL of the socket is then its own (`Locked`); a number
belongs to one worker that probes, and what its channel holds answered this probe
(`Channels`); a packet whose number somebody waits for was sent for that target with
that TTL (`Packets`). The step that keeps it is the registration: the number given out
is on no packet and on no channel (`FreshIsFree`).

**Checks.** `ChecksInv`: an item that is settled has an outcome, and a port that is
settled answered or counts as blocked or failed (`Written`, `Mail`). That the servers
are the nearest needs the sort: `NearnessOrders` and `SortingSorts` show that ranking by
`Before` is a permutation that respects it, `PickedAreNearest` the rest. That proof
found a fault of the model, a definition of `Before` by cases that overlapped, so that
its value on two servers without a distance was left open.

**Unlock.** `UnlockInv`: a reply was lost or is one that somebody sends in this world,
and a verdict is what the probe gives for the replies there are. What is read of a page is
a first part of it, cut behind a marker or at the cap (`AnswerIsRead`), so a mark that was
read was sent (`MarksAreSent`); per service there is a lemma that its verdict then is borne
by the marks, or the page was misread in one of the five ways. The services are any
selection from the catalogue.

**Pages.** `PagesInv` has four parts. `FileInv`: every token was issued, and no two
accounts share a token or a name. `PlaceInv`: the stack begins at the main menu, every page
on it fits the entry it was reached from, and the cursor is on a row.
`OverlayInv`: a prompt, a task and the grid keep the page they lie on in its place.
`HitInv` is the property, with what it needs of a prompt or a task under way: the token,
and until another process changes the accounts the name, is that of the account it `Means`.
The step that is not obvious is the one of another process: it may rename, replace and
rotate, and `Means` survives because who holds a token held it before, or it was not
issued then (`Descends`).

**Panel.** `LogInv` follows a line from the task through its channel, the hand of the one
reader (`OneReader`) and the mail of the event loop to the screen: what is on the screen,
in that order, is a first part of what was said (`InOrder`), the end is known only when
the channel is drained (`EndKnown`, `Drained`). `BoardInv`: between the load of the board
and its write the writer holds the lock and its copy is the board (`LockHeld`); the panel
saves only what has an outcome, and what it has none for is on the board as it was written
last (`PanelKnows`, `OutcomesKnown`). `ChoiceInv`: unless a write failed, what is stored
reads back as what the operator asked for (`StoredSelection`), a choice of none included.

**Endpoint.** `CacheInv`: until two versions are twins, a cache under the stamp of the file
is what the file says, and stamps only grow (`StampTells`); what an undecided request can
be answered with, from the file or from the cache, was there since it came (`Witnessed`). `AgreeInv`: the
core's document is rendered from some accounts and nodes (`RenderedCore`) and what is
served from what was loaded (`ServedAnswer`); `RenderersAgree` then compares the two
renderers field by field: each entry of one is a listener and a user of the other.

The invariants were model-checked on the instances of the runs before they were proved.
`SelectionIsKept`, `CursorOnRow` and `SectionIsEntered` are no longer part of a run: TLC
found them to hold on the instances of `panel_tasks` and `pages_walk`, and the proofs
cover every instance.

## What is only model-checked

- Liveness under fairness, which is out of the prover's reach: `EventuallyCutOff`,
  `EventuallyUpgraded`, `ScreenCatchesUp`, `TraceEnds`.

Every invariant and every action property of the passing runs is a theorem; only these
four are left to TLC. That a screen says no end before its log is complete is proved, that
it comes to an end is not. The properties of the runs that end in a violation are refuted
by TLC and have no theorem.

## What is not modelled

- **Abstracted data.** Upload and download are one count. Names, remarks,
  credentials and the documents' layout are left out but where a property is about
  them (`Endpoint` carries what an entry dials and proves itself with). Tokens and ids
  are random in the code and never repeat in the models.
- **Version-1 aggregates.** A migrated account starts with an aggregate that no
  per-node entry explains; the accounts of `Accounting` are created by this version.
- **`NodeStore`** leaves out removal of accounts (in `Accounting`), the change of the
  subscription port (in `HostState`, which has no nodes), and the inside of an
  installation (in `Accounting`). The credentials a selected node needs are repaired on
  every write path (`EnsureCredentials`, `Repair`) and taken as there; `Endpoint` does
  not take them as there.
- **The port of the subscription service** is compared with a node's only when the node
  changes (`tui/nodes.go:356`); no property claims they stay apart.
- **Firewall openings** (`firewall.go:119-174`): allowances of ufw or firewalld, added
  and never taken back.
- **Measurements** (`toolbox/hw`, `toolbox/bench`): they read the host, parse and
  print; they share nothing. The host facts of the panel's header likewise.
- **Wall-clock time.** The month and the expiry date are the only instants told apart;
  timers may fire at any moment.
- **Regions and wording** of the unlock reports, but where a verdict depends on one.
- **Text**: templates, key order, translations, theme, drawing and argument parsing.
  Golden tests cover the templates.
- **Downloads** are one step that succeeds, fails or is cancelled; the packages of a
  kernel are read completely before any is installed.
- **A retry of a service action by the operator** is the environment's `CoreStop`
  and `CoreStart`.

## Plan

The modules of the plan are written, and every safety property the runs check is proved.
What could be added, in this order:

| step | what | argument |
|---|---|---|
| 1 | the type invariants of `Endpoint`, `Trace` and `Checks` as theorems of their own | they are parts of `CacheInv`, `TraceInv` and `ChecksInv` |
| 2 | the subscription port in `NodeStore`, with `PortsDistinct` over it | `HostState` changes it without looking at the nodes |
| 3 | the regions of the unlock reports | a second field beside the verdict |

No module declares a recursive operator, so each can carry proofs.

## Running it

In this directory, the runs of `PROJECT.json`:

```
tlc -workers 4 -config AccountingFaults.cfg MCAccounting.tla
tlc -workers 4 -config AccountingLive.cfg   MCAccounting.tla
tlc -workers 4 -config NodesConcurrent.cfg  MCNodeStore.tla
tlc -workers 4 -config MigrationStarts.cfg  MCMigration.tla
tlc -workers 4 -config HostTasks.cfg        MCHostState.tla
tlc -workers 4 -config HostSchemes.cfg      MCHostState.tla   (a violation)
tlc -workers 4 -config FirewallRules.cfg    MCFirewall.tla
tlc -workers 4 -config EndpointRequests.cfg MCEndpoint.tla
tlc -workers 4 -config PanelTasks.cfg       MCPanel.tla
tlc -workers 4 -config PagesWalk.cfg        MCPages.tla
tlc -workers 4 -config ToolsRuns.cfg        MCTools.tla
tlc -workers 4 -config SystemTasks.cfg      MCSystem.tla
```

The configurations [started by hand](#runs-that-show-a-disagreement) are run in the same
way with the module named there. The proofs:

```
tlapm AccountingProofs.tla
tlapm NodeStoreProofs.tla
tlapm MigrationProofs.tla
tlapm HostStateProofs.tla
tlapm FirewallProofs.tla
tlapm SystemProofs.tla
tlapm FrontProofs.tla
tlapm ToolsProofs.tla
```

A run takes seconds to about a minute; `ToolsRuns` takes two to three, most of it for
`TraceEnds`, and `NodesConcurrent` is the largest (1.6 million distinct states). The
proofs take about a quarter of an hour from scratch, `HostStateProofs` and
`SystemProofs` five minutes each.
