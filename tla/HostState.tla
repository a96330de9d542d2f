----------------------------- MODULE HostState -----------------------------
(***************************************************************************)
(* The settings, the certificates and the two services of a host, and what *)
(* changes them: tasks of the panels, the nightly renewal and the          *)
(* provisioning script, each a process of its own.  easysb.conf has no     *)
(* lock: a task saves the whole copy it loaded, which may be minutes old.  *)
(* A certificate is two files, written one after the other.  Issuing stops *)
(* the core to free port 80 and starts it again.  The core reads its pair  *)
(* when it starts, as the subscription service does.                       *)
(*                                                                         *)
(* Keys and certificates are numbered as they are made; 0 is no file.  A   *)
(* write of one file is one step.  Contact address, server address and     *)
(* interval are settings like the port: carried along, changed by one      *)
(* screen each.  The inside of a deployment is in Accounting.              *)
(***************************************************************************)
EXTENDS Naturals, FiniteSets

CONSTANTS Panels, Timer, Script,   \* the processes
          DomainCount,             \* domains, numbered in directory order
          SubPorts,
          ManifestDomain, ManifestPort,   \* what the script's manifest asks for
          MaxTasks,                \* bound on what operators start
          MaxFaults,               \* bound on failures, kills, cancellations
          MaxAges                  \* bound on certificates coming due

Procs == Panels \cup {Timer, Script}

ASSUME HostConstants ==
    /\ Timer \notin Panels /\ Script \notin Panels /\ Timer # Script
    /\ DomainCount \in Nat \ {0} /\ ManifestPort \in SubPorts
    /\ ManifestDomain \in 0 .. DomainCount
    /\ {MaxTasks, MaxFaults, MaxAges} \subseteq Nat

Domains == 1 .. DomainCount
NoDomain == 0

VARIABLES
    conf,       \* easysb.conf
    key,        \* per domain: private.key
    chain,      \* per domain: fullchain.cer, its serial and the key it is for
    due,        \* domains whose certificate is close to its expiry
    acct,       \* account.key, and the key account.json was registered with
    ca,         \* the keys the CA has an account for
    doc,        \* the domain whose pair config.json names, or none
    core, ep,   \* the core and the subscription service: running or not, and
                \* the domain and the serial they loaded when they started
    timer,      \* the renewal timer is installed
    task,       \* per process: what it is doing and what it holds
    minted, tasks, faults, ages

(***************************************************************************)
(* History variables.                                                      *)
(***************************************************************************)
VARIABLES
    decided,    \* the settings, had every save changed only its own fields
    meant,      \* whether the core was last meant to run
    excuse      \* what has happened that the properties excuse

pairs == <<key, chain, due>>
account == <<acct, ca>>
services == <<doc, core, ep, timer>>
bounds == <<minted, tasks, faults, ages>>
history == <<decided, meant, excuse>>
vars == <<conf, pairs, account, services, task, bounds, history>>

Conf == [domain: Domains \cup {NoDomain}, cert: Domains \cup {NoDomain},
         deployed: BOOLEAN, port: SubPorts]
NoConf == [domain |-> NoDomain, cert |-> NoDomain, deployed |-> FALSE,
           port |-> CHOOSE v \in SubPorts : TRUE]
Chain == [serial: Nat, for: Nat]
NoChain == [serial |-> 0, for |-> 0]
Service == [up: BOOLEAN, domain: Domains \cup {NoDomain}, serial: Nat]

Forms == {"port", "switch", "remove"}
\* The core may be stopped on behalf of a task that is here.
Issuing == {"check", "key", "chain", "start"}
Working == Issuing \cup {"account", "mint", "lookup", "record", "begin", "save",
                         "apply", "install", "deployed", "endpoint", "clear",
                         "renew", "reload", "reloadEndpoint"}
Kinds == {"none", "issue", "provision", "renew", "switch", "remove", "port",
          "deploy"}

Task == [pc: {"idle"} \cup Forms \cup Working, kind: Kinds,
         domain: Domains \cup {NoDomain},
         cfg: Conf, fresh: BOOLEAN,     \* its copy of the settings is current
         key: Nat,                      \* the key it works with
         stopped: BOOLEAN,              \* it stopped the core
         clear: BOOLEAN,                \* the pair it removes was the active one
         todo: SUBSET Domains, renewed: BOOLEAN,
         ok: BOOLEAN, cancelled: BOOLEAN]

Idle == [pc |-> "idle", kind |-> "none", domain |-> NoDomain, cfg |-> NoConf,
         fresh |-> FALSE, key |-> 0, stopped |-> FALSE, clear |-> FALSE,
         todo |-> {}, renewed |-> FALSE, ok |-> TRUE, cancelled |-> FALSE]

-----------------------------------------------------------------------------
\* cert.Paths: both files are there.
HasPair(d) == d # NoDomain /\ key[d] # 0 /\ chain[d].serial # 0

Fits(d) == chain[d].for = key[d]

\* What the core accepts: the placeholder, or a certificate with its own key.
Loadable(d) == d = NoDomain \/ (HasPair(d) /\ Fits(d))

\* cert.ResolveActive: the pair of the domain, or the placeholder.
ResolveActive(d) == IF HasPair(d) THEN d ELSE NoDomain

Serial(d) == IF d = NoDomain THEN 0 ELSE chain[d].serial

Registered == acct.key # 0 /\ acct.reg # 0

\* A fresh host, or one that is deployed with a certificate.
Init ==
    /\ conf \in {NoConf, [NoConf EXCEPT !.domain = 1, !.cert = 1, !.deployed = TRUE]}
    /\ key = [d \in Domains |-> IF d = conf.domain THEN 1 ELSE 0]
    /\ chain = [d \in Domains |-> IF d = conf.domain
                                  THEN [serial |-> 1, for |-> 1] ELSE NoChain]
    /\ due = {}
    /\ acct = IF conf.domain = NoDomain THEN [key |-> 0, reg |-> 0]
              ELSE [key |-> 1, reg |-> 1]
    /\ ca = {acct.reg} \ {0}
    /\ doc = conf.domain
    /\ core = [up |-> conf.deployed, domain |-> conf.domain,
               serial |-> Serial(conf.domain)]
    /\ ep = core
    /\ timer = (conf.domain # NoDomain)
    /\ task = [p \in Procs |-> Idle]
    /\ minted = 1 /\ tasks = 0 /\ faults = 0 /\ ages = 0
    /\ decided = conf /\ meant = conf.deployed /\ excuse = {}

Become(p, t) == task' = [task EXCEPT ![p] = t]
Goto(p, label) == task' = [task EXCEPT ![p].pc = label]
Excuse(S) == excuse' = excuse \cup S
When(condition, name) == IF condition THEN {name} ELSE {}

Launched == tasks < MaxTasks /\ tasks' = tasks + 1
Ready(p) == p \in Panels /\ task[p].pc = "idle" /\ Launched

At(p, label) == task[p].pc = label

\* p changes its own fields in its copy of the settings, saves the whole copy
\* (Config.Save) and goes on as t; every other copy is out of date from here.
\* own is the change applied to what had been decided instead of to the copy.
SaveConf(p, copy, own, fresh, t) ==
    /\ conf' = copy
    /\ task' = [q \in Procs |-> IF q = p THEN t
                                ELSE [task[q] EXCEPT !.fresh = FALSE]]
    /\ Excuse(When(~fresh, "stale"))
    /\ decided' = IF "stale" \in excuse' THEN copy ELSE own

\* The core starts and reads the document d; another task that is issuing
\* expected it to stay down.
CoreStarts(p, d) ==
    /\ core' = [up |-> Loadable(d), domain |-> d, serial |-> Serial(d)]
    /\ Excuse(When(~Loadable(d), "left")
              \cup When(\E q \in Procs \ {p} : task[q].pc \in Issuing, "shadowed"))

\* The subscription service starts, and exits again with a pair that does not
\* fit.
EndpointStarts ==
    LET d == ResolveActive(conf.domain) IN
    ep' = [up |-> Loadable(d), domain |-> d, serial |-> Serial(d)]

\* It was started with a pair that does not fit.
EndpointFailed == ~ep.up /\ ep.domain # NoDomain

\* Its unit starts it again every five seconds (Restart=always).
EndpointRetries ==
    /\ EndpointFailed /\ Loadable(ResolveActive(conf.domain))
    /\ EndpointStarts
    /\ UNCHANGED <<conf, pairs, account, doc, core, timer, task, bounds, history>>

-----------------------------------------------------------------------------
(* The ACME account (ensureAccount).                                       *)

\* Mutant: without a registration the key is made anew.
FindRegistered(p) ==
    /\ At(p, "account") /\ acct.key # 0
    /\ task' = [task EXCEPT ![p].key = acct.key,
                            ![p].pc = IF acct.reg # 0 THEN "begin" ELSE "mint"]
    /\ UNCHANGED <<conf, pairs, account, services, bounds, history>>

FindKey(p) ==
    /\ At(p, "account") /\ acct.key # 0
    /\ task' = [task EXCEPT ![p].key = acct.key,
                            ![p].pc = IF acct.reg # 0 THEN "begin" ELSE "lookup"]
    /\ UNCHANGED <<conf, pairs, account, services, bounds, history>>

FindNoKey(p) ==
    /\ At(p, "account") /\ acct.key = 0
    /\ Goto(p, "mint")
    /\ UNCHANGED <<conf, pairs, account, services, bounds, history>>

MintKey(p) ==
    /\ At(p, "mint")
    /\ minted' = minted + 1
    /\ acct' = [acct EXCEPT !.key = minted + 1]
    /\ task' = [task EXCEPT ![p].key = minted + 1, ![p].pc = "lookup"]
    /\ Excuse(When(\E q \in Procs \ {p} :
                       task[q].pc \in {"mint", "lookup", "record"}, "doubled"))
    /\ UNCHANGED <<conf, pairs, ca, services, tasks, faults, ages, decided, meant>>

KnownAccount(p) ==
    /\ At(p, "lookup") /\ acct.reg # 0
    /\ task' = [task EXCEPT ![p].key = acct.key, ![p].pc = "begin"]
    /\ UNCHANGED <<conf, pairs, account, services, bounds, history>>

\* A key the CA knows already gets the account it has.
Register(p) ==
    /\ At(p, "lookup") /\ acct.reg = 0 /\ ~task[p].cancelled
    /\ ca' = ca \cup {task[p].key}
    /\ Goto(p, "record")
    /\ UNCHANGED <<conf, pairs, acct, services, bounds, history>>

WriteRegistration(p) ==
    /\ At(p, "record")
    /\ acct' = [acct EXCEPT !.reg = task[p].key]
    /\ Goto(p, "begin")
    /\ UNCHANGED <<conf, pairs, ca, services, bounds, history>>

-----------------------------------------------------------------------------
(* Issuing, by the panel (issueCertTask) and by the script                 *)
(* (issueCertificate).                                                     *)

StartIssue(p) == \E d \in Domains :
    /\ Ready(p)
    /\ Become(p, [Idle EXCEPT !.pc = "account", !.kind = "issue", !.domain = d])
    /\ UNCHANGED <<conf, pairs, account, services, minted, faults, ages, history>>

\* The script loads the settings first of all; its manifest may name no domain.
StartProvision ==
    /\ task[Script].pc = "idle" /\ Launched
    /\ Become(Script,
              [Idle EXCEPT !.pc = IF ManifestDomain = NoDomain THEN "save" ELSE "account",
                           !.kind = "provision", !.domain = ManifestDomain,
                           !.cfg = [conf EXCEPT !.port = ManifestPort],
                           !.fresh = TRUE])
    /\ UNCHANGED <<conf, pairs, account, services, minted, faults, ages, history>>

\* The panel loads the settings; the core is stopped if it runs.
Begin(p) ==
    /\ At(p, "begin")
    /\ LET stop == core.up /\ ~task[p].cancelled
           t == [task[p] EXCEPT !.pc = "check", !.stopped = stop, !.key = 0]
       IN /\ Become(p, IF t.kind = "issue"
                       THEN [t EXCEPT !.cfg = conf, !.fresh = TRUE] ELSE t)
          /\ core' = [core EXCEPT !.up = @ /\ ~stop]
    /\ UNCHANGED <<conf, pairs, account, doc, ep, timer, bounds, history>>

\* A pair that is not due is left alone.
NotDue(p) ==
    /\ At(p, "check")
    /\ HasPair(task[p].domain) /\ task[p].domain \notin due
    /\ Goto(p, "start")
    /\ UNCHANGED <<conf, pairs, account, services, bounds, history>>

\* The CA answers whom it knows by the key that signs.
Answered(p) == ~task[p].cancelled /\ acct.key = acct.reg

\* Mutant: every issue orders a certificate.
ObtainAlways(p) ==
    /\ At(p, "check")
    /\ Answered(p)
    /\ minted' = minted + 1
    /\ task' = [task EXCEPT ![p].key = minted + 1, ![p].pc = "key"]
    /\ UNCHANGED <<conf, pairs, account, services, tasks, faults, ages, history>>

Obtain(p) ==
    /\ At(p, "check")
    /\ ~HasPair(task[p].domain) \/ task[p].domain \in due
    /\ Answered(p)
    /\ minted' = minted + 1
    /\ task' = [task EXCEPT ![p].key = minted + 1, ![p].pc = "key"]
    /\ UNCHANGED <<conf, pairs, account, services, tasks, faults, ages, history>>

Fault == faults < MaxFaults /\ faults' = faults + 1

\* Port 80 is busy, or the CA refuses.
IssueFails(p) ==
    /\ At(p, "check")
    /\ IF Answered(p) THEN Fault ELSE UNCHANGED faults
    /\ task' = [task EXCEPT ![p].ok = FALSE, ![p].pc = "start"]
    /\ UNCHANGED <<conf, pairs, account, services, minted, tasks, ages, history>>

Elsewhere(p, d) == \E q \in Procs \ {p} :
    task[q].domain = d /\ task[q].pc \in {"key", "chain"}

\* installPair, the key first.
WriteKey(p) ==
    /\ At(p, "key")
    /\ key' = [key EXCEPT ![task[p].domain] = task[p].key]
    /\ Goto(p, "chain")
    /\ Excuse(When(Elsewhere(p, task[p].domain), "mixed"))
    /\ UNCHANGED <<conf, chain, due, account, services, bounds, decided, meant>>

WriteChain(p) ==
    /\ At(p, "chain")
    /\ LET t == task[p] d == task[p].domain IN
       /\ minted' = minted + 1
       /\ chain' = [chain EXCEPT ![d] = [serial |-> minted + 1, for |-> t.key]]
       /\ due' = due \ {d}
       /\ Become(p, IF t.kind = "renew"
                    THEN [t EXCEPT !.pc = "renew", !.renewed = TRUE, !.key = 0,
                                   !.domain = NoDomain]
                    ELSE [t EXCEPT !.pc = "start", !.key = 0])
       /\ Excuse(When(Elsewhere(p, d), "mixed"))
    /\ UNCHANGED <<conf, key, account, services, tasks, faults, ages, decided, meant>>

\* Mutant: only a successful issue starts the core again.
StartCoreIfIssued(p) ==
    /\ At(p, "start")
    /\ LET t == task[p] starts == t.stopped /\ ~t.cancelled /\ ~core.up /\ t.ok IN
       /\ IF starts THEN CoreStarts(p, doc)
          ELSE UNCHANGED core /\ Excuse(When(t.stopped /\ t.cancelled, "left"))
       /\ Become(p, IF t.ok /\ HasPair(t.domain)
                    THEN [t EXCEPT !.pc = "save"] ELSE Idle)
    /\ UNCHANGED <<conf, pairs, account, doc, ep, timer, bounds, decided, meant>>

\* running: what was stopped is started, whatever came of the issue; nothing
\* is started for a task that was cancelled.
StartCore(p) ==
    /\ At(p, "start")
    /\ LET t == task[p] starts == t.stopped /\ ~t.cancelled /\ ~core.up IN
       /\ IF starts THEN CoreStarts(p, doc)
          ELSE UNCHANGED core /\ Excuse(When(t.stopped /\ t.cancelled, "left"))
       /\ Become(p, IF t.ok /\ HasPair(t.domain)
                    THEN [t EXCEPT !.pc = "save", !.stopped = FALSE] ELSE Idle)
    /\ UNCHANGED <<conf, pairs, account, doc, ep, timer, bounds, decided, meant>>

Activated(c, d) == IF d = NoDomain THEN c ELSE [c EXCEPT !.domain = d, !.cert = d]

Deploying(p, kind) ==
    [Idle EXCEPT !.pc = "apply", !.kind = kind, !.cancelled = task[p].cancelled]

\* The settings are saved as they were loaded before the issue, with the new
\* domain; the timer is installed.
SaveIssued(p) ==
    /\ At(p, "save") /\ task[p].kind = "issue"
    /\ LET t == task[p] Change(c) == Activated(c, t.domain) IN
       /\ SaveConf(p, Change(t.cfg), Change(decided), t.fresh,
                   IF t.cfg.deployed THEN Deploying(p, "issue") ELSE Idle)
       /\ timer' = (timer \/ ~t.cancelled)
    /\ UNCHANGED <<pairs, account, doc, core, ep, bounds, meant>>

\* The script goes on with the copy it saved.
SaveProvision(p) ==
    /\ At(p, "save") /\ task[p].kind = "provision"
    /\ LET t == task[p]
           Change(c) == Activated([c EXCEPT !.port = t.cfg.port], t.domain)
       IN /\ SaveConf(p, Change(t.cfg), Change(decided), t.fresh,
                      [Idle EXCEPT !.pc = "install", !.kind = "provision",
                                   !.cfg = Change(t.cfg), !.fresh = t.fresh])
          /\ timer' = (timer \/ t.domain # NoDomain)
    /\ UNCHANGED <<pairs, account, doc, core, ep, bounds, meant>>

-----------------------------------------------------------------------------
(* applyDeployment.                                                        *)

StartDeploy(p) ==
    /\ Ready(p)
    /\ Become(p, Deploying(p, "deploy"))
    /\ UNCHANGED <<conf, pairs, account, services, minted, faults, ages, history>>

\* Mutant: the settings of the last screen are taken.
ApplyLoadNot(p) ==
    /\ At(p, "apply")
    /\ task' = [task EXCEPT ![p].fresh = TRUE, ![p].pc = "install"]
    /\ UNCHANGED <<conf, pairs, account, services, bounds, history>>

ApplyLoad(p) ==
    /\ At(p, "apply")
    /\ task' = [task EXCEPT ![p].cfg = conf, ![p].fresh = TRUE, ![p].pc = "install"]
    /\ UNCHANGED <<conf, pairs, account, services, bounds, history>>

\* A document the core refuses is not installed.
Refused(p) ==
    /\ At(p, "install") /\ ~Loadable(ResolveActive(task[p].cfg.domain))
    /\ Become(p, Idle)
    /\ Excuse({"left"})
    /\ UNCHANGED <<conf, pairs, account, services, bounds, decided, meant>>

\* The document is already live.
SameAsLive(p) ==
    /\ At(p, "install")
    /\ ResolveActive(task[p].cfg.domain) = doc /\ core.up /\ ~task[p].cancelled
    /\ Goto(p, "deployed")
    /\ UNCHANGED <<conf, pairs, account, services, bounds, history>>

\* The document is installed and the core restarted; the nodes or the accounts
\* of it may have changed as well.
Install(p) ==
    /\ At(p, "install")
    /\ LET d == ResolveActive(task[p].cfg.domain) IN
       /\ Loadable(d)
       /\ doc' = d
       /\ IF task[p].cancelled
          THEN Become(p, Idle) /\ Excuse({"left"}) /\ UNCHANGED <<core, meant>>
          ELSE Goto(p, "deployed") /\ CoreStarts(p, d) /\ meant' = TRUE
    /\ UNCHANGED <<conf, pairs, account, ep, timer, bounds, decided>>

SaveDeployed(p) ==
    /\ At(p, "deployed")
    /\ LET t == task[p]
           Change(c) == [c EXCEPT !.deployed = TRUE]
           more == t.kind # "deploy" \/ ~t.cfg.deployed
       IN SaveConf(p, Change(t.cfg), Change(decided), t.fresh,
                   IF more THEN [Idle EXCEPT !.pc = "endpoint",
                                             !.cancelled = t.cancelled] ELSE Idle)
    /\ UNCHANGED <<pairs, account, services, bounds, meant>>

\* installEndpoint, or the restart that follows an issue or a switch.
StartEndpoint(p) ==
    /\ At(p, "endpoint")
    /\ IF task[p].cancelled THEN UNCHANGED ep /\ Excuse({"left"})
       ELSE EndpointStarts /\ UNCHANGED excuse
    /\ Become(p, Idle)
    /\ UNCHANGED <<conf, pairs, account, doc, core, timer, bounds, decided, meant>>

-----------------------------------------------------------------------------
(* The other screens.                                                      *)

\* The certificates are listed when the menu is opened; the settings are
\* loaded and saved when one is chosen.
OpenSwitch(p) == \E d \in Domains :
    /\ Ready(p) /\ HasPair(d)
    /\ Become(p, [Idle EXCEPT !.pc = "switch", !.kind = "switch", !.domain = d])
    /\ UNCHANGED <<conf, pairs, account, services, minted, faults, ages, history>>

SwitchCert(p) ==
    /\ At(p, "switch")
    /\ LET Change(c) == Activated(c, task[p].domain) IN
       SaveConf(p, Change(conf), Change(decided), TRUE,
                IF conf.deployed THEN Deploying(p, "switch") ELSE Idle)
    /\ UNCHANGED <<pairs, account, services, bounds, meant>>

\* Whether the active certificate goes is decided when the form is opened.
OpenRemove(p) == \E d \in Domains :
    /\ Ready(p) /\ HasPair(d)
    /\ Become(p, [Idle EXCEPT !.pc = "remove", !.kind = "remove", !.domain = d,
                              !.clear = (conf.cert = d)])
    /\ UNCHANGED <<conf, pairs, account, services, minted, faults, ages, history>>

RemovePair(p) ==
    /\ At(p, "remove")
    /\ LET d == task[p].domain IN
       /\ key' = [key EXCEPT ![d] = 0]
       /\ chain' = [chain EXCEPT ![d] = NoChain]
       /\ due' = due \ {d}
       /\ Excuse(When(Elsewhere(p, d), "mixed"))
    /\ IF task[p].clear THEN Goto(p, "clear") ELSE Become(p, Idle)
    /\ UNCHANGED <<conf, account, services, bounds, decided, meant>>

Cleared(c, d) == [c EXCEPT !.cert = NoDomain,
                           !.domain = IF @ = d THEN NoDomain ELSE @]

ClearActive(p) ==
    /\ At(p, "clear")
    /\ LET Change(c) == Cleared(c, task[p].domain) IN
       SaveConf(p, Change(conf), Change(decided), TRUE, Idle)
    /\ UNCHANGED <<pairs, account, services, bounds, meant>>

\* editSubPort: the settings are loaded when the form is opened.
OpenPort(p) ==
    /\ Ready(p)
    /\ Become(p, [Idle EXCEPT !.pc = "port", !.kind = "port", !.cfg = conf,
                              !.fresh = TRUE])
    /\ UNCHANGED <<conf, pairs, account, services, minted, faults, ages, history>>

SavePort(p) == \E v \in SubPorts :
    /\ At(p, "port")
    /\ LET Change(c) == [c EXCEPT !.port = v] IN
       SaveConf(p, Change(task[p].cfg), Change(decided), task[p].fresh, Idle)
    /\ UNCHANGED <<pairs, account, services, bounds, meant>>

CloseForm(p) ==
    /\ task[p].pc \in Forms
    /\ Become(p, Idle)
    /\ UNCHANGED <<conf, pairs, account, services, bounds, history>>

ToggleTimer(p) ==
    /\ Ready(p)
    /\ timer' = ~timer
    /\ UNCHANGED <<conf, pairs, account, doc, core, ep, task, minted, faults, ages,
                   history>>

\* systemctl start, stop and restart of the core.
OperatorStop(p) ==
    /\ Ready(p)
    /\ core' = [core EXCEPT !.up = FALSE] /\ meant' = FALSE
    /\ UNCHANGED <<conf, pairs, account, doc, ep, timer, task, minted, faults, ages,
                   decided, excuse>>

OperatorStart(p) ==
    /\ Ready(p)
    /\ CoreStarts(p, doc) /\ meant' = TRUE
    /\ UNCHANGED <<conf, pairs, account, doc, ep, timer, task, minted, faults, ages,
                   decided>>

-----------------------------------------------------------------------------
(* Renewing, by the timer (runRenewCerts) and by the panel                 *)
(* (renewCertAction).                                                      *)

Renewing == [Idle EXCEPT !.pc = "renew", !.kind = "renew",
                         !.todo = {d \in Domains : HasPair(d)}]

StartRenew(p) ==
    /\ Registered /\ Ready(p)
    /\ Become(p, Renewing)
    /\ UNCHANGED <<conf, pairs, account, services, minted, faults, ages, history>>

Nightly ==
    /\ timer /\ Registered /\ task[Timer].pc = "idle" /\ due # {}
    /\ Become(Timer, Renewing)
    /\ UNCHANGED <<conf, pairs, account, services, bounds, history>>

Following(p, d) == \A e \in task[p].todo : d <= e

RenewSkips(p) == \E d \in task[p].todo :
    /\ At(p, "renew") /\ Following(p, d) /\ HasPair(d) /\ d \notin due
    /\ task' = [task EXCEPT ![p].todo = @ \ {d}]
    /\ UNCHANGED <<conf, pairs, account, services, bounds, history>>

\* The new certificate is for the key that is installed.
RenewOne(p) == \E d \in task[p].todo :
    /\ At(p, "renew") /\ Following(p, d)
    /\ HasPair(d) /\ d \in due /\ Answered(p)
    /\ task' = [task EXCEPT ![p].todo = @ \ {d}, ![p].domain = d,
                            ![p].key = key[d], ![p].pc = "key"]
    /\ UNCHANGED <<conf, pairs, account, services, bounds, history>>

\* A renewal that fails does not stop the others.
RenewFails(p) == \E d \in task[p].todo :
    /\ At(p, "renew") /\ Following(p, d)
    /\ HasPair(d) => d \in due
    /\ IF HasPair(d) /\ Answered(p) THEN Fault ELSE UNCHANGED faults
    /\ task' = [task EXCEPT ![p].todo = @ \ {d}, ![p].ok = FALSE]
    /\ UNCHANGED <<conf, pairs, account, services, minted, tasks, ages, history>>

\* Mutant: after a failure nothing is reloaded.
RenewedIfAll(p) ==
    /\ At(p, "renew") /\ task[p].todo = {}
    /\ IF task[p].renewed /\ task[p].ok THEN Goto(p, "reload") ELSE Become(p, Idle)
    /\ UNCHANGED <<conf, pairs, account, services, bounds, history>>

Renewed(p) ==
    /\ At(p, "renew") /\ task[p].todo = {}
    /\ Become(p, IF task[p].renewed THEN [task[p] EXCEPT !.pc = "reload", !.ok = TRUE]
                 ELSE Idle)
    /\ UNCHANGED <<conf, pairs, account, services, bounds, history>>

\* Whatever runs is restarted; a cancelled task finds nothing running.
ReloadCore(p) ==
    /\ At(p, "reload")
    /\ IF core.up /\ ~task[p].cancelled THEN CoreStarts(p, doc)
       ELSE UNCHANGED core /\ Excuse(When(task[p].cancelled, "left"))
    /\ Goto(p, "reloadEndpoint")
    /\ UNCHANGED <<conf, pairs, account, doc, ep, timer, bounds, decided, meant>>

ReloadEndpoint(p) ==
    /\ At(p, "reloadEndpoint")
    /\ IF ep.up /\ ~task[p].cancelled THEN EndpointStarts ELSE UNCHANGED ep
    /\ Become(p, Idle)
    /\ Excuse(When(task[p].cancelled, "left"))
    /\ UNCHANGED <<conf, pairs, account, doc, core, timer, bounds, decided, meant>>

-----------------------------------------------------------------------------
(* What may happen to all of them.                                         *)

\* Esc on the progress page: the context of the task is cancelled.
Cancel(p) ==
    /\ p \in Panels /\ task[p].pc \in Working /\ ~task[p].cancelled
    /\ Fault
    /\ task' = [task EXCEPT ![p].cancelled = TRUE]
    /\ UNCHANGED <<conf, pairs, account, services, minted, tasks, ages, history>>

\* A cancelled registration fails, and the task with it.
NotRegistered(p) ==
    /\ At(p, "lookup") /\ acct.reg = 0 /\ task[p].cancelled
    /\ Become(p, Idle)
    /\ UNCHANGED <<conf, pairs, account, services, bounds, history>>

Kill(p) ==
    /\ task[p].pc \in Working
    /\ Fault
    /\ Become(p, Idle)
    /\ Excuse(When(task[p].stopped \/ task[p].renewed
                   \/ task[p].pc \in Issuing \cup {"save", "apply", "install",
                                                   "deployed", "endpoint"}, "left"))
    /\ UNCHANGED <<conf, pairs, account, services, minted, tasks, ages, decided,
                   meant>>

Ages(d) ==
    /\ ages < MaxAges /\ HasPair(d) /\ d \notin due
    /\ ages' = ages + 1
    /\ due' = due \cup {d}
    /\ UNCHANGED <<conf, key, chain, account, services, task, minted, tasks, faults,
                   history>>

-----------------------------------------------------------------------------
Account(p) == FindKey(p) \/ FindNoKey(p) \/ MintKey(p) \/ KnownAccount(p) \/ Register(p)
              \/ WriteRegistration(p) \/ NotRegistered(p)

Issue(p) == Begin(p) \/ NotDue(p) \/ Obtain(p) \/ IssueFails(p) \/ WriteKey(p)
            \/ WriteChain(p) \/ StartCore(p) \/ SaveIssued(p) \/ SaveProvision(p)

Deploy(p) == ApplyLoad(p) \/ Refused(p) \/ SameAsLive(p) \/ Install(p)
             \/ SaveDeployed(p) \/ StartEndpoint(p)

Renew(p) == RenewSkips(p) \/ RenewOne(p) \/ RenewFails(p) \/ Renewed(p)
            \/ ReloadCore(p) \/ ReloadEndpoint(p)

Answers(p) == SwitchCert(p) \/ RemovePair(p) \/ SavePort(p) \/ CloseForm(p)

Operator(p) == StartIssue(p) \/ StartDeploy(p) \/ OpenSwitch(p) \/ OpenRemove(p)
               \/ OpenPort(p) \/ ToggleTimer(p) \/ OperatorStop(p)
               \/ OperatorStart(p) \/ StartRenew(p)

Steps(p) == Account(p) \/ Issue(p) \/ Deploy(p) \/ Renew(p) \/ ClearActive(p)

Next == \/ StartProvision \/ Nightly
        \/ \E p \in Procs : Steps(p) \/ Answers(p) \/ Operator(p) \/ Cancel(p)
                            \/ Kill(p)
        \/ EndpointRetries
        \/ \E d \in Domains : Ages(d)

Spec == Init /\ [][Next]_vars

-----------------------------------------------------------------------------
\* Every variable holds a value of its type.
TypeOK ==
    /\ conf \in Conf /\ decided \in Conf
    /\ key \in [Domains -> Nat] /\ chain \in [Domains -> Chain]
    /\ due \subseteq Domains
    /\ acct \in [key: Nat, reg: Nat] /\ ca \subseteq Nat
    /\ doc \in Domains \cup {NoDomain} /\ core \in Service /\ ep \in Service
    /\ task \in [Procs -> Task]
    /\ {timer, meant} \subseteq BOOLEAN
    /\ excuse \subseteq {"left", "shadowed", "mixed", "stale", "doubled"}
    /\ {minted, tasks, faults, ages} \subseteq Nat

Quiet == \A p \in Procs : task[p].pc \notin Working

\* A certificate beside a key it was not issued for is always one that is due,
\* so the next renewal or issue replaces it; two installations of one domain
\* that overlap are the exception.
PairsFit ==
    \A d \in Domains : HasPair(d) /\ ~Fits(d) => d \in due \/ "mixed" \in excuse

\* The core runs again after whatever had stopped it, unless a task was ended
\* in between or the pair its document names cannot be loaded.
CoreComesBack == Quiet /\ meant /\ "left" \notin excuse => core.up

\* What runs has loaded the pair that is on disk, whichever process replaced it
\* and whatever else failed; a core started while another task was issuing is
\* the exception.
RenewedIsServed ==
    Quiet /\ excuse \cap {"left", "shadowed", "stale"} = {} =>
        \A s \in {core, ep} : s.up /\ s.serial # 0 /\ HasPair(s.domain) =>
            s.serial = chain[s.domain].serial

\* Each setting is what its last change made it, unless somebody saved a copy
\* older than another one's save.
SettingsAsDecided == "stale" \notin excuse => conf = decided

\* The registration on disk is that of the key on disk and the CA knows one
\* account, however often a registration was interrupted; two that overlap are
\* the exception.
AccountFits ==
    "doubled" \notin excuse => /\ acct.reg \in {0, acct.key}
                               /\ Cardinality(ca) <= 1

\* pitfalls.md of the order in which a pair is written: an interruption leaves
\* no pair rather than a certificate beside a key it was not issued for.
PairNeverTorn ==
    Quiet /\ "mixed" \notin excuse => \A d \in Domains : HasPair(d) => Fits(d)

\* server.go of the listener and of the printed URL: their schemes never
\* disagree.
SchemesAgree ==
    Quiet /\ faults = 0 /\ ep.up =>
        ((ep.serial # 0) <=> HasPair(conf.domain))

=============================================================================
