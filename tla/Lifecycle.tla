------------------------------- MODULE Lifecycle -------------------------------
(***************************************************************************)
(* A deployment from its first provisioning to its removal: a document is  *)
(* turned into nodes, accounts, a certificate and running services         *)
(* (internal/provision), the panel's package is upgraded through apt       *)
(* (internal/update), and everything is removed again but the certificates *)
(* (internal/uninstall).  One of these runs at a time, while the           *)
(* accounting loop of the subscription service and another panel write     *)
(* the same files.  Any step can fail, and the process can be killed.      *)
(***************************************************************************)
EXTENDS Integers, Sequences, FiniteSets, Functions

CONSTANTS Documents,    \* what an operator provisions
          DefaultSub,   \* the default port of the subscription service
          MaxVersion,   \* bound on published versions
          MaxJobs,      \* bound on runs of provisioning, update and uninstall
          MaxMishaps,   \* bound on failed steps and kills
          MaxEdits,     \* bound on edits of another panel
          MaxCycles     \* bound on cycles of the accounting loop

ASSUME BoundsAssumption ==
    {DefaultSub, MaxVersion, MaxJobs, MaxMishaps, MaxEdits, MaxCycles}
        \subseteq Nat

ASSUME DocumentsAssumption ==
    \A d \in Documents :
       /\ d.nodes \in Seq([name : STRING, protocol : STRING, port : Nat])
       /\ d.accounts \in Seq([name : STRING, words : SUBSET STRING,
                              quota : Nat])
       /\ d.domain \in BOOLEAN /\ d.sub \in Nat

VARIABLES
    nodes,      \* the node file: records of id, name, protocol and port
    accounts,   \* the account file: by name the token, nodes, quota and usage
    cfg,        \* the state file: deployed, and the port of the subscriptions
    document,   \* config.json, or NoDocument
    core,       \* the document the core started with
    pair,       \* the certificate: "none", "work", "stash" or "lost"
    backup,     \* an archive of /root holds the certificate
    parts,      \* the parts of EasySB that run or are installed
    stray,      \* a hop rule is left whose node the node file no longer lists
    orders,     \* certificates ordered from the CA
    version     \* of the installed package

VARIABLES
    job,        \* what runs: kind, where it is, and what it was started with
    copy,       \* the stores a provisioning holds in memory
    cycle,      \* the accounts a cycle of the loop holds, under the lock
    outcome     \* of the last job: "none", "error", "provisioned", "removed",
                \* "updated" or "same"

(* History and bounds. *)
VARIABLES
    printed,    \* the tokens of the addresses the last provisioning printed
    before,     \* the stores as the job found them, and whether they fitted
    overlap,    \* a write of this job undid another's, or the reverse
    others,     \* another panel edited during the job
    adrift,     \* a restart failed after the document was replaced
    failed,     \* the steps of the last uninstall that failed
    uncertain,  \* a certificate was stashed and not put back, or lost
    wasted,     \* orders spent on a pair that was never installed
    unread,     \* the update could not read a version of the package
    made, jobs, mishaps, edits, cycles

stores == <<nodes, accounts>>
files == <<nodes, accounts, cfg, document, pair, backup>>
lifeHistory == <<printed, before, overlap, others, adrift, failed, uncertain,
             wasted, unread>>
limits == <<made, jobs, mishaps, edits, cycles>>
lifeVars == <<files, core, parts, stray, orders, version, job, copy, cycle,
              outcome, lifeHistory, limits>>

-----------------------------------------------------------------------------
NoAccounts == <<>>
NoDocument == [nodes |-> {}, users |-> {}]
Fresh == [deployed |-> FALSE, sub |-> DefaultSub]
NoCopy == [nodes |-> {}, accounts |-> NoAccounts, held |-> FALSE]
NoPrint == {}
NoBefore == [nodes |-> {}, accounts |-> NoAccounts, fits |-> FALSE,
             version |-> 0,
             goal |-> <<>>]
NoJob == [kind |-> "none", at |-> "idle", step |-> 1]

LifeParts == {"core", "core boot", "core unit", "sub", "sub boot", "sub unit",
              "rules", "rules boot", "rules unit", "timer", "panel"}

(* An account with bytes left and a node may connect. *)
Admitted(accs) ==
    {n \in DOMAIN accs : /\ accs[n].picks # {}
                         /\ accs[n].quota = 0 \/ accs[n].used < accs[n].quota}

RenderedFrom(ns, accs) ==
    [nodes |-> {<<n.id, n.protocol, n.port>> : n \in ns},
     users |-> {<<a, accs[a].picks>> : a \in Admitted(accs)}]

(* What a document asks for is on the host. *)
Serves(n, want) ==
    n.name = want.name \/ (n.protocol = want.protocol /\ n.port = want.port)

Named(ns, words) ==
    {n.id : n \in {m \in ns :
                     words = {} \/ {m.protocol, m.name} \cap words # {}}}

Fits(d, ns, accs) ==
    /\ \A i \in DOMAIN d.nodes : \E n \in ns : Serves(n, d.nodes[i])
    /\ \A i \in DOMAIN d.accounts :
          LET a == d.accounts[i] IN
          /\ a.name \in DOMAIN accs
          /\ Named(ns, a.words) \subseteq accs[a.name].picks
          /\ a.quota = accs[a.name].quota

LifeInit ==
    /\ nodes = {} /\ accounts = NoAccounts /\ cfg = Fresh
    /\ document = NoDocument /\ core = NoDocument
    /\ pair = "none" /\ backup = FALSE
    /\ parts = {"panel"} /\ stray = FALSE /\ orders = 0 /\ version = 0
    /\ job = NoJob /\ copy = NoCopy /\ cycle = NoCopy /\ outcome = "none"
    /\ printed = NoPrint /\ before = NoBefore
    /\ overlap = FALSE /\ others = FALSE /\ adrift = FALSE
    /\ failed = {} /\ uncertain = FALSE /\ wasted = 0 /\ unread = FALSE
    /\ made = 0 /\ jobs = 0 /\ mishaps = 0 /\ edits = 0 /\ cycles = 0

-----------------------------------------------------------------------------
(* Jobs. *)
Doing(kind, at) == job.kind = kind /\ job.at = at
To(at) == job' = [job EXCEPT !.at = at, !.step = 1]
Onward == job' = [job EXCEPT !.step = @ + 1]

StartJob(started) ==
    /\ job = NoJob /\ "panel" \in parts /\ jobs < MaxJobs /\ jobs' = jobs + 1
    /\ job' = started /\ outcome' = "none" /\ printed' = NoPrint
    /\ overlap' = FALSE /\ others' = FALSE /\ failed' = {} /\ unread' = FALSE

Ends(result) == job' = NoJob /\ outcome' = result /\ copy' = NoCopy
Mishap == mishaps < MaxMishaps /\ mishaps' = mishaps + 1

(* The process is killed between two steps. *)
Killed ==
    /\ job # NoJob /\ Mishap
    /\ Ends("error")
    /\ uncertain' = (uncertain \/ pair = "stash")
    /\ wasted' = IF Doing("provision", "pair") THEN wasted + 1 ELSE wasted
    /\ UNCHANGED <<files, core, parts, orders, stray, version, cycle, printed,
                   before, overlap, others, adrift, failed, unread, made,
                   jobs, edits, cycles>>

-----------------------------------------------------------------------------
(* Provisioning (provision.Run). *)

(* A document is refused when two of its nodes or accounts collide, when a *)
(* node takes the port it, or else the default, gives the subscription     *)
(* service, or when a node needs a certificate and there is no domain.     *)
Sound(d) ==
    LET sub == IF d.sub = 0 THEN DefaultSub ELSE d.sub IN
    /\ \A i, j \in DOMAIN d.nodes : i # j =>
          d.nodes[i].name # d.nodes[j].name /\ d.nodes[i].port # d.nodes[j].port
    /\ \A i \in DOMAIN d.nodes :
          d.nodes[i].port # sub /\ (d.nodes[i].protocol # "vless" => d.domain)
    /\ \A i, j \in DOMAIN d.accounts :
          d.accounts[i].name = d.accounts[j].name => i = j

Provision(d) ==
    /\ Sound(d)
    /\ StartJob([kind |-> "provision", at |-> "nodes", step |-> 1, doc |-> d,
                 first |-> ~cfg.deployed, stopped |-> FALSE,
                 sub |-> IF d.sub > 0 THEN d.sub ELSE cfg.sub])
    /\ copy' = [nodes |-> nodes, accounts |-> NoAccounts, held |-> TRUE]
    /\ before' = [nodes |-> nodes, accounts |-> accounts,
                  fits |-> Fits(d, nodes, accounts), version |-> version,
                  goal |-> <<d>>]
    /\ UNCHANGED <<files, core, parts, orders, stray, version, cycle, adrift,
                   uncertain, wasted, made, mishaps, edits, cycles>>

Refused == Ends("error") /\ UNCHANGED <<stores, made, overlap>>

(* applyNodes: a node that is there is left alone; a new one is added to   *)
(* the copy, and the copy is saved.                                        *)
ApplyNode ==
    /\ Doing("provision", "nodes") /\ job.step \in DOMAIN job.doc.nodes
    /\ LET want == job.doc.nodes[job.step]
           new == [id |-> made + 1, name |-> want.name,
                   protocol |-> want.protocol, port |-> want.port] IN
       \/ /\ \E n \in copy.nodes : Serves(n, want)
          /\ Onward /\ UNCHANGED <<stores, copy, made, overlap, outcome>>
       \/ /\ ~\E n \in copy.nodes : Serves(n, want)
          /\ \E n \in copy.nodes : n.port = want.port
          /\ Refused
       \/ /\ ~\E n \in copy.nodes : Serves(n, want) \/ n.port = want.port
          /\ nodes' = copy.nodes \cup {new}
          /\ copy' = [copy EXCEPT !.nodes = nodes']
          /\ overlap' = (overlap \/ nodes # copy.nodes)
          /\ made' = made + 1 /\ Onward /\ UNCHANGED <<accounts, outcome>>
    /\ UNCHANGED <<cfg, document, pair, backup, core, parts, orders, stray,
                   version, cycle, printed, before, others, adrift, failed,
                   uncertain, wasted, unread, jobs, mishaps, edits, cycles>>

LoadAccounts ==
    /\ Doing("provision", "nodes") /\ job.step \notin DOMAIN job.doc.nodes
    /\ copy' = [copy EXCEPT !.accounts = accounts]
    /\ To("accounts")
    /\ UNCHANGED <<files, core, parts, orders, stray, version, cycle, outcome,
                   lifeHistory, limits>>

\* Mutant: an account that is there is replaced by a new one.
SettledAnew(a) ==
    [token |-> made + 1, picks |-> Named(copy.nodes, a.words),
     quota |-> a.quota, used |-> 0]

(* An account that is there keeps its token, its usage and the nodes it    *)
(* was given; a new one starts with a token of its own.                    *)
SettledAccount(a) ==
    IF a.name \in DOMAIN copy.accounts
    THEN [copy.accounts[a.name] EXCEPT
             !.picks = @ \cup Named(copy.nodes, a.words), !.quota = a.quota]
    ELSE [token |-> made + 1, picks |-> Named(copy.nodes, a.words),
          quota |-> a.quota, used |-> 0]

(* applyAccounts: a word no node answers to stops the run there.           *)
ApplyAccount ==
    /\ Doing("provision", "accounts") /\ job.step \in DOMAIN job.doc.accounts
    /\ LET a == job.doc.accounts[job.step]
           known == UNION {{n.protocol, n.name} : n \in copy.nodes}
           put == [n \in DOMAIN copy.accounts \cup {a.name} |->
                      IF n = a.name THEN SettledAccount(a)
                                    ELSE copy.accounts[n]] IN
       IF a.words \subseteq known
       THEN /\ accounts' = put
            /\ copy' = [copy EXCEPT !.accounts = put]
            /\ overlap' = (overlap \/ accounts # copy.accounts)
            /\ made' = made + 1 /\ Onward /\ UNCHANGED <<nodes, outcome>>
       ELSE Refused
    /\ UNCHANGED <<cfg, document, pair, backup, core, parts, orders, stray,
                   version, cycle, printed, before, others, adrift, failed,
                   uncertain, wasted, unread, jobs, mishaps, edits, cycles>>

(* issueCertificate: the core gives up port 80 while the pair is issued.   *)
FreePort ==
    /\ Doing("provision", "accounts")
    /\ job.step \notin DOMAIN job.doc.accounts
    /\ IF job.doc.domain
       THEN /\ job' = [job EXCEPT !.at = "issue", !.stopped = "core" \in parts]
            /\ parts' = parts \ {"core"}
       ELSE To("config") /\ UNCHANGED parts
    /\ UNCHANGED <<files, core, orders, stray, version, cycle, copy, outcome,
                   lifeHistory, limits>>

\* Mutant: a certificate is ordered although a valid one is there.
DueAlways == TRUE

(* The pair is ordered only when the host has none that is still valid.    *)
Due == pair # "work"

CoreBack ==
    IF job.stopped THEN parts' = parts \cup {"core"} /\ core' = document
                   ELSE UNCHANGED <<parts, core>>

(* What is ordered is spent at the CA, whether it arrives or not. *)
OrderPair ==
    /\ Doing("provision", "issue")
    /\ \/ Due /\ orders' = orders + 1 /\ To("pair") /\ UNCHANGED <<parts, core>>
       \/ ~Due /\ UNCHANGED orders /\ CoreBack /\ To("timer")
    /\ UNCHANGED <<files, stray, version, cycle, copy, outcome, lifeHistory,
                   limits>>

InstallPair ==
    /\ Doing("provision", "pair")
    /\ pair' = "work"
    /\ CoreBack /\ To("timer")
    /\ UNCHANGED <<nodes, accounts, cfg, document, backup, orders, stray,
                   version, cycle, copy, outcome, lifeHistory, limits>>

(* Port 80 is taken or the CA refuses; or the CA has issued, and what it    *)
(* issued is not fetched, not readable or not written.                      *)
IssueFails ==
    /\ Mishap
    /\ \/ Doing("provision", "issue") /\ UNCHANGED wasted
       \/ Doing("provision", "pair") /\ wasted' = wasted + 1
    /\ CoreBack /\ Ends("error")
    /\ UNCHANGED <<files, orders, stray, version, cycle, printed, before,
                   overlap, others, adrift, failed, uncertain, unread, made,
                   jobs, edits, cycles>>

(* A timer that cannot be installed is only logged. *)
SetTimer ==
    /\ Doing("provision", "timer") /\ To("config")
    /\ \/ parts' = parts \cup {"timer"} /\ UNCHANGED mishaps
       \/ Mishap /\ UNCHANGED parts
    /\ UNCHANGED <<files, core, orders, stray, version, cycle, copy, outcome,
                   lifeHistory, made, jobs, edits, cycles>>

SaveSettings ==
    /\ Doing("provision", "config")
    /\ cfg' = [sub |-> job.sub, deployed |-> ~job.first]
    /\ To("apply")
    /\ UNCHANGED <<nodes, accounts, document, pair, backup, core, parts,
                   orders, stray, version, cycle, copy, outcome, lifeHistory,
                   limits>>

(* deploy.ApplyStore reads both files again, the accounts under their      *)
(* lock.  A running core with this very document is left alone.            *)
Applied ==
    LET now == RenderedFrom(nodes, accounts) IN
    IF "core" \in parts /\ document = now
    THEN UNCHANGED <<document, core, parts>>
    ELSE /\ document' = now /\ core' = now
         /\ parts' = parts \cup IF "core" \in parts THEN {"core"}
                              ELSE {"core", "core boot", "core unit"}

ApplyStore ==
    /\ Doing("provision", "apply") /\ ~cycle.held
    /\ IF nodes = {} THEN Ends("error") /\ UNCHANGED <<document, core, parts>>
                     ELSE /\ Applied /\ To("deployed")
                          /\ UNCHANGED <<outcome, copy>>
    /\ adrift' = (adrift /\ document' # core')
    /\ UNCHANGED <<nodes, accounts, cfg, pair, backup, orders, stray, version,
                   cycle, printed, before, overlap, others, failed, uncertain,
                   wasted, unread, limits>>

(* The core refuses the document, or does not come back with it. *)
ApplyFails ==
    /\ Doing("provision", "apply") /\ ~cycle.held /\ nodes # {} /\ Mishap
    /\ \/ UNCHANGED <<document, parts>>
       \/ /\ document' = RenderedFrom(nodes, accounts)
          /\ \/ UNCHANGED parts
             \/ parts' = parts \ {"core"}
    /\ adrift' = (adrift \/ document' # document)
    /\ Ends("error")
    /\ UNCHANGED <<nodes, accounts, cfg, pair, backup, core, orders, stray,
                   version, cycle, printed, before, overlap, others, failed,
                   uncertain, wasted, unread, made, jobs, edits, cycles>>

SaveDeployed ==
    /\ Doing("provision", "deployed")
    /\ cfg' = [sub |-> job.sub, deployed |-> TRUE]
    /\ To("firewall")
    /\ UNCHANGED <<nodes, accounts, document, pair, backup, core, parts,
                   orders, stray, version, cycle, copy, outcome, lifeHistory,
                   limits>>

(* On the first deployment only, and a failure is only logged. *)
SetRules ==
    /\ Doing("provision", "firewall") /\ To("service")
    /\ \/ ~job.first /\ UNCHANGED <<parts, mishaps>>
       \/ /\ job.first /\ UNCHANGED mishaps
          /\ parts' = parts \cup {"rules", "rules unit", "rules boot"}
       \/ /\ job.first /\ Mishap
          /\ parts' \in {parts, parts \cup {"rules"},
                        parts \cup {"rules", "rules unit"}}
    /\ UNCHANGED <<files, core, orders, stray, version, cycle, copy, outcome,
                   lifeHistory, made, jobs, edits, cycles>>

(* The subscription service is restarted, and with it the loop. *)
StartService ==
    /\ Doing("provision", "service")
    /\ \/ /\ parts' = parts \cup {"sub", "sub unit", "sub boot"}
          /\ cycle' = NoCopy
          /\ printed' = {<<a, copy.accounts[a].token>> :
                            a \in DOMAIN copy.accounts}
          /\ Ends("provisioned") /\ UNCHANGED mishaps
       \/ /\ Mishap /\ Ends("error")
          /\ parts' \in {parts, parts \cup {"sub unit"},
                        parts \cup {"sub unit", "sub boot"}}
          /\ UNCHANGED <<cycle, printed>>
    /\ UNCHANGED <<files, core, orders, stray, version, before, overlap,
                   others, adrift, failed, uncertain, wasted, unread, made,
                   jobs, edits, cycles>>

Provisioning ==
    \/ \E d \in Documents : Provision(d)
    \/ ApplyNode \/ LoadAccounts \/ ApplyAccount
    \/ FreePort \/ OrderPair \/ InstallPair \/ IssueFails \/ SetTimer
    \/ SaveSettings \/ ApplyStore \/ ApplyFails \/ SaveDeployed
    \/ SetRules \/ StartService

-----------------------------------------------------------------------------
(* Removing the deployment (uninstall.Run): each step that fails is logged *)
(* and the next one is tried.                                              *)

\* Mutant: the files go before the service that writes them.
FilesBeforeService ==
    <<"backup", "stash", "core", "core boot", "files", "sub", "sub boot",
      "rules", "rules boot", "rules unit", "core unit", "sub unit", "panel",
      "restore">>

UninstallSteps ==
    <<"backup", "stash", "core", "core boot", "sub", "sub boot", "rules",
      "rules boot", "rules unit", "core unit", "sub unit", "files", "panel",
      "restore">>

Uninstall ==
    /\ StartJob([kind |-> "uninstall", at |-> "step", step |-> 1])
    /\ before' = [NoBefore EXCEPT !.version = version]
    /\ UNCHANGED <<files, core, parts, orders, stray, version, copy, cycle,
                   adrift, uncertain, wasted, made, mishaps, edits, cycles>>

Removing(step) ==
    /\ Doing("uninstall", "step") /\ UninstallSteps[job.step] = step
    /\ IF job.step < Len(UninstallSteps)
       THEN Onward /\ UNCHANGED <<outcome, copy>>
       ELSE Ends("removed")

(* The archive is best effort, and there is none of a directory that is    *)
(* not there.                                                              *)
BackUp ==
    /\ Removing("backup")
    /\ backup' = (backup \/ pair = "work")
    /\ UNCHANGED <<stores, cfg, document, pair, core, parts, orders, stray,
                   version, cycle, lifeHistory, limits>>

StashPair ==
    /\ Removing("stash")
    /\ pair' = IF pair = "work" THEN "stash" ELSE pair
    /\ UNCHANGED <<stores, cfg, document, backup, core, parts, orders, stray,
                   version, cycle, lifeHistory, limits>>

(* Only the rules of the nodes in the file are looked for: one that was for *)
(* another port or another node stays, and nothing says so.  A file that    *)
(* cannot be read lists no node, which is logged.                           *)
RemovePart ==
    /\ \E part \in LifeParts :
          /\ Removing(part)
          /\ parts' = IF part = "rules" /\ stray THEN parts ELSE parts \ {part}
          /\ cycle' = IF part = "sub" THEN NoCopy ELSE cycle
    /\ UNCHANGED <<files, core, orders, stray, version, lifeHistory, limits>>

(* The directory goes with all that is in it. *)
RemoveFiles ==
    /\ Removing("files")
    /\ nodes' = {} /\ accounts' = NoAccounts /\ cfg' = Fresh
    /\ document' = NoDocument
    /\ stray' = (stray \/ "rules" \in parts)
    /\ pair' = IF pair = "work" THEN "lost" ELSE pair
    /\ uncertain' = (uncertain \/ pair = "work")
    /\ UNCHANGED <<backup, core, parts, orders, version, cycle, printed,
                   before, overlap, others, adrift, failed, wasted, unread,
                   limits>>

RestorePair ==
    /\ Removing("restore")
    /\ pair' = IF pair = "stash" THEN "work" ELSE pair
    /\ UNCHANGED <<stores, cfg, document, backup, core, parts, orders, stray,
                   version, cycle, lifeHistory, limits>>

RemovalFails ==
    /\ Mishap
    /\ \E step \in Range(UninstallSteps) :
          /\ Removing(step) /\ failed' = failed \cup {step}
          /\ uncertain' = (uncertain \/ (step = "restore" /\ pair = "stash"))
    /\ UNCHANGED <<files, core, parts, orders, stray, version, cycle, printed,
                   before, overlap, others, adrift, wasted, unread, made,
                   jobs, edits, cycles>>

Uninstalling ==
    \/ Uninstall \/ BackUp \/ StashPair \/ RemovePart \/ RemoveFiles
    \/ RestorePair \/ RemovalFails

-----------------------------------------------------------------------------
(* Upgrading the package (update.Apply).  A version that cannot be read is *)
(* Unread; the panel runs the version it was started with.                 *)
Unread == MaxVersion + 1

Update ==
    /\ StartJob([kind |-> "update", at |-> "remote", step |-> 1,
                 was |-> Unread, is |-> Unread])
    /\ before' = [NoBefore EXCEPT !.version = version]
    /\ UNCHANGED <<files, core, parts, orders, stray, version, copy, cycle,
                   adrift, uncertain, wasted, made, mishaps, edits, cycles>>

UpdateFrame == UNCHANGED <<files, core, parts, orders, stray, cycle, printed,
                           before, overlap, others, adrift, failed, uncertain,
                           wasted, made, jobs, edits, cycles>>

(* The published version is the panel's own: nothing to do.  One that      *)
(* cannot be fetched does not stop the upgrade.                            *)
CompareVersions ==
    /\ Doing("update", "remote")
    /\ \/ Ends("same")
       \/ To("before") /\ UNCHANGED <<outcome, copy>>
    /\ UNCHANGED <<version, unread, mishaps>> /\ UpdateFrame

(* dpkg-query answers, or its answer counts as no version. *)
Query(result) ==
    \/ result = version /\ UNCHANGED <<unread, mishaps>>
    \/ result = Unread /\ unread' = TRUE /\ Mishap

QueryBefore ==
    /\ Doing("update", "before")
    /\ \E v \in 0..Unread : /\ Query(v)
                            /\ job' = [job EXCEPT !.at = "install", !.was = v]
    /\ UNCHANGED <<version, outcome, copy>> /\ UpdateFrame

(* The package source may have a newer version, or not. *)
InstallPackage ==
    /\ Doing("update", "install")
    /\ \/ /\ \E v \in version..MaxVersion : version' = v
          /\ To("after") /\ UNCHANGED <<outcome, copy, mishaps>>
       \/ /\ Mishap /\ Ends("error")
          /\ \E v \in version..MaxVersion : version' = v
    /\ UNCHANGED unread /\ UpdateFrame

\* Mutant: an upgrade that found nothing newer is reported as one.
ComparedToPublished(was, is) == "updated"

Compared(was, is) == IF is # Unread /\ is = was THEN "same" ELSE "updated"

QueryAfter ==
    /\ Doing("update", "after")
    /\ \E v \in 0..Unread : Query(v) /\ Ends(Compared(job.was, v))
    /\ UNCHANGED version /\ UpdateFrame

Updating ==
    Update \/ CompareVersions \/ QueryBefore \/ InstallPackage \/ QueryAfter

-----------------------------------------------------------------------------
(* What else happens. *)

(* A cycle of the accounting loop: it holds the lock of the account file   *)
(* from its load to its save (stats.Loop.Tick).                            *)
CycleLoads ==
    /\ {"sub", "core"} \subseteq parts /\ ~cycle.held
    /\ Admitted(accounts) # {} /\ cycles < MaxCycles
    /\ cycle' = [NoCopy EXCEPT !.accounts = accounts, !.held = TRUE]
    /\ cycles' = cycles + 1
    /\ UNCHANGED <<files, core, parts, orders, stray, version, job, copy,
                   outcome, lifeHistory, made, jobs, mishaps, edits>>

CycleSaves ==
    /\ cycle.held
    /\ \E a \in Admitted(cycle.accounts) :
          accounts' = [cycle.accounts EXCEPT ![a].used = @ + 1]
    /\ overlap' = (overlap \/ accounts # cycle.accounts)
    /\ cycle' = NoCopy
    /\ UNCHANGED <<nodes, cfg, document, pair, backup, core, parts, orders,
                   stray, version, job, copy, outcome, printed, before,
                   others, adrift, failed, uncertain, wasted, unread, limits>>

(* Another panel renames or moves a node, rotates a token, removes an      *)
(* account, each under the lock.                                           *)
PanelEdits ==
    /\ ~cycle.held /\ edits < MaxEdits /\ edits' = edits + 1
    /\ \/ /\ \E n \in nodes : nodes' = (nodes \ {n}) \cup {[n EXCEPT !.name = "other"]}
          /\ UNCHANGED <<accounts, cfg, stray, made>>
       \/ /\ \E n \in nodes :
                /\ nodes' = (nodes \ {n}) \cup {[n EXCEPT !.port = 0]}
                /\ stray' = (stray \/ (n.protocol = "hysteria2" /\ "rules" \in parts))
          /\ UNCHANGED <<accounts, cfg, made>>
       \/ /\ \E a \in DOMAIN accounts :
                accounts' = [accounts EXCEPT ![a].token = made + 1]
          /\ made' = made + 1 /\ UNCHANGED <<nodes, cfg, stray>>
       \/ /\ \E a \in DOMAIN accounts :
                accounts' = [b \in DOMAIN accounts \ {a} |-> accounts[b]]
          /\ UNCHANGED <<nodes, cfg, stray, made>>
    /\ others' = TRUE
    /\ UNCHANGED <<document, pair, backup, core, parts, orders, version, job,
                   copy, cycle, outcome, printed, before, overlap, adrift,
                   failed, uncertain, wasted, unread, jobs, mishaps, cycles>>

(* The operator installs the package again. *)
Reinstall ==
    /\ job = NoJob /\ "panel" \notin parts /\ jobs < MaxJobs
    /\ parts' = parts \cup {"panel"} /\ outcome' = "none"
    /\ UNCHANGED <<files, core, orders, stray, version, job, copy, cycle,
                   lifeHistory, limits>>

LifeNext ==
    \/ Provisioning \/ Uninstalling \/ Updating \/ Killed
    \/ CycleLoads \/ CycleSaves \/ PanelEdits \/ Reinstall

LifeSpec == LifeInit /\ [][LifeNext]_lifeVars

-----------------------------------------------------------------------------
(* A provisioning that nobody disturbed leaves the host its document asks  *)
(* for, running, and the addresses it printed are those of the accounts.   *)
(* On a host that already fitted it adds nothing and rotates nothing.      *)
Undisturbed == ~overlap /\ ~others

RunConverges ==
    outcome = "provisioned" /\ Undisturbed =>
        /\ {"core", "sub"} \subseteq parts /\ cfg.deployed
        /\ \A p \in printed : p[1] \in DOMAIN accounts
                              /\ accounts[p[1]].token = p[2]
        /\ {p[1] : p \in printed} = DOMAIN accounts
        /\ ~adrift => core = document
        /\ Fits(before.goal[1], nodes, accounts)
        /\ before.fits =>
              /\ nodes = before.nodes
              /\ \A a \in DOMAIN before.accounts :
                    /\ a \in DOMAIN accounts
                    /\ accounts[a].token = before.accounts[a].token
                    /\ accounts[a].picks = before.accounts[a].picks
                    /\ accounts[a].used >= before.accounts[a].used

(* The certificate outlives the deployment, and a deployment that follows  *)
(* uses it instead of ordering another.  What costs an order more: a failed *)
(* step or a kill of an uninstall with the certificate aside, and an order  *)
(* whose certificate was never installed, the CA having issued it before a  *)
(* failure or a kill.  When both the archive and the stash failed it is     *)
(* lost.                                                                    *)
PairIsKept ==
    /\ orders > 1 + wasted => uncertain
    /\ pair = "lost" => backup \/ mishaps > 1

(* After an uninstall nothing of EasySB runs or is left but what a step    *)
(* that failed was to remove, the renewal timer, and hop rules of nodes    *)
(* that had been moved or forgotten: the service that writes the files is  *)
(* gone before they are.                                                   *)
LeftoversExplained ==
    outcome = "removed" =>
        /\ parts \ {"timer"} \subseteq failed \cup {x \in {"rules"} : stray}
        /\ "files" \notin failed =>
              /\ nodes = {} /\ document = NoDocument /\ cfg = Fresh
              /\ "sub" \notin failed => accounts = NoAccounts

(* The upgrade says it changed the package only when it did, or when it    *)
(* could not read a version, and never that nothing changed when it did.   *)
UpdateIsTold ==
    /\ outcome = "updated" => version # before.version \/ unread
    /\ outcome = "same" => version = before.version

(* The printed addresses reach their accounts (provision.go, buildResult:  *)
(* "the address printed here is the one a client can actually fetch"),     *)
(* also while the loop writes the account file.                            *)
PrintedUrlsWork ==
    outcome = "provisioned" /\ ~others =>
        \A p \in printed : p[1] \in DOMAIN accounts
                           /\ accounts[p[1]].token = p[2]

=============================================================================
