-------------------------- MODULE HostStateProofs --------------------------
(***************************************************************************)
(* Proofs about HostState, for any number of panels, domains, tasks and    *)
(* failures: the types, and each of the five safety properties from an     *)
(* inductive invariant of its own.                                         *)
(*                                                                         *)
(* A step is one process's own (StepsAlone): to another task it does at    *)
(* most that its copy of the settings is no longer current.  What a step   *)
(* makes of its own task is stated field by field in the lemmas named      *)
(* ...Turns; the proofs of the invariants work from those, and from the    *)
(* shape of a task (Shapes), which says what a task holds where it is.     *)
(***************************************************************************)
EXTENDS HostState, FiniteSetTheorems, TLAPS
\* Settings nobody has saved yet are settings.
LEMMA NoConfType == NoConf \in Conf
BY HostConstants DEF NoConf, Conf

\* A process that does nothing is a process.
LEMMA IdleType == Idle \in Task
BY NoConfType DEF Idle, Task, Kinds

\* The initial state is well typed.
LEMMA InitType == Init => TypeOK
<1> SUFFICES ASSUME Init PROVE TypeOK
  OBVIOUS
<1>1. 1 \in Domains
  BY HostConstants DEF Domains
<1>2. conf \in Conf /\ decided \in Conf
  BY <1>1, NoConfType DEF Init, Conf
<1>3. key \in [Domains -> Nat] /\ chain \in [Domains -> Chain] /\ due \subseteq Domains
  BY <1>1 DEF Init, Chain, NoChain
<1>4. acct \in [key: Nat, reg: Nat] /\ ca \subseteq Nat
  <2>1. acct \in [key: Nat, reg: Nat]
    BY DEF Init
  <2>2. QED
    BY <2>1 DEF Init
<1>5. doc \in Domains \cup {NoDomain} /\ core \in Service /\ ep \in Service
  BY <1>2, <1>3 DEF Init, Conf, Service, Serial, Chain
<1>6. task \in [Procs -> Task]
  BY IdleType DEF Init
<1>7. {timer, meant} \subseteq BOOLEAN /\ excuse = {}
      /\ {minted, tasks, faults, ages} \subseteq Nat
  BY <1>2 DEF Init, Conf
<1>8. QED
  BY <1>2, <1>3, <1>4, <1>5, <1>6, <1>7 DEF TypeOK

-----------------------------------------------------------------------------
Labels == {"idle"} \cup Forms \cup Working

Excuses == {"left", "shadowed", "mixed", "stale", "doubled"}

\* A process goes on as another one.
LEMMA BecomeType ==
    ASSUME TypeOK, NEW p \in Procs, NEW t \in Task, Become(p, t)
    PROVE  task' \in [Procs -> Task]
BY DEF TypeOK, Become

\* A process moves to another place.
LEMMA GotoType ==
    ASSUME TypeOK, NEW p \in Procs, NEW label \in Labels, Goto(p, label)
    PROVE  task' \in [Procs -> Task]
<1>1. \A t \in Task : [t EXCEPT !.pc = label] \in Task
  BY DEF Task, Labels
<1>2. QED
  BY <1>1 DEF TypeOK, Goto

\* Only what the properties excuse is recorded as an excuse.
LEMMA ExcuseType ==
    ASSUME TypeOK, NEW S, S \subseteq Excuses, Excuse(S)
    PROVE  excuse' \subseteq Excuses
BY DEF TypeOK, Excuse, Excuses

\* A pair is resolved to a domain, and numbered.
LEMMA ResolveType ==
    ASSUME TypeOK, NEW d \in Domains \cup {NoDomain}
    PROVE  /\ ResolveActive(d) \in Domains \cup {NoDomain}
           /\ Serial(d) \in Nat
           /\ Loadable(d) \in BOOLEAN
BY DEF TypeOK, ResolveActive, Serial, Chain, Loadable, HasPair, Fits

\* Saving the settings keeps the types of all it touches.
LEMMA SaveConfType ==
    ASSUME TypeOK, NEW p \in Procs, NEW copy \in Conf, NEW own \in Conf,
           NEW fresh \in BOOLEAN, NEW t \in Task,
           SaveConf(p, copy, own, fresh, t)
    PROVE  /\ conf' \in Conf /\ decided' \in Conf
           /\ task' \in [Procs -> Task] /\ excuse' \subseteq Excuses
<1>1. conf' = copy /\ decided' \in {copy, own}
  BY DEF SaveConf
<1>2. task' \in [Procs -> Task]
  <2>1. \A q \in Procs : [task[q] EXCEPT !.fresh = FALSE] \in Task
    BY DEF TypeOK, Task
  <2>2. QED
    BY <2>1 DEF SaveConf
<1>3. excuse' \subseteq Excuses
  BY DEF SaveConf, Excuse, When, TypeOK, Excuses
<1>4. QED
  BY <1>1, <1>2, <1>3

\* A start of the core, and one of the subscription service.
LEMMA ServiceType ==
    ASSUME TypeOK, NEW p \in Procs, NEW d \in Domains \cup {NoDomain}
    PROVE  /\ CoreStarts(p, d) => core' \in Service /\ excuse' \subseteq Excuses
           /\ EndpointStarts => ep' \in Service
<1>1. Serial(d) \in Nat /\ Loadable(d) \in BOOLEAN
  BY ResolveType
<1>2. CoreStarts(p, d) => core' \in Service
  BY <1>1 DEF CoreStarts, Service
<1>3. CoreStarts(p, d) => excuse' \subseteq Excuses
  BY DEF CoreStarts, Excuse, When, TypeOK, Excuses
<1>4. /\ ResolveActive(conf.domain) \in Domains \cup {NoDomain}
      /\ Serial(ResolveActive(conf.domain)) \in Nat
  <2>1. conf.domain \in Domains \cup {NoDomain}
    BY DEF TypeOK, Conf
  <2>2. QED
    BY <2>1, ResolveType
<1>5. EndpointStarts => ep' \in Service
  <2>1. Loadable(ResolveActive(conf.domain)) \in BOOLEAN
    BY <1>4, ResolveType
  <2>2. QED
    BY <1>4, <2>1 DEF EndpointStarts, Service
<1>6. QED
  BY <1>2, <1>3, <1>5

\* What the screens and the tasks make of settings are settings.
LEMMA ChangesType ==
    ASSUME NEW c \in Conf, NEW d \in Domains \cup {NoDomain}, NEW v \in SubPorts
    PROVE  /\ Activated(c, d) \in Conf
           /\ Cleared(c, d) \in Conf
           /\ [c EXCEPT !.port = v] \in Conf
           /\ Activated([c EXCEPT !.port = v], d) \in Conf
           /\ [c EXCEPT !.deployed = TRUE] \in Conf
BY DEF Conf, Activated, Cleared

-----------------------------------------------------------------------------
\* Steps towards an account at the CA.
LEMMA AccountType ==
    ASSUME TypeOK, NEW p \in Procs, Account(p)
    PROVE  TypeOK'
<1>0. task[p] \in Task /\ task \in [Procs -> Task] /\ minted + 1 \in Nat
      /\ acct.key \in Nat /\ acct.reg \in Nat
  BY DEF TypeOK
<1> USE DEF pairs, account, services, bounds, history
<1>1. CASE FindKey(p)
  <2>1. task' \in [Procs -> Task]
    <3>1. \A label \in {"begin", "lookup"} :
              [task[p] EXCEPT !.key = acct.key, !.pc = label] \in Task
      BY <1>0 DEF Task, Working
    <3>2. task' = [task EXCEPT ![p] = [task[p] EXCEPT !.key = acct.key,
                      !.pc = IF acct.reg # 0 THEN "begin" ELSE "lookup"]]
      BY <1>1 DEF FindKey
    <3>3. QED
      BY <1>0, <3>1, <3>2
  <2>2. QED
    BY <1>1, <2>1 DEF FindKey, TypeOK
<1>2. CASE FindNoKey(p)
  BY <1>2, GotoType DEF FindNoKey, TypeOK, Labels, Working
<1>3. CASE MintKey(p)
  <2>1. task' \in [Procs -> Task]
    <3>1. [task[p] EXCEPT !.key = minted + 1, !.pc = "lookup"] \in Task
      BY <1>0 DEF Task, Working
    <3>2. task' = [task EXCEPT ![p] = [task[p] EXCEPT !.key = minted + 1,
                                                      !.pc = "lookup"]]
      BY <1>3 DEF MintKey
    <3>3. QED
      BY <1>0, <3>1, <3>2
  <2>2. excuse' \subseteq Excuses
    BY <1>3 DEF MintKey, Excuse, When, TypeOK, Excuses
  <2>3. QED
    BY <1>0, <1>3, <2>1, <2>2 DEF MintKey, TypeOK, Excuses
<1>4. CASE KnownAccount(p)
  <2>1. task' \in [Procs -> Task]
    <3>1. [task[p] EXCEPT !.key = acct.key, !.pc = "begin"] \in Task
      BY <1>0 DEF Task, Working
    <3>2. task' = [task EXCEPT ![p] = [task[p] EXCEPT !.key = acct.key,
                                                      !.pc = "begin"]]
      BY <1>4 DEF KnownAccount
    <3>3. QED
      BY <1>0, <3>1, <3>2
  <2>2. QED
    BY <1>4, <2>1 DEF KnownAccount, TypeOK
<1>5. CASE Register(p)
  <2>1. task' \in [Procs -> Task]
    BY <1>5, GotoType DEF Register, Labels, Working
  <2>2. task[p].key \in Nat
    BY <1>0 DEF Task
  <2>3. QED
    BY <1>5, <2>1, <2>2 DEF Register, TypeOK
<1>6. CASE WriteRegistration(p)
  <2>1. task' \in [Procs -> Task]
    BY <1>6, GotoType DEF WriteRegistration, Labels, Working
  <2>2. task[p].key \in Nat
    BY <1>0 DEF Task
  <2>3. QED
    BY <1>6, <2>1, <2>2 DEF WriteRegistration, TypeOK
<1>7. CASE NotRegistered(p)
  BY <1>7, BecomeType, IdleType DEF NotRegistered, TypeOK
<1>8. QED
  BY <1>1, <1>2, <1>3, <1>4, <1>5, <1>6, <1>7 DEF Account

\* Steps of an issue.
LEMMA IssueType ==
    ASSUME TypeOK, NEW p \in Procs, Issue(p)
    PROVE  TypeOK'
<1>0. task[p] \in Task /\ task \in [Procs -> Task] /\ minted + 1 \in Nat
      /\ conf \in Conf /\ decided \in Conf /\ core \in Service
      /\ doc \in Domains \cup {NoDomain}
  BY DEF TypeOK
<1>1. /\ task[p].domain \in Domains \cup {NoDomain} /\ task[p].cfg \in Conf
      /\ task[p].fresh \in BOOLEAN /\ task[p].cancelled \in BOOLEAN
      /\ task[p].cfg.port \in SubPorts
  BY <1>0 DEF Task, Conf
<1> USE DEF pairs, account, services, bounds, history
<1>2. CASE Begin(p)
  <2> DEFINE stop == core.up /\ ~task[p].cancelled
             t == [task[p] EXCEPT !.pc = "check", !.stopped = stop, !.key = 0]
             u == IF t.kind = "issue" THEN [t EXCEPT !.cfg = conf, !.fresh = TRUE]
                  ELSE t
  <2>1. Become(p, u) /\ core' = [core EXCEPT !.up = @ /\ ~stop]
    BY <1>2 DEF Begin
  <2>2. stop \in BOOLEAN
    OBVIOUS
  <2>3. t \in Task
    <3> HIDE DEF stop
    <3>1. QED
      BY <1>0, <2>2 DEF Task, Working, Issuing
  <2>4. u \in Task
    <3> HIDE DEF t
    <3>1. QED
      BY <1>0, <2>3, ZenonT(60) DEF Task
  <2>5. core' \in Service
    <3>1. \A b \in BOOLEAN : [core EXCEPT !.up = b] \in Service
      BY <1>0 DEF Service
    <3>2. (core.up /\ ~stop) \in BOOLEAN
      OBVIOUS
    <3>3. core' = [core EXCEPT !.up = core.up /\ ~stop]
      BY <1>0, <2>1 DEF Service
    <3>4. QED
      BY ONLY <3>1, <3>2, <3>3, Zenon
  <2> HIDE DEF u
  <2>6. task' \in [Procs -> Task]
    BY <2>1, <2>4, BecomeType
  <2>7. QED
    BY <1>2, <2>5, <2>6 DEF Begin, TypeOK
<1>3. CASE NotDue(p)
  BY <1>3, GotoType DEF NotDue, TypeOK, Labels, Working, Issuing
<1>4. CASE Obtain(p)
  <2>1. [task[p] EXCEPT !.key = minted + 1, !.pc = "key"] \in Task
    BY <1>0 DEF Task, Working, Issuing
  <2>2. task' = [task EXCEPT ![p] = [task[p] EXCEPT !.key = minted + 1, !.pc = "key"]]
    BY <1>4 DEF Obtain
  <2>3. QED
    BY <1>0, <1>4, <2>1, <2>2 DEF Obtain, TypeOK
<1>5. CASE IssueFails(p)
  <2>1. [task[p] EXCEPT !.ok = FALSE, !.pc = "start"] \in Task
    BY <1>0 DEF Task, Working, Issuing
  <2>2. task' = [task EXCEPT ![p] = [task[p] EXCEPT !.ok = FALSE, !.pc = "start"]]
    BY <1>5 DEF IssueFails
  <2>3. faults' \in Nat
    BY <1>5 DEF IssueFails, Fault, TypeOK
  <2>4. QED
    BY <1>0, <1>5, <2>1, <2>2, <2>3 DEF IssueFails, TypeOK
<1>6. CASE WriteKey(p)
  <2>1. task' \in [Procs -> Task]
    BY <1>6, GotoType DEF WriteKey, Labels, Working, Issuing
  <2>2. excuse' \subseteq Excuses
    BY <1>6 DEF WriteKey, Excuse, When, TypeOK, Excuses
  <2>3. key' \in [Domains -> Nat]
    BY <1>0, <1>6 DEF WriteKey, TypeOK, Task
  <2>4. QED
    BY <1>6, <2>1, <2>2, <2>3 DEF WriteKey, TypeOK, Excuses
<1>7. CASE WriteChain(p)
  <2> DEFINE d == task[p].domain
             c == [serial |-> minted + 1, for |-> task[p].key]
             r == [task[p] EXCEPT !.pc = "renew", !.renewed = TRUE, !.key = 0,
                                  !.domain = NoDomain]
             i == [task[p] EXCEPT !.pc = "start", !.key = 0]
  <2>1. /\ minted' = minted + 1 /\ chain' = [chain EXCEPT ![d] = c]
        /\ due' = due \ {d}
        /\ Become(p, IF task[p].kind = "renew" THEN r ELSE i)
        /\ UNCHANGED <<conf, key, account, services, tasks, faults, ages, decided,
                       meant>>
    BY <1>7 DEF WriteChain
  <2>2. c \in Chain
    BY <1>0 DEF Chain, Task
  <2>3. r \in Task /\ i \in Task
    BY <1>0 DEF Task, Working, Issuing
  <2>4. excuse' \subseteq Excuses
    BY <1>7 DEF WriteChain, Excuse, When, TypeOK, Excuses
  <2> HIDE DEF c, r, i
  <2>5. task' \in [Procs -> Task]
    BY <2>1, <2>3, BecomeType
  <2>6. chain' \in [Domains -> Chain]
    BY <2>1, <2>2 DEF TypeOK
  <2>7. QED
    BY <1>0, <2>1, <2>4, <2>5, <2>6 DEF TypeOK, Excuses
<1>8. CASE StartCore(p)
  <2> DEFINE s == [task[p] EXCEPT !.pc = "save", !.stopped = FALSE]
  <2>1. /\ \/ CoreStarts(p, doc)
           \/ UNCHANGED core /\ Excuse(When(task[p].stopped /\ task[p].cancelled,
                                            "left"))
        /\ Become(p, IF task[p].ok /\ HasPair(task[p].domain) THEN s ELSE Idle)
        /\ UNCHANGED <<conf, pairs, account, doc, ep, timer, bounds, decided, meant>>
    BY <1>8 DEF StartCore
  <2>2. s \in Task
    BY <1>0 DEF Task, Working
  <2> HIDE DEF s
  <2>3. task' \in [Procs -> Task]
    BY <2>1, <2>2, IdleType, BecomeType
  <2>4. core' \in Service /\ excuse' \subseteq Excuses
    BY <1>0, <2>1, ServiceType DEF Excuse, When, TypeOK, Excuses
  <2>5. QED
    BY <2>1, <2>3, <2>4 DEF TypeOK, Excuses
<1>9. Deploying(p, "issue") \in Task
  BY <1>1, IdleType DEF Deploying, Task, Working, Kinds
<1>10. CASE SaveIssued(p)
  <2> DEFINE d == task[p].domain
             t == IF task[p].cfg.deployed THEN Deploying(p, "issue") ELSE Idle
  <2>1. /\ SaveConf(p, Activated(task[p].cfg, d), Activated(decided, d),
                    task[p].fresh, t)
        /\ timer' = (timer \/ ~task[p].cancelled)
        /\ UNCHANGED <<pairs, account, doc, core, ep, bounds, meant>>
    BY <1>10 DEF SaveIssued
  <2>2. t \in Task
    BY <1>9, IdleType
  <2>3. Activated(task[p].cfg, d) \in Conf /\ Activated(decided, d) \in Conf
    BY <1>0, <1>1, ChangesType
  <2>4. timer' \in BOOLEAN
    BY <2>1
  <2> HIDE DEF t, d
  <2>5. /\ conf' \in Conf /\ decided' \in Conf
        /\ task' \in [Procs -> Task] /\ excuse' \subseteq Excuses
    BY <1>1, <2>1, <2>2, <2>3, SaveConfType
  <2>6. QED
    BY <2>1, <2>4, <2>5 DEF TypeOK, Excuses
<1>11. CASE SaveProvision(p)
  <2> DEFINE d == task[p].domain
             Change(c) == Activated([c EXCEPT !.port = task[p].cfg.port], d)
             t == [Idle EXCEPT !.pc = "install", !.kind = "provision",
                               !.cfg = Change(task[p].cfg), !.fresh = task[p].fresh]
  <2>1. /\ SaveConf(p, Change(task[p].cfg), Change(decided), task[p].fresh, t)
        /\ timer' = (timer \/ d # NoDomain)
        /\ UNCHANGED <<pairs, account, doc, core, ep, bounds, meant>>
    BY <1>11 DEF SaveProvision
  <2>2. Change(task[p].cfg) \in Conf /\ Change(decided) \in Conf
    BY <1>0, <1>1, ChangesType
  <2>3. timer' \in BOOLEAN
    BY <2>1
  <2> HIDE DEF Change
  <2>4. t \in Task
    BY <1>1, <2>2, IdleType DEF Task, Working, Kinds
  <2> HIDE DEF t, d
  <2>5. /\ conf' \in Conf /\ decided' \in Conf
        /\ task' \in [Procs -> Task] /\ excuse' \subseteq Excuses
    BY <1>1, <2>1, <2>2, <2>4, SaveConfType
  <2>6. QED
    BY <2>1, <2>3, <2>5 DEF TypeOK, Excuses
<1>12. QED
  BY <1>2, <1>3, <1>4, <1>5, <1>6, <1>7, <1>8, <1>10, <1>11 DEF Issue

\* Steps of a deployment.
LEMMA DeployType ==
    ASSUME TypeOK, NEW p \in Procs, Deploy(p)
    PROVE  TypeOK'
<1>0. task[p] \in Task /\ task \in [Procs -> Task] /\ conf \in Conf
      /\ decided \in Conf /\ doc \in Domains \cup {NoDomain}
  BY DEF TypeOK
<1>1. /\ task[p].cfg \in Conf /\ task[p].fresh \in BOOLEAN
      /\ task[p].cancelled \in BOOLEAN
      /\ task[p].cfg.domain \in Domains \cup {NoDomain}
  BY <1>0 DEF Task, Conf
<1>2. ResolveActive(task[p].cfg.domain) \in Domains \cup {NoDomain}
  BY <1>1, ResolveType
<1> USE DEF pairs, account, services, bounds, history
<1>3. CASE ApplyLoad(p)
  <2>1. [task[p] EXCEPT !.cfg = conf, !.fresh = TRUE, !.pc = "install"] \in Task
    BY <1>0 DEF Task, Working
  <2>2. task' = [task EXCEPT ![p] = [task[p] EXCEPT !.cfg = conf, !.fresh = TRUE,
                                                    !.pc = "install"]]
    BY <1>3 DEF ApplyLoad
  <2>3. QED
    BY <1>0, <1>3, <2>1, <2>2 DEF ApplyLoad, TypeOK
<1>4. CASE Refused(p)
  BY <1>4, IdleType, BecomeType DEF Refused, Excuse, TypeOK
<1>5. CASE SameAsLive(p)
  BY <1>5, GotoType DEF SameAsLive, TypeOK, Labels, Working
<1>6. CASE Install(p)
  <2> DEFINE d == ResolveActive(task[p].cfg.domain)
  <2>1. /\ doc' = d
        /\ \/ Become(p, Idle) /\ Excuse({"left"}) /\ UNCHANGED <<core, meant>>
           \/ Goto(p, "deployed") /\ CoreStarts(p, d) /\ meant' = TRUE
        /\ UNCHANGED <<conf, pairs, account, ep, timer, bounds, decided>>
    BY <1>6 DEF Install
  <2>2. task' \in [Procs -> Task]
    BY <2>1, IdleType, BecomeType, GotoType DEF Labels, Working
  <2>3. core' \in Service /\ excuse' \subseteq Excuses
    BY <1>2, <2>1, ServiceType DEF Excuse, TypeOK, Excuses
  <2>4. QED
    BY <1>2, <2>1, <2>2, <2>3 DEF TypeOK, Excuses
<1>7. CASE SaveDeployed(p)
  <2> DEFINE more == task[p].kind # "deploy" \/ ~task[p].cfg.deployed
             e == [Idle EXCEPT !.pc = "endpoint", !.cancelled = task[p].cancelled]
  <2>1. /\ SaveConf(p, [task[p].cfg EXCEPT !.deployed = TRUE],
                    [decided EXCEPT !.deployed = TRUE], task[p].fresh,
                    IF more THEN e ELSE Idle)
        /\ UNCHANGED <<pairs, account, services, bounds, meant>>
    BY <1>7 DEF SaveDeployed
  <2>2. /\ [task[p].cfg EXCEPT !.deployed = TRUE] \in Conf
        /\ [decided EXCEPT !.deployed = TRUE] \in Conf
    BY <1>0, <1>1 DEF Conf
  <2>3. (IF more THEN e ELSE Idle) \in Task
    <3>1. e \in Task
      BY <1>1, IdleType DEF Task, Working
    <3> HIDE DEF e, more
    <3>2. QED
      BY <3>1, IdleType
  <2> HIDE DEF e, more
  <2>4. /\ conf' \in Conf /\ decided' \in Conf
        /\ task' \in [Procs -> Task] /\ excuse' \subseteq Excuses
    BY <1>1, <2>1, <2>2, <2>3, SaveConfType
  <2>5. QED
    BY <2>1, <2>4 DEF TypeOK, Excuses
<1>8. CASE StartEndpoint(p)
  <2>1. ep' \in Service /\ excuse' \subseteq Excuses
    BY <1>0, <1>8, ServiceType DEF StartEndpoint, Excuse, TypeOK, Excuses
  <2>2. task' \in [Procs -> Task]
    BY <1>8, IdleType, BecomeType DEF StartEndpoint
  <2>3. QED
    BY <1>8, <2>1, <2>2 DEF StartEndpoint, TypeOK, Excuses
<1>9. QED
  BY <1>3, <1>4, <1>5, <1>6, <1>7, <1>8 DEF Deploy

\* Steps of a renewal.
LEMMA RenewType ==
    ASSUME TypeOK, NEW p \in Procs, Renew(p)
    PROVE  TypeOK'
<1>0. task[p] \in Task /\ task \in [Procs -> Task]
      /\ doc \in Domains \cup {NoDomain} /\ key \in [Domains -> Nat]
      /\ task[p].todo \subseteq Domains
  BY DEF TypeOK, Task
<1> USE DEF pairs, account, services, bounds, history
<1>1. CASE RenewSkips(p)
  <2>1. PICK d \in task[p].todo :
            task' = [task EXCEPT ![p] = [task[p] EXCEPT !.todo = @ \ {d}]]
    BY <1>1 DEF RenewSkips
  <2>2. [task[p] EXCEPT !.todo = @ \ {d}] \in Task
    BY <1>0 DEF Task
  <2>3. QED
    BY <1>0, <1>1, <2>1, <2>2 DEF RenewSkips, TypeOK
<1>2. CASE RenewOne(p)
  <2>1. PICK d \in task[p].todo :
            task' = [task EXCEPT ![p].todo = @ \ {d}, ![p].domain = d,
                                 ![p].key = key[d], ![p].pc = "key"]
    BY <1>2 DEF RenewOne
  <2> DEFINE t == [task[p] EXCEPT !.todo = @ \ {d}, !.domain = d, !.key = key[d],
                                  !.pc = "key"]
  <2>2. t \in Task
    BY <1>0 DEF Task, Working, Issuing
  <2>3. task' = [task EXCEPT ![p] = t]
    BY <1>0, <2>1
  <2> HIDE DEF t
  <2>4. task' \in [Procs -> Task]
    BY <1>0, <2>2, <2>3
  <2>5. UNCHANGED <<conf, pairs, account, services, bounds, history>>
    BY <1>2 DEF RenewOne
  <2>6. QED
    BY <2>4, <2>5 DEF TypeOK
<1>3. CASE RenewFails(p)
  <2>1. PICK d \in task[p].todo :
            task' = [task EXCEPT ![p] = [task[p] EXCEPT !.todo = @ \ {d},
                                                        !.ok = FALSE]]
    BY <1>3, ZenonT(60) DEF RenewFails
  <2>2. [task[p] EXCEPT !.todo = @ \ {d}, !.ok = FALSE] \in Task
    BY <1>0 DEF Task
  <2>3. faults' \in Nat
    BY <1>3 DEF RenewFails, Fault, TypeOK
  <2>4. QED
    BY <1>0, <1>3, <2>1, <2>2, <2>3, ZenonT(60) DEF RenewFails, TypeOK
<1>4. CASE Renewed(p)
  <2>1. [task[p] EXCEPT !.pc = "reload", !.ok = TRUE] \in Task
    BY <1>0 DEF Task, Working
  <2>2. task' \in [Procs -> Task]
    BY <1>4, <2>1, IdleType, BecomeType DEF Renewed
  <2>3. QED
    BY <1>4, <2>2 DEF Renewed, TypeOK
<1>5. CASE ReloadCore(p)
  <2>1. core' \in Service /\ excuse' \subseteq Excuses
    BY <1>0, <1>5, ServiceType DEF ReloadCore, Excuse, When, TypeOK, Excuses
  <2>2. task' \in [Procs -> Task]
    BY <1>5, GotoType DEF ReloadCore, Labels, Working
  <2>3. QED
    BY <1>5, <2>1, <2>2 DEF ReloadCore, TypeOK, Excuses
<1>6. CASE ReloadEndpoint(p)
  <2>1. ep' \in Service /\ excuse' \subseteq Excuses
    BY <1>0, <1>6, ServiceType DEF ReloadEndpoint, Excuse, When, TypeOK, Excuses
  <2>2. task' \in [Procs -> Task]
    BY <1>6, IdleType, BecomeType DEF ReloadEndpoint
  <2>3. QED
    BY <1>6, <2>1, <2>2 DEF ReloadEndpoint, TypeOK, Excuses
<1>7. QED
  BY <1>1, <1>2, <1>3, <1>4, <1>5, <1>6 DEF Renew

\* Steps of the other screens.
LEMMA AnswersType ==
    ASSUME TypeOK, NEW p \in Procs, Answers(p) \/ ClearActive(p)
    PROVE  TypeOK'
<1>0. /\ task[p] \in Task /\ task \in [Procs -> Task] /\ conf \in Conf
      /\ decided \in Conf /\ task[p].domain \in Domains \cup {NoDomain}
      /\ task[p].cfg \in Conf /\ task[p].fresh \in BOOLEAN
      /\ task[p].cancelled \in BOOLEAN
  BY DEF TypeOK, Task
<1> USE DEF pairs, account, services, bounds, history
<1>1. ASSUME NEW copy \in Conf, NEW own \in Conf, NEW fresh \in BOOLEAN,
             NEW t \in Task, SaveConf(p, copy, own, fresh, t),
             UNCHANGED <<pairs, account, services, bounds, meant>>
      PROVE  TypeOK'
  <2>1. /\ conf' \in Conf /\ decided' \in Conf
        /\ task' \in [Procs -> Task] /\ excuse' \subseteq Excuses
    BY <1>1, SaveConfType
  <2>2. QED
    BY <1>1, <2>1 DEF TypeOK, Excuses
<1>2. CASE SwitchCert(p)
  <2>1. Deploying(p, "switch") \in Task
    BY <1>0, IdleType DEF Deploying, Task, Working, Kinds
  <2>2. (IF conf.deployed THEN Deploying(p, "switch") ELSE Idle) \in Task
    BY <2>1, IdleType
  <2>3. Activated(conf, task[p].domain) \in Conf
        /\ Activated(decided, task[p].domain) \in Conf
    BY <1>0, HostConstants, ChangesType
  <2>4. QED
    BY <1>1, <1>2, <2>2, <2>3 DEF SwitchCert
<1>3. CASE ClearActive(p)
  <2>1. Cleared(conf, task[p].domain) \in Conf
        /\ Cleared(decided, task[p].domain) \in Conf
    BY <1>0, HostConstants, ChangesType
  <2>2. QED
    BY <1>1, <1>3, <2>1, IdleType DEF ClearActive
<1>4. CASE SavePort(p)
  <2>1. PICK v \in SubPorts :
            /\ SaveConf(p, [task[p].cfg EXCEPT !.port = v],
                        [decided EXCEPT !.port = v], task[p].fresh, Idle)
            /\ UNCHANGED <<pairs, account, services, bounds, meant>>
    BY <1>4 DEF SavePort
  <2>2. [task[p].cfg EXCEPT !.port = v] \in Conf
        /\ [decided EXCEPT !.port = v] \in Conf
    BY <1>0 DEF Conf
  <2>3. QED
    BY <1>0, <1>1, <2>1, <2>2, IdleType
<1>5. CASE CloseForm(p)
  BY <1>5, IdleType, BecomeType DEF CloseForm, TypeOK
<1>6. CASE RemovePair(p)
  <2>1. /\ key' = [key EXCEPT ![task[p].domain] = 0]
        /\ chain' = [chain EXCEPT ![task[p].domain] = NoChain]
        /\ due' = due \ {task[p].domain}
        /\ UNCHANGED <<conf, account, services, bounds, decided, meant>>
    BY <1>6 DEF RemovePair
  <2>2. key' \in [Domains -> Nat] /\ chain' \in [Domains -> Chain]
    BY <2>1 DEF TypeOK, Chain, NoChain
  <2>3. excuse' \subseteq Excuses
    BY <1>6 DEF RemovePair, Excuse, When, TypeOK, Excuses
  <2>4. task' \in [Procs -> Task]
    BY <1>6, IdleType, BecomeType, GotoType DEF RemovePair, Labels, Working
  <2>5. QED
    BY <2>1, <2>2, <2>3, <2>4 DEF TypeOK, Excuses
<1>7. QED
  BY <1>2, <1>3, <1>4, <1>5, <1>6 DEF Answers

\* Steps an operator takes.
LEMMA OperatorType ==
    ASSUME TypeOK, NEW p \in Procs, Operator(p)
    PROVE  TypeOK'
<1>0. /\ task[p] \in Task /\ task \in [Procs -> Task] /\ conf \in Conf
      /\ doc \in Domains \cup {NoDomain} /\ core \in Service
      /\ task[p].cancelled \in BOOLEAN
  BY DEF TypeOK, Task
<1> USE DEF pairs, account, services, bounds, history
<1>1. ASSUME NEW t \in Task, Become(p, t), Launched,
             UNCHANGED <<conf, pairs, account, services, minted, faults, ages,
                         history>>
      PROVE  TypeOK'
  BY <1>1, BecomeType DEF Launched, TypeOK
<1>2. CASE StartIssue(p)
  <2>1. PICK d \in Domains :
            Become(p, [Idle EXCEPT !.pc = "account", !.kind = "issue", !.domain = d])
    BY <1>2 DEF StartIssue
  <2>2. [Idle EXCEPT !.pc = "account", !.kind = "issue", !.domain = d] \in Task
    BY IdleType DEF Task, Working, Kinds
  <2>3. QED
    BY <1>1, <1>2, <2>1, <2>2 DEF StartIssue, Ready
<1>3. CASE StartDeploy(p)
  <2>1. Deploying(p, "deploy") \in Task
    BY <1>0, IdleType DEF Deploying, Task, Working, Kinds
  <2>2. QED
    BY <1>1, <1>3, <2>1 DEF StartDeploy, Ready
<1>4. CASE OpenSwitch(p)
  <2>1. PICK d \in Domains :
            Become(p, [Idle EXCEPT !.pc = "switch", !.kind = "switch", !.domain = d])
    BY <1>4 DEF OpenSwitch
  <2>2. [Idle EXCEPT !.pc = "switch", !.kind = "switch", !.domain = d] \in Task
    BY IdleType DEF Task, Forms, Kinds
  <2>3. QED
    BY <1>1, <1>4, <2>1, <2>2 DEF OpenSwitch, Ready
<1>5. CASE OpenRemove(p)
  <2>1. PICK d \in Domains :
            Become(p, [Idle EXCEPT !.pc = "remove", !.kind = "remove", !.domain = d,
                                   !.clear = (conf.cert = d)])
    BY <1>5 DEF OpenRemove
  <2>2. (conf.cert = d) \in BOOLEAN
    OBVIOUS
  <2>3. \A b \in BOOLEAN : [Idle EXCEPT !.pc = "remove", !.kind = "remove",
                                        !.domain = d, !.clear = b] \in Task
    BY IdleType DEF Task, Forms, Kinds
  <2>4. [Idle EXCEPT !.pc = "remove", !.kind = "remove", !.domain = d,
                     !.clear = (conf.cert = d)] \in Task
    BY ONLY <2>2, <2>3, Zenon
  <2>5. QED
    BY <1>1, <1>5, <2>1, <2>4 DEF OpenRemove, Ready
<1>6. CASE OpenPort(p)
  <2>1. [Idle EXCEPT !.pc = "port", !.kind = "port", !.cfg = conf,
                     !.fresh = TRUE] \in Task
    BY <1>0, IdleType DEF Task, Forms, Kinds
  <2>2. QED
    BY <1>1, <1>6, <2>1 DEF OpenPort, Ready
<1>7. CASE ToggleTimer(p)
  BY <1>7 DEF ToggleTimer, Ready, Launched, TypeOK
<1>8. CASE OperatorStop(p)
  <2>1. core' \in Service
    BY <1>0, <1>8 DEF OperatorStop, Service
  <2>2. tasks' \in Nat
    BY <1>8 DEF OperatorStop, Ready, Launched, TypeOK
  <2>3. UNCHANGED <<conf, pairs, account, doc, ep, timer, task, minted, faults,
                    ages, decided, excuse>>
    BY <1>8 DEF OperatorStop
  <2>4. meant' = FALSE
    BY <1>8 DEF OperatorStop
  <2>5. {timer, meant}' \subseteq BOOLEAN
    BY <2>3, <2>4 DEF TypeOK
  <2>6. QED
    BY <2>1, <2>2, <2>3, <2>5 DEF TypeOK
<1>9. CASE OperatorStart(p)
  <2>1. core' \in Service /\ excuse' \subseteq Excuses
    BY <1>0, <1>9, ServiceType DEF OperatorStart
  <2>2. QED
    BY <1>9, <2>1 DEF OperatorStart, Ready, Launched, TypeOK, Excuses
<1>10. CASE StartRenew(p)
  <2>1. Renewing \in Task
    BY IdleType DEF Renewing, Task, Working, Kinds
  <2>2. QED
    BY <1>1, <1>10, <2>1 DEF StartRenew, Ready
<1>11. QED
  BY <1>2, <1>3, <1>4, <1>5, <1>6, <1>7, <1>8, <1>9, <1>10 DEF Operator

\* Every step keeps the types.
LEMMA StepType == TypeOK /\ [Next]_vars => TypeOK'
<1> SUFFICES ASSUME TypeOK, [Next]_vars PROVE TypeOK'
  OBVIOUS
<1> USE DEF pairs, account, services, bounds, history
<1>1. CASE UNCHANGED vars
  BY <1>1 DEF vars, TypeOK
<1>2. CASE StartProvision
  <2> DEFINE t == [Idle EXCEPT !.pc = IF ManifestDomain = NoDomain THEN "save"
                                      ELSE "account",
                               !.kind = "provision", !.domain = ManifestDomain,
                               !.cfg = [conf EXCEPT !.port = ManifestPort],
                               !.fresh = TRUE]
  <2>1. Become(Script, t) /\ Script \in Procs
    BY <1>2 DEF StartProvision, Procs
  <2>2. [conf EXCEPT !.port = ManifestPort] \in Conf
    BY HostConstants DEF TypeOK, Conf
  <2>3. ManifestDomain \in Domains \cup {NoDomain}
    BY HostConstants DEF Domains, NoDomain
  <2>4. t \in Task
    BY <2>2, <2>3, IdleType DEF Task, Working, Kinds
  <2> HIDE DEF t
  <2>5. task' \in [Procs -> Task]
    BY <2>1, <2>4, BecomeType
  <2>6. QED
    BY <1>2, <2>5 DEF StartProvision, Launched, TypeOK
<1>3. CASE Nightly
  <2>1. Renewing \in Task
    BY IdleType DEF Renewing, Task, Working, Kinds
  <2>2. task' \in [Procs -> Task]
    BY <1>3, <2>1, BecomeType DEF Nightly, Procs
  <2>3. QED
    BY <1>3, <2>2 DEF Nightly, TypeOK
<1>4. ASSUME NEW p \in Procs, Cancel(p)
      PROVE  TypeOK'
  <2>1. [task[p] EXCEPT !.cancelled = TRUE] \in Task
    BY ZenonT(60) DEF TypeOK, Task
  <2>2. task' = [task EXCEPT ![p] = [task[p] EXCEPT !.cancelled = TRUE]]
        /\ faults' \in Nat
    BY <1>4 DEF Cancel, Fault, TypeOK
  <2>3. QED
    BY <1>4, <2>1, <2>2 DEF Cancel, TypeOK
<1>5. ASSUME NEW p \in Procs, Kill(p)
      PROVE  TypeOK'
  <2>1. task' \in [Procs -> Task]
    BY <1>5, IdleType, BecomeType DEF Kill
  <2>2. excuse' \subseteq Excuses /\ faults' \in Nat
    BY <1>5 DEF Kill, Excuse, When, Fault, TypeOK, Excuses
  <2>3. QED
    BY <1>5, <2>1, <2>2 DEF Kill, TypeOK, Excuses
<1>6. ASSUME NEW d \in Domains, Ages(d)
      PROVE  TypeOK'
  BY <1>6 DEF Ages, TypeOK
<1>8. CASE EndpointRetries
  <2>1. ep' \in Service
    <3>1. PICK p \in Procs : TRUE
      BY DEF Procs
    <3>2. NoDomain \in Domains \cup {NoDomain}
      OBVIOUS
    <3>3. QED
      BY <1>8, <3>1, <3>2, ServiceType DEF EndpointRetries
  <2>2. QED
    BY <1>8, <2>1 DEF EndpointRetries, TypeOK, pairs, account, bounds, history
<1>7. QED
  BY <1>1, <1>2, <1>3, <1>4, <1>5, <1>6, <1>8, AccountType, IssueType, DeployType,
     RenewType, AnswersType, OperatorType DEF Next, Steps

\* Every reachable state is well typed (TypeOK).
THEOREM TypeCorrect == Spec => []TypeOK
BY InitType, StepType, PTL DEF Spec

-----------------------------------------------------------------------------
(***************************************************************************)
(* What the tasks have in common, whatever the others do.                  *)
(***************************************************************************)
Registering == {"account", "mint", "lookup", "record", "begin"}
Installing == {"key", "chain"}

Shaped(t) ==
    /\ t.pc \in Registering \cup {"check", "start"} =>
          t.kind \in {"issue", "provision"} /\ t.domain \in Domains
    /\ t.pc \in Registering \cup {"check"} => t.ok
    /\ t.pc \in Installing => t.domain \in Domains /\ t.key # 0
    /\ t.pc \in Installing /\ t.kind # "renew" =>
          t.kind \in {"issue", "provision"} /\ t.ok
    /\ t.pc = "renew" => t.kind = "renew"
    /\ t.pc = "port" => t.kind = "port"
    /\ t.kind = "renew" => ~t.stopped
    /\ t.renewed => t.kind = "renew"

Shapes == \A p \in Procs : Shaped(task[p])

\* A step of one task leaves another as it is, but for the currency of its copy.
Aside(t, u) == u = t \/ u = [t EXCEPT !.fresh = FALSE]

Alone(p) == \A q \in Procs \ {p} : Aside(task[q], task'[q])

\* What a process does with its task, it does with its own.
LEMMA Own ==
    ASSUME TypeOK, NEW p \in Procs
    PROVE  /\ \A t : Become(p, t) =>
                 task'[p] = t /\ \A q \in Procs \ {p} : task'[q] = task[q]
           /\ \A label : Goto(p, label) =>
                 /\ task'[p] = [task[p] EXCEPT !.pc = label]
                 /\ \A q \in Procs \ {p} : task'[q] = task[q]
           /\ \A t : task' = [task EXCEPT ![p] = t] =>
                 task'[p] = t /\ \A q \in Procs \ {p} : task'[q] = task[q]
           /\ \A copy, own, fresh, t : SaveConf(p, copy, own, fresh, t) =>
                 /\ task'[p] = t
                 /\ \A q \in Procs \ {p} : task'[q] = [task[q] EXCEPT !.fresh = FALSE]
BY DEF TypeOK, Become, Goto, SaveConf

\* Every step of a process is its own.
LEMMA StepsAlone ==
    ASSUME TypeOK, NEW p \in Procs,
           Steps(p) \/ Answers(p) \/ Operator(p) \/ Cancel(p) \/ Kill(p)
    PROVE  Alone(p)
<1> DEFINE own == \A q \in Procs \ {p} : task'[q] = task[q]
<1>1. own => Alone(p)
  BY DEF Alone, Aside
<1>2. task \in [Procs -> Task]
  BY DEF TypeOK
<1>3. Account(p) => own
  BY <1>2, Own DEF Account, FindKey, FindNoKey, MintKey, KnownAccount, Register,
     WriteRegistration, NotRegistered
<1>4. Begin(p) \/ NotDue(p) \/ Obtain(p) \/ IssueFails(p) \/ WriteKey(p)
      \/ WriteChain(p) \/ StartCore(p) => own
  BY <1>2, Own, ZenonT(60) DEF Begin, NotDue, Obtain, IssueFails, WriteKey, WriteChain, StartCore
<1>5. ASSUME NEW copy, NEW o, NEW fresh, NEW t, SaveConf(p, copy, o, fresh, t)
      PROVE  Alone(p)
  BY <1>5, Own DEF Alone, Aside
<1>6. SaveIssued(p) \/ SaveProvision(p) \/ SaveDeployed(p) \/ SwitchCert(p)
      \/ ClearActive(p) \/ SavePort(p) => Alone(p)
  BY <1>5 DEF SaveIssued, SaveProvision, SaveDeployed, SwitchCert, ClearActive,
     SavePort
<1>7. ApplyLoad(p) \/ Refused(p) \/ SameAsLive(p) \/ Install(p) \/ StartEndpoint(p)
      => own
  BY <1>2, Own DEF ApplyLoad, Refused, SameAsLive, Install, StartEndpoint
<1>8. Renew(p) => own
  <2>1. RenewSkips(p) \/ RenewFails(p) => own
    BY <1>2 DEF RenewSkips, RenewFails
  <2>2. RenewOne(p) => own
    BY <1>2 DEF RenewOne
  <2>3. Renewed(p) \/ ReloadCore(p) \/ ReloadEndpoint(p) => own
    BY <1>2, Own DEF Renewed, ReloadCore, ReloadEndpoint
  <2>4. QED
    BY <2>1, <2>2, <2>3 DEF Renew
<1>9. RemovePair(p) \/ CloseForm(p) => own
  BY <1>2, Own DEF RemovePair, CloseForm
<1>10. Operator(p) => own
  BY <1>2, Own, ZenonT(60) DEF Operator, StartIssue, StartDeploy, OpenSwitch, OpenRemove,
     OpenPort, ToggleTimer, OperatorStop, OperatorStart, StartRenew
<1>11. Cancel(p) \/ Kill(p) => own
  BY <1>2, Own DEF Cancel, Kill
<1>12. QED
  BY <1>1, <1>3, <1>4, <1>6, <1>7, <1>8, <1>9, <1>10, <1>11
     DEF Steps, Answers, Issue, Deploy
\* The shape of a task is its own.
LEMMA ShapesBy ==
    ASSUME TypeOK, Shapes, NEW p \in Procs, Alone(p), Shaped(task'[p])
    PROVE  Shapes'
<1>1. ASSUME NEW q \in Procs \ {p}
      PROVE  Shaped(task'[q])
  <2>1. Shaped(task[q]) /\ Aside(task[q], task'[q]) /\ task[q] \in Task
    BY DEF Shapes, Alone, TypeOK
  <2>2. QED
    BY <2>1 DEF Aside, Shaped, Task
<1>2. QED
  BY <1>1 DEF Shapes


\* Two states of a task that differ in its place and its key only.
Stays(t, u) ==
    /\ u.kind = t.kind /\ u.domain = t.domain /\ u.cfg = t.cfg
    /\ u.fresh = t.fresh /\ u.stopped = t.stopped /\ u.renewed = t.renewed
    /\ u.ok = t.ok /\ u.cancelled = t.cancelled

Reset(u) == /\ u.pc = "idle" /\ u.kind = "none"
            /\ ~u.fresh /\ ~u.stopped /\ ~u.renewed

\* A task that begins at a place, and nothing of an earlier one with it.
Starts(u, label, kind) == /\ u.pc = label /\ u.kind = kind /\ u.ok
                          /\ ~u.fresh /\ ~u.stopped /\ ~u.renewed

\* What a process that does nothing holds.
LEMMA IdleIs == Reset(Idle)
BY DEF Idle, Reset

\* Moving to another place changes nothing else.
LEMMA GotoStays ==
    ASSUME TypeOK, NEW p \in Procs, NEW label, Goto(p, label)
    PROVE  /\ task'[p].pc = label /\ task'[p].key = task[p].key
           /\ Stays(task[p], task'[p])
<1>1. task'[p] = [task[p] EXCEPT !.pc = label] /\ task[p] \in Task
  BY Own DEF TypeOK
<1>2. QED
  BY <1>1 DEF Stays, Task

\* What each step makes of its task: towards an account.
LEMMA AccountTurns ==
    ASSUME TypeOK, NEW p \in Procs
    PROVE  /\ FindKey(p) => /\ Stays(task[p], task'[p])
                            /\ task'[p].key = acct.key
                            /\ task'[p].pc = IF acct.reg # 0 THEN "begin"
                                             ELSE "lookup"
           /\ FindNoKey(p) => /\ Stays(task[p], task'[p])
                              /\ task'[p].pc = "mint"
           /\ MintKey(p) => /\ Stays(task[p], task'[p])
                            /\ task'[p].key = minted' /\ task'[p].pc = "lookup"
           /\ KnownAccount(p) => /\ Stays(task[p], task'[p])
                                 /\ task'[p].pc = "begin"
           /\ Register(p) => /\ Stays(task[p], task'[p])
                             /\ task'[p].key = task[p].key
                             /\ task'[p].pc = "record"
           /\ WriteRegistration(p) => /\ Stays(task[p], task'[p])
                                      /\ task'[p].pc = "begin"
           /\ NotRegistered(p) => Reset(task'[p])
<1>0. task \in [Procs -> Task] /\ task[p] \in Task
  BY DEF TypeOK
<1>1. ASSUME FindKey(p)
      PROVE  /\ Stays(task[p], task'[p]) /\ task'[p].key = acct.key
             /\ task'[p].pc = IF acct.reg # 0 THEN "begin" ELSE "lookup"
  BY <1>0, <1>1 DEF FindKey, Stays, Task
<1>2. ASSUME MintKey(p)
      PROVE  /\ Stays(task[p], task'[p])
             /\ task'[p].key = minted' /\ task'[p].pc = "lookup"
  BY <1>0, <1>2 DEF MintKey, Stays, Task
<1>3. ASSUME KnownAccount(p)
      PROVE  Stays(task[p], task'[p]) /\ task'[p].pc = "begin"
  BY <1>0, <1>3 DEF KnownAccount, Stays, Task
<1>4. QED
  BY <1>1, <1>2, <1>3, GotoStays, IdleIs, Own
     DEF FindNoKey, Register, WriteRegistration, NotRegistered

\* What each step makes of its task: an issue.
LEMMA IssueTurns ==
    ASSUME TypeOK, NEW p \in Procs
    PROVE  /\ Begin(p) =>
                 LET t == task[p] u == task'[p] IN
                 /\ u.pc = "check" /\ u.kind = t.kind /\ u.domain = t.domain
                 /\ u.renewed = t.renewed /\ u.ok = t.ok
                 /\ u.cancelled = t.cancelled
                 /\ u.stopped <=> core.up /\ ~t.cancelled
                 /\ IF t.kind = "issue" THEN u.cfg = conf
                    ELSE u.cfg = t.cfg /\ u.fresh = t.fresh
           /\ NotDue(p) => /\ Stays(task[p], task'[p])
                           /\ task'[p].pc = "start"
           /\ Obtain(p) => /\ Stays(task[p], task'[p])
                           /\ task'[p].key = minted' /\ task'[p].pc = "key"
           /\ IssueFails(p) =>
                 LET t == task[p] u == task'[p] IN
                 /\ u.pc = "start" /\ ~u.ok /\ u.kind = t.kind /\ u.domain = t.domain
                 /\ u.cfg = t.cfg /\ u.fresh = t.fresh /\ u.stopped = t.stopped
                 /\ u.renewed = t.renewed /\ u.cancelled = t.cancelled
           /\ WriteKey(p) => /\ Stays(task[p], task'[p])
                             /\ task'[p].key = task[p].key
                             /\ task'[p].pc = "chain"
           /\ WriteChain(p) =>
                 LET t == task[p] u == task'[p] IN
                 IF t.kind = "renew"
                 THEN /\ u.pc = "renew" /\ u.renewed /\ u.kind = t.kind
                      /\ u.stopped = t.stopped
                      /\ u.cfg = t.cfg /\ u.fresh = t.fresh
                 ELSE Stays(t, u) /\ u.pc = "start"
           /\ StartCore(p) =>
                 LET t == task[p] u == task'[p] IN
                 IF t.ok /\ HasPair(t.domain)
                 THEN /\ u.pc = "save" /\ ~u.stopped /\ u.kind = t.kind
                      /\ u.cfg = t.cfg /\ u.fresh = t.fresh
                      /\ u.domain = t.domain /\ u.renewed = t.renewed
                 ELSE Reset(u)
           /\ SaveIssued(p) => IF task[p].cfg.deployed
                               THEN Starts(task'[p], "apply", "issue")
                               ELSE Reset(task'[p])
           /\ SaveProvision(p) =>
                 LET t == task[p] u == task'[p] IN
                 /\ u.pc = "install" /\ u.kind = "provision" /\ u.fresh = t.fresh
                 /\ u.cfg = Activated([t.cfg EXCEPT !.port = t.cfg.port], t.domain)
                 /\ ~u.stopped /\ ~u.renewed
<1>0. task \in [Procs -> Task] /\ task[p] \in Task /\ conf \in Conf /\ Idle \in Task
  BY IdleType DEF TypeOK
<1>1. ASSUME Begin(p)
      PROVE  LET t == task[p] u == task'[p] IN
             /\ u.pc = "check" /\ u.kind = t.kind /\ u.domain = t.domain
             /\ u.renewed = t.renewed /\ u.ok = t.ok /\ u.cancelled = t.cancelled
             /\ u.stopped <=> core.up /\ ~t.cancelled
             /\ IF t.kind = "issue" THEN u.cfg = conf
                ELSE u.cfg = t.cfg /\ u.fresh = t.fresh
  <2> DEFINE stop == core.up /\ ~task[p].cancelled
             t == [task[p] EXCEPT !.pc = "check", !.stopped = stop, !.key = 0]
             u == IF t.kind = "issue" THEN [t EXCEPT !.cfg = conf, !.fresh = TRUE]
                  ELSE t
  <2>1. task'[p] = u
    BY <1>1, Own DEF Begin
  <2>2. stop \in BOOLEAN
    OBVIOUS
  <2>3. stop <=> core.up /\ ~task[p].cancelled
    OBVIOUS
  <2> HIDE DEF stop
  <2>4. /\ t \in Task /\ t.pc = "check" /\ t.kind = task[p].kind
        /\ t.domain = task[p].domain /\ t.renewed = task[p].renewed
        /\ t.ok = task[p].ok /\ t.cancelled = task[p].cancelled
        /\ t.stopped = stop /\ t.cfg = task[p].cfg /\ t.fresh = task[p].fresh
    BY <1>0, <2>2 DEF Task, Working, Issuing
  <2> HIDE DEF t
  <2>5. /\ u.pc = t.pc /\ u.kind = t.kind /\ u.domain = t.domain
        /\ u.renewed = t.renewed /\ u.ok = t.ok /\ u.cancelled = t.cancelled
        /\ u.stopped = t.stopped
        /\ IF t.kind = "issue" THEN u.cfg = conf
           ELSE u.cfg = t.cfg /\ u.fresh = t.fresh
    BY <1>0, <2>4 DEF Task
  <2> HIDE DEF u
  <2>6. QED
    BY <2>1, <2>3, <2>4, <2>5
<1>2. ASSUME Obtain(p)
      PROVE  /\ Stays(task[p], task'[p])
             /\ task'[p].key = minted' /\ task'[p].pc = "key"
  BY <1>0, <1>2 DEF Obtain, Stays, Task
<1>3. ASSUME IssueFails(p)
      PROVE  LET t == task[p] u == task'[p] IN
             /\ u.pc = "start" /\ ~u.ok /\ u.kind = t.kind /\ u.domain = t.domain
             /\ u.cfg = t.cfg /\ u.fresh = t.fresh /\ u.stopped = t.stopped
             /\ u.renewed = t.renewed /\ u.cancelled = t.cancelled
  BY <1>0, <1>3 DEF IssueFails, Task
<1>4. ASSUME WriteChain(p)
      PROVE  LET t == task[p] u == task'[p] IN
             IF t.kind = "renew"
             THEN /\ u.pc = "renew" /\ u.renewed /\ u.kind = t.kind
                  /\ u.stopped = t.stopped
                  /\ u.cfg = t.cfg /\ u.fresh = t.fresh
             ELSE Stays(t, u) /\ u.pc = "start"
  <2>1. task'[p] = IF task[p].kind = "renew"
                   THEN [task[p] EXCEPT !.pc = "renew", !.renewed = TRUE, !.key = 0,
                                        !.domain = NoDomain]
                   ELSE [task[p] EXCEPT !.pc = "start", !.key = 0]
    BY <1>4, Own DEF WriteChain
  <2>2. QED
    BY <1>0, <2>1 DEF Stays, Task
<1>5. ASSUME StartCore(p)
      PROVE  LET t == task[p] u == task'[p] IN
             IF t.ok /\ HasPair(t.domain)
             THEN /\ u.pc = "save" /\ ~u.stopped /\ u.kind = t.kind
                  /\ u.cfg = t.cfg /\ u.fresh = t.fresh /\ u.domain = t.domain
                  /\ u.renewed = t.renewed
             ELSE Reset(u)
  <2>1. task'[p] = IF task[p].ok /\ HasPair(task[p].domain)
                   THEN [task[p] EXCEPT !.pc = "save", !.stopped = FALSE] ELSE Idle
    BY <1>5, Own DEF StartCore
  <2>2. QED
    BY <1>0, <2>1, IdleIs DEF Task
<1>6. ASSUME SaveIssued(p)
      PROVE  IF task[p].cfg.deployed THEN Starts(task'[p], "apply", "issue")
             ELSE Reset(task'[p])
  <2>1. task'[p] = IF task[p].cfg.deployed THEN Deploying(p, "issue") ELSE Idle
    BY <1>6, Own DEF SaveIssued
  <2>2. Starts(Deploying(p, "issue"), "apply", "issue")
    BY DEF Deploying, Idle, Starts
  <2>3. QED
    BY <2>1, <2>2, IdleIs
<1>7. ASSUME SaveProvision(p)
      PROVE  LET t == task[p] u == task'[p] IN
             /\ u.pc = "install" /\ u.kind = "provision" /\ u.fresh = t.fresh
             /\ u.cfg = Activated([t.cfg EXCEPT !.port = t.cfg.port], t.domain)
             /\ ~u.stopped /\ ~u.renewed
  <2> DEFINE c == Activated([task[p].cfg EXCEPT !.port = task[p].cfg.port],
                            task[p].domain)
  <2>1. task'[p] = [Idle EXCEPT !.pc = "install", !.kind = "provision",
                                !.cfg = c, !.fresh = task[p].fresh]
    BY <1>7, Own DEF SaveProvision
  <2> HIDE DEF c
  <2>2. /\ task'[p].pc = "install" /\ task'[p].kind = "provision"
        /\ task'[p].fresh = task[p].fresh /\ task'[p].cfg = c /\ ~task'[p].stopped
        /\ ~task'[p].renewed
    BY <2>1 DEF Idle
  <2>3. QED
    BY <2>2 DEF c
<1>8. QED
  BY <1>1, <1>2, <1>3, <1>4, <1>5, <1>6, <1>7, GotoStays DEF NotDue, WriteKey

\* What each step makes of its task: a deployment.
LEMMA DeployTurns ==
    ASSUME TypeOK, NEW p \in Procs
    PROVE  /\ ApplyLoad(p) =>
                 LET t == task[p] u == task'[p] IN
                 /\ u.pc = "install" /\ u.kind = t.kind /\ u.cfg = conf
                 /\ u.stopped = t.stopped /\ u.renewed = t.renewed
           /\ Refused(p) => Reset(task'[p])
           /\ SameAsLive(p) => /\ Stays(task[p], task'[p])
                               /\ task'[p].pc = "deployed"
           /\ Install(p) => IF task[p].cancelled THEN Reset(task'[p])
                            ELSE /\ Stays(task[p], task'[p])
                                 /\ task'[p].pc = "deployed"
           /\ SaveDeployed(p) =>
                 IF task[p].kind # "deploy" \/ ~task[p].cfg.deployed
                 THEN Starts(task'[p], "endpoint", "none") ELSE Reset(task'[p])
           /\ StartEndpoint(p) => Reset(task'[p])
<1>0. task \in [Procs -> Task] /\ task[p] \in Task /\ conf \in Conf
  BY DEF TypeOK
<1>1. ASSUME ApplyLoad(p)
      PROVE  LET t == task[p] u == task'[p] IN
             /\ u.pc = "install" /\ u.kind = t.kind /\ u.cfg = conf
             /\ u.stopped = t.stopped /\ u.renewed = t.renewed
  BY <1>0, <1>1 DEF ApplyLoad, Task
<1>2. ASSUME SaveDeployed(p)
      PROVE  IF task[p].kind # "deploy" \/ ~task[p].cfg.deployed
             THEN Starts(task'[p], "endpoint", "none") ELSE Reset(task'[p])
  <2>1. task'[p] = IF task[p].kind # "deploy" \/ ~task[p].cfg.deployed
                   THEN [Idle EXCEPT !.pc = "endpoint",
                                     !.cancelled = task[p].cancelled] ELSE Idle
    BY <1>2, Own DEF SaveDeployed
  <2>2. Starts([Idle EXCEPT !.pc = "endpoint", !.cancelled = task[p].cancelled],
               "endpoint", "none")
    BY DEF Idle, Starts
  <2>3. QED
    BY <2>1, <2>2, IdleIs
<1>3. QED
  BY <1>1, <1>2, GotoStays, IdleIs, Own DEF Refused, SameAsLive, Install, StartEndpoint

\* What each step makes of its task: a renewal.
LEMMA RenewTurns ==
    ASSUME TypeOK, NEW p \in Procs
    PROVE  /\ RenewSkips(p) => /\ Stays(task[p], task'[p])
                               /\ task'[p].pc = "renew"
           /\ RenewOne(p) =>
                 LET t == task[p] u == task'[p] IN
                 /\ u.domain \in Domains /\ HasPair(u.domain) /\ u.domain \in due
                 /\ u.key = key[u.domain] /\ u.pc = "key" /\ u.kind = t.kind
                 /\ u.stopped = t.stopped /\ u.renewed = t.renewed
                 /\ u.cfg = t.cfg /\ u.fresh = t.fresh
           /\ RenewFails(p) =>
                 LET t == task[p] u == task'[p] IN
                 /\ u.pc = "renew" /\ u.kind = t.kind
                 /\ u.stopped = t.stopped /\ u.renewed = t.renewed
                 /\ u.cfg = t.cfg /\ u.fresh = t.fresh
           /\ Renewed(p) =>
                 LET t == task[p] u == task'[p] IN
                 IF t.renewed
                 THEN /\ u.pc = "reload" /\ u.renewed /\ u.kind = t.kind
                      /\ u.stopped = t.stopped
                      /\ u.cfg = t.cfg /\ u.fresh = t.fresh
                 ELSE Reset(u)
           /\ ReloadCore(p) => /\ Stays(task[p], task'[p])
                               /\ task'[p].pc = "reloadEndpoint"
           /\ ReloadEndpoint(p) => Reset(task'[p])
<1>0. task \in [Procs -> Task] /\ task[p] \in Task
  BY DEF TypeOK
<1>1. ASSUME RenewSkips(p)
      PROVE  Stays(task[p], task'[p]) /\ task'[p].pc = "renew"
  BY <1>0, <1>1 DEF RenewSkips, At, Stays, Task
<1>2. ASSUME RenewOne(p)
      PROVE  LET t == task[p] u == task'[p] IN
             /\ u.domain \in Domains /\ HasPair(u.domain) /\ u.domain \in due
             /\ u.key = key[u.domain] /\ u.pc = "key" /\ u.kind = t.kind
             /\ u.stopped = t.stopped /\ u.renewed = t.renewed
             /\ u.cfg = t.cfg /\ u.fresh = t.fresh
  <2>1. PICK d \in task[p].todo :
          /\ HasPair(d) /\ d \in due
          /\ task' = [task EXCEPT ![p].todo = @ \ {d}, ![p].domain = d,
                                  ![p].key = key[d], ![p].pc = "key"]
    BY <1>2 DEF RenewOne
  <2>2. d \in Domains
    BY <1>0 DEF Task
  <2>3. QED
    BY <1>0, <2>1, <2>2 DEF Task
<1>3. ASSUME RenewFails(p)
      PROVE  LET t == task[p] u == task'[p] IN
             /\ u.pc = "renew" /\ u.kind = t.kind
             /\ u.stopped = t.stopped /\ u.renewed = t.renewed
             /\ u.cfg = t.cfg /\ u.fresh = t.fresh
  BY <1>0, <1>3 DEF RenewFails, At, Task
<1>4. ASSUME Renewed(p)
      PROVE  LET t == task[p] u == task'[p] IN
             IF t.renewed
             THEN /\ u.pc = "reload" /\ u.renewed /\ u.kind = t.kind
                  /\ u.stopped = t.stopped /\ u.cfg = t.cfg /\ u.fresh = t.fresh
             ELSE Reset(u)
  <2>1. task'[p] = IF task[p].renewed
                   THEN [task[p] EXCEPT !.pc = "reload", !.ok = TRUE] ELSE Idle
    BY <1>4, Own DEF Renewed
  <2>2. QED
    BY <1>0, <2>1, IdleIs DEF Task
<1>5. QED
  BY <1>1, <1>2, <1>3, <1>4, GotoStays, IdleIs, Own DEF ReloadCore, ReloadEndpoint

\* What each step makes of its task: an answer to a form.
LEMMA AnswersTurns ==
    ASSUME TypeOK, NEW p \in Procs
    PROVE  /\ SwitchCert(p) => IF conf.deployed
                               THEN Starts(task'[p], "apply", "switch")
                               ELSE Reset(task'[p])
           /\ RemovePair(p) => IF task[p].clear
                               THEN /\ Stays(task[p], task'[p])
                                    /\ task'[p].pc = "clear"
                               ELSE Reset(task'[p])
           /\ SavePort(p) \/ CloseForm(p) \/ ClearActive(p) => Reset(task'[p])
<1>0. ASSUME NEW copy, NEW own, NEW fresh, NEW t, SaveConf(p, copy, own, fresh, t)
      PROVE  task'[p] = t
  BY <1>0, Own
<1>1. Starts(Deploying(p, "switch"), "apply", "switch")
  BY DEF Deploying, Idle, Starts
<1>2. ASSUME SwitchCert(p)
      PROVE  task'[p] = IF conf.deployed THEN Deploying(p, "switch") ELSE Idle
  <2> DEFINE t == IF conf.deployed THEN Deploying(p, "switch") ELSE Idle
  <2>1. \E copy, own : SaveConf(p, copy, own, TRUE, t)
    BY <1>2 DEF SwitchCert
  <2> HIDE DEF t
  <2>2. task'[p] = t
    BY <2>1, <1>0
  <2>3. QED
    BY <2>2 DEF t
<1>3. ASSUME SavePort(p) \/ CloseForm(p) \/ ClearActive(p)
      PROVE  task'[p] = Idle
  <2>1. CloseForm(p) => task'[p] = Idle
    BY Own DEF CloseForm
  <2>2. SavePort(p) \/ ClearActive(p) =>
          \E copy, own, fresh : SaveConf(p, copy, own, fresh, Idle)
    BY DEF SavePort, ClearActive
  <2>3. QED
    BY <1>0, <1>3, <2>1, <2>2
<1>4. RemovePair(p) => IF task[p].clear THEN Goto(p, "clear") ELSE task'[p] = Idle
  BY Own DEF RemovePair
<1>5. QED
  BY <1>1, <1>2, <1>3, <1>4, GotoStays, IdleIs

\* What each step makes of its task: the start of one.
LEMMA OperatorTurns ==
    ASSUME TypeOK, NEW p \in Procs
    PROVE  /\ StartIssue(p) => /\ Starts(task'[p], "account", "issue")
                               /\ task'[p].domain \in Domains
           /\ StartDeploy(p) => Starts(task'[p], "apply", "deploy")
           /\ OpenSwitch(p) => Starts(task'[p], "switch", "switch")
           /\ OpenRemove(p) => Starts(task'[p], "remove", "remove")
           /\ OpenPort(p) =>
                 LET u == task'[p] IN
                 /\ u.pc = "port" /\ u.kind = "port" /\ u.cfg = conf
                 /\ ~u.stopped /\ ~u.renewed
           /\ StartRenew(p) => Starts(task'[p], "renew", "renew")
<1>1. ASSUME StartIssue(p)
      PROVE  /\ Starts(task'[p], "account", "issue")
             /\ task'[p].domain \in Domains
  <2>1. PICK d \in Domains :
          task'[p] = [Idle EXCEPT !.pc = "account", !.kind = "issue", !.domain = d]
    BY <1>1, Own DEF StartIssue
  <2>2. QED
    BY <2>1 DEF Idle, Starts
<1>2. ASSUME StartDeploy(p)
      PROVE  Starts(task'[p], "apply", "deploy")
  <2>1. task'[p] = Deploying(p, "deploy")
    BY <1>2, Own DEF StartDeploy
  <2>2. QED
    BY <2>1 DEF Deploying, Idle, Starts
<1>3. ASSUME OpenSwitch(p)
      PROVE  Starts(task'[p], "switch", "switch")
  <2>1. PICK d \in Domains :
          task'[p] = [Idle EXCEPT !.pc = "switch", !.kind = "switch", !.domain = d]
    BY <1>3, Own DEF OpenSwitch
  <2>2. QED
    BY <2>1 DEF Idle, Starts
<1>4. ASSUME OpenRemove(p)
      PROVE  Starts(task'[p], "remove", "remove")
  <2>1. PICK d \in Domains :
          Become(p, [Idle EXCEPT !.pc = "remove", !.kind = "remove", !.domain = d,
                                 !.clear = (conf.cert = d)])
    BY <1>4 DEF OpenRemove
  <2>2. task'[p] = [Idle EXCEPT !.pc = "remove", !.kind = "remove", !.domain = d,
                                !.clear = (conf.cert = d)]
    BY <2>1, Own
  <2>3. QED
    BY <2>2 DEF Idle, Starts
<1>5. ASSUME OpenPort(p)
      PROVE  LET u == task'[p] IN
             /\ u.pc = "port" /\ u.kind = "port" /\ u.cfg = conf
             /\ ~u.stopped /\ ~u.renewed
  <2>1. task'[p] = [Idle EXCEPT !.pc = "port", !.kind = "port", !.cfg = conf,
                                !.fresh = TRUE]
    BY <1>5, Own DEF OpenPort
  <2>2. QED
    BY <2>1 DEF Idle
<1>6. ASSUME StartRenew(p)
      PROVE  Starts(task'[p], "renew", "renew")
  <2>1. task'[p] = Renewing
    BY <1>6, Own DEF StartRenew
  <2>2. QED
    BY <2>1 DEF Renewing, Idle, Starts
<1>7. QED
  BY <1>1, <1>2, <1>3, <1>4, <1>5, <1>6

\* What the other steps make of a task.
LEMMA OtherTurns ==
    ASSUME TypeOK
    PROVE  /\ \A p \in Procs : Cancel(p) =>
                 LET t == task[p] u == task'[p] IN
                 /\ u.pc = t.pc /\ u.kind = t.kind /\ u.domain = t.domain
                 /\ u.cfg = t.cfg /\ u.fresh = t.fresh /\ u.key = t.key
                 /\ u.stopped = t.stopped /\ u.renewed = t.renewed
                 /\ u.ok = t.ok /\ u.cancelled
           /\ \A p \in Procs : Kill(p) => Reset(task'[p])
           /\ StartProvision =>
                 LET u == task'[Script] IN
                 /\ u.pc = IF ManifestDomain = NoDomain THEN "save" ELSE "account"
                 /\ u.kind = "provision" /\ u.domain = ManifestDomain
                 /\ u.cfg = [conf EXCEPT !.port = ManifestPort]
                 /\ u.ok /\ ~u.stopped /\ ~u.renewed
           /\ Nightly => Starts(task'[Timer], "renew", "renew")
<1>0. task \in [Procs -> Task] /\ Script \in Procs /\ Timer \in Procs
  BY DEF TypeOK, Procs
<1>1. ASSUME NEW p \in Procs, Cancel(p)
      PROVE  LET t == task[p] u == task'[p] IN
             /\ u.pc = t.pc /\ u.kind = t.kind /\ u.domain = t.domain
             /\ u.cfg = t.cfg /\ u.fresh = t.fresh /\ u.key = t.key
             /\ u.stopped = t.stopped /\ u.renewed = t.renewed
             /\ u.ok = t.ok /\ u.cancelled
  BY <1>0, <1>1 DEF Cancel, Task
<1>2. \A p \in Procs : Kill(p) => Reset(task'[p])
  BY Own, IdleIs DEF Kill
<1>3. ASSUME StartProvision
      PROVE  LET u == task'[Script] IN
             /\ u.pc = IF ManifestDomain = NoDomain THEN "save" ELSE "account"
             /\ u.kind = "provision" /\ u.domain = ManifestDomain
             /\ u.cfg = [conf EXCEPT !.port = ManifestPort]
             /\ u.ok /\ ~u.stopped /\ ~u.renewed
  <2> DEFINE label == IF ManifestDomain = NoDomain THEN "save" ELSE "account"
             copy == [conf EXCEPT !.port = ManifestPort]
  <2>1. task'[Script] = [Idle EXCEPT !.pc = label, !.kind = "provision",
                                     !.domain = ManifestDomain,
                                     !.cfg = copy, !.fresh = TRUE]
    BY <1>0, <1>3, Own DEF StartProvision
  <2> HIDE DEF label, copy
  <2>2. LET u == task'[Script] IN
        /\ u.pc = label /\ u.kind = "provision" /\ u.domain = ManifestDomain
        /\ u.cfg = copy /\ u.ok /\ ~u.stopped /\ ~u.renewed
    BY <2>1 DEF Idle
  <2>3. QED
    BY <2>2 DEF label, copy
<1>4. ASSUME Nightly
      PROVE  Starts(task'[Timer], "renew", "renew")
  <2>1. task'[Timer] = Renewing
    BY <1>0, <1>4, Own DEF Nightly
  <2>2. QED
    BY <2>1 DEF Renewing, Idle, Starts
<1>5. QED
  BY <1>1, <1>2, <1>3, <1>4

\* Every step leaves the tasks in shape.
LEMMA ShapesStep ==
    ASSUME TypeOK, Shapes, [Next]_vars
    PROVE  Shapes'
<1>1. \A p \in Procs : task[p] \in Task /\ Shaped(task[p])
  BY DEF TypeOK, Shapes
<1>2. ASSUME NEW p \in Procs, Account(p)
      PROVE  Shaped(task'[p])
  BY <1>1, <1>2, AccountTurns
     DEF Account, FindKey, FindNoKey, MintKey, KnownAccount, Register,
         WriteRegistration, NotRegistered, At, Stays, Reset, Shaped, Registering,
         Installing
<1>3. ASSUME NEW p \in Procs, Issue(p)
      PROVE  Shaped(task'[p])
  <2>0. Obtain(p) => minted' # 0
    BY DEF Obtain, TypeOK
  <2>3. ASSUME Obtain(p)
        PROVE  Shaped(task'[p])
    <3>1. task[p].pc = "check" /\ Stays(task[p], task'[p])
      BY <2>3, IssueTurns DEF Obtain, At
    <3>2. task'[p].key # 0 /\ task'[p].pc = "key"
      BY <2>0, <2>3, IssueTurns
    <3>3. QED
      BY <1>1, <3>1, <3>2 DEF Stays, Shaped, Registering, Installing
  <2>5. ASSUME WriteKey(p)
        PROVE  Shaped(task'[p])
    <3>1. task[p].pc = "key" /\ Stays(task[p], task'[p])
      BY <2>5, IssueTurns DEF WriteKey, At
    <3>2. task'[p].key = task[p].key /\ task'[p].pc = "chain"
      BY <2>5, IssueTurns
    <3>3. QED
      BY <1>1, <3>1, <3>2 DEF Stays, Shaped, Registering, Installing
  <2> USE <1>1, IssueTurns DEF Shaped, Registering, Installing
  <2>1. CASE Begin(p)
    BY <2>1 DEF Begin, At
  <2>2. CASE NotDue(p)
    BY <2>2 DEF NotDue, At, Stays
  <2>4. CASE IssueFails(p)
    BY <2>4 DEF IssueFails, At
  <2>6. CASE WriteChain(p)
    BY <2>6, ZenonT(60) DEF WriteChain, At, Stays
  <2>7. CASE StartCore(p)
    BY <2>7 DEF StartCore, At, Reset
  <2>8. CASE SaveIssued(p)
    BY <2>8 DEF Starts, Reset
  <2>9. CASE SaveProvision(p)
    BY <2>9
  <2>10. QED
    BY <1>3, <2>1, <2>2, <2>3, <2>4, <2>5, <2>6, <2>7, <2>8, <2>9 DEF Issue
<1>4. ASSUME NEW p \in Procs, Deploy(p)
      PROVE  Shaped(task'[p])
  BY <1>1, <1>4, DeployTurns
     DEF Deploy, Stays, Starts, Reset, Shaped, Registering, Installing
<1>5. ASSUME NEW p \in Procs, Renew(p)
      PROVE  Shaped(task'[p])
  <2>1. task[p].pc = "renew" => task[p].kind = "renew" /\ ~task[p].stopped
    BY <1>1 DEF Shaped
  <2>2. RenewOne(p) => Shaped(task'[p])
    <3>1. RenewOne(p) => task[p].pc = "renew"
      BY DEF RenewOne, At
    <3>2. RenewOne(p) =>
            LET u == task'[p] IN
            /\ u.domain \in Domains /\ u.key # 0 /\ u.pc = "key"
            /\ u.kind = task[p].kind /\ u.stopped = task[p].stopped
      BY RenewTurns DEF HasPair
    <3>3. QED
      BY <2>1, <3>1, <3>2 DEF Shaped, Registering, Installing
  <2>3. ASSUME ~RenewOne(p)
        PROVE  Shaped(task'[p])
    <3>1. /\ task[p].pc \in {"renew", "reload", "reloadEndpoint"}
          /\ \/ Reset(task'[p])
             \/ /\ task'[p].pc \in {"renew", "reload", "reloadEndpoint"}
                /\ task'[p].pc = "renew" => task[p].pc = "renew"
                /\ task'[p].kind = task[p].kind
                /\ task'[p].stopped = task[p].stopped
                /\ task'[p].renewed => task[p].renewed
      BY <1>5, <2>3, RenewTurns
         DEF Renew, RenewSkips, RenewFails, Renewed, ReloadCore, ReloadEndpoint, At,
             Stays
    <3>2. QED
      BY <1>1, <3>1 DEF Reset, Shaped, Registering, Installing
  <2>4. QED
    BY <2>2, <2>3
<1>6. ASSUME NEW p \in Procs, Answers(p) \/ ClearActive(p)
      PROVE  Shaped(task'[p])
  BY <1>1, <1>6, AnswersTurns
     DEF Answers, Stays, Starts, Reset, Shaped, Registering, Installing
<1>7. ASSUME NEW p \in Procs, Operator(p)
      PROVE  Shaped(task'[p])
  <2>1. ToggleTimer(p) \/ OperatorStop(p) \/ OperatorStart(p) => task' = task
    BY DEF ToggleTimer, OperatorStop, OperatorStart
  <2>2. QED
    BY <1>1, <1>7, <2>1, OperatorTurns
       DEF Operator, Starts, Shaped, Registering, Installing
<1>8. ASSUME NEW p \in Procs, Cancel(p) \/ Kill(p)
      PROVE  Shaped(task'[p])
  BY <1>1, <1>8, OtherTurns DEF Reset, Shaped, Registering, Installing
<1>9. CASE StartProvision
  <2>1. Shaped(task'[Script])
    BY <1>9, OtherTurns, HostConstants DEF Shaped, Registering, Installing, Domains,
       NoDomain
  <2>2. Alone(Script)
    BY <1>9, Own DEF StartProvision, Alone, Aside, Procs
  <2>3. QED
    BY <2>1, <2>2, ShapesBy DEF Procs
<1>10. CASE Nightly
  <2>1. Shaped(task'[Timer])
    BY <1>10, OtherTurns DEF Starts, Shaped, Registering, Installing
  <2>2. Alone(Timer)
    BY <1>10, Own DEF Nightly, Alone, Aside, Procs
  <2>3. QED
    BY <2>1, <2>2, ShapesBy DEF Procs
<1>11. CASE \E p \in Procs : \/ Steps(p) \/ Answers(p) \/ Operator(p)
                             \/ Cancel(p) \/ Kill(p)
  BY <1>2, <1>3, <1>4, <1>5, <1>6, <1>7, <1>8, <1>11, StepsAlone, ShapesBy DEF Steps
<1>12. CASE UNCHANGED task
  BY <1>12 DEF Shapes
<1>13. QED
  BY <1>9, <1>10, <1>11, <1>12 DEF Next, vars, EndpointRetries, Ages

\* Nothing that was excused is forgotten.
LEMMA ExcusesStay ==
    ASSUME [Next]_vars
    PROVE  excuse \subseteq excuse'
<1> USE DEF history, Excuse
<1>1. ASSUME NEW p \in Procs, Account(p) \/ Renew(p) \/ ClearActive(p)
      PROVE  excuse \subseteq excuse'
  BY <1>1 DEF Account, FindKey, FindNoKey, MintKey, KnownAccount, Register,
     WriteRegistration, NotRegistered, Renew, RenewSkips, RenewOne, RenewFails,
     Renewed, ReloadCore, ReloadEndpoint, CoreStarts, ClearActive, SaveConf
<1>2. ASSUME NEW p \in Procs, Issue(p)
      PROVE  excuse \subseteq excuse'
  BY <1>2 DEF Issue, Begin, NotDue, Obtain, IssueFails, WriteKey, WriteChain,
     StartCore, CoreStarts, SaveIssued, SaveProvision, SaveConf
<1>3. ASSUME NEW p \in Procs, Deploy(p)
      PROVE  excuse \subseteq excuse'
  BY <1>3 DEF Deploy, ApplyLoad, Refused, SameAsLive, Install, CoreStarts,
     SaveDeployed, SaveConf, StartEndpoint
<1>4. ASSUME NEW p \in Procs, Answers(p) \/ Operator(p) \/ Cancel(p) \/ Kill(p)
      PROVE  excuse \subseteq excuse'
  BY <1>4 DEF Answers, SwitchCert, RemovePair, SavePort, CloseForm, SaveConf,
     Operator, StartIssue, StartDeploy, OpenSwitch, OpenRemove, OpenPort, ToggleTimer,
     OperatorStop, OperatorStart, CoreStarts, StartRenew, Cancel, Kill
<1>5. StartProvision \/ Nightly \/ EndpointRetries \/ (\E d \in Domains : Ages(d))
      \/ UNCHANGED vars
      => excuse \subseteq excuse'
  BY DEF StartProvision, Nightly, EndpointRetries, Ages, vars
<1>6. QED
  BY <1>1, <1>2, <1>3, <1>4, <1>5 DEF Next, Steps

-----------------------------------------------------------------------------
(***************************************************************************)
(* The settings.  A copy that is current is what is saved, up to the port  *)
(* the script asks for; a save makes every other copy an old one.          *)
(***************************************************************************)
CopyFits(t) ==
    t.fresh => IF t.kind = "provision" /\ t.pc \notin {"install", "deployed"}
               THEN t.cfg = [conf EXCEPT !.port = t.cfg.port]
               ELSE t.cfg = conf

SettingsInv == SettingsAsDecided /\ \A p \in Procs : CopyFits(task[p])

\* A step that saves nothing.
LEMMA SettingsKept ==
    ASSUME TypeOK, SettingsInv, NEW p \in Procs, Alone(p),
           UNCHANGED <<conf, decided>>, excuse \subseteq excuse', CopyFits(task[p])'
    PROVE  SettingsInv'
<1>1. SettingsAsDecided'
  BY DEF SettingsInv, SettingsAsDecided
<1>2. ASSUME NEW q \in Procs \ {p}
      PROVE  CopyFits(task[q])'
  <2>1. CopyFits(task[q]) /\ Aside(task[q], task'[q]) /\ task[q] \in Task
    BY DEF SettingsInv, Alone, TypeOK
  <2>2. QED
    BY <2>1 DEF Aside, CopyFits, Task
<1>3. QED
  BY <1>1, <1>2 DEF SettingsInv

\* A save: what is saved was made of a copy as what was decided is of itself.
LEMMA SettingsSaved ==
    ASSUME TypeOK, SettingsInv, NEW p \in Procs,
           NEW copy, NEW own, NEW fresh, NEW t, SaveConf(p, copy, own, fresh, t),
           fresh /\ conf = decided => copy = own,
           t.fresh => t.cfg = copy /\ t.pc = "install"
    PROVE  SettingsInv'
<1>1. conf' = copy /\ (decided' = IF "stale" \in excuse' THEN copy ELSE own)
      /\ excuse' = excuse \cup When(~fresh, "stale")
  BY DEF SaveConf, Excuse
<1>2. SettingsAsDecided'
  <2>1. SUFFICES ASSUME "stale" \notin excuse' PROVE copy = own
    BY <1>1 DEF SettingsAsDecided
  <2>2. fresh /\ "stale" \notin excuse
    BY <1>1, <2>1 DEF When
  <2>3. QED
    BY <2>2 DEF SettingsInv, SettingsAsDecided
<1>3. task'[p] = t /\ \A q \in Procs \ {p} : task'[q] = [task[q] EXCEPT !.fresh = FALSE]
  BY Own
<1>4. CopyFits(task[p])'
  BY <1>1, <1>3 DEF CopyFits
<1>5. ASSUME NEW q \in Procs \ {p}
      PROVE  CopyFits(task[q])'
  <2>1. task[q] \in Task
    BY DEF TypeOK
  <2>2. ~task'[q].fresh
    BY <1>3, <2>1 DEF Task
  <2>3. QED
    BY <2>2 DEF CopyFits
<1>6. QED
  BY <1>2, <1>4, <1>5 DEF SettingsInv

\* The settings are initially what was decided.
LEMMA SettingsInit == Init => SettingsInv
<1> SUFFICES ASSUME Init PROVE SettingsInv
  OBVIOUS
<1>1. \A p \in Procs : task[p] = Idle
  BY DEF Init
<1>2. \A p \in Procs : CopyFits(task[p])
  BY <1>1 DEF CopyFits, Idle
<1>3. QED
  BY <1>2 DEF Init, SettingsInv, SettingsAsDecided

\* Every step keeps the settings what was decided.
LEMMA SettingsStep ==
    ASSUME TypeOK, Shapes, SettingsInv, [Next]_vars
    PROVE  SettingsInv'
<1>0. /\ \A p \in Procs : task[p] \in Task /\ Shaped(task[p]) /\ CopyFits(task[p])
      /\ conf \in Conf /\ decided \in Conf /\ excuse \subseteq excuse'
  BY ExcusesStay DEF TypeOK, Shapes, SettingsInv
<1> DEFINE Same == UNCHANGED <<conf, decided>>
<1>1. ASSUME NEW p \in Procs, Account(p)
      PROVE  Same /\ CopyFits(task[p])'
  <2>1. Same
    BY <1>1 DEF Account, FindKey, FindNoKey, MintKey, KnownAccount, Register,
       WriteRegistration, NotRegistered, history
  <2>2. Reset(task'[p]) \/ (Stays(task[p], task'[p])
                            /\ task'[p].pc \notin {"install", "deployed"}
                            /\ task[p].pc \notin {"install", "deployed"})
    BY <1>1, AccountTurns DEF Account, FindKey, FindNoKey, MintKey, KnownAccount,
       Register, WriteRegistration, At
  <2>3. QED
    BY <1>0, <2>1, <2>2 DEF CopyFits, Stays, Reset
<1>2. ASSUME NEW p \in Procs,
             \/ NotDue(p) \/ Obtain(p) \/ IssueFails(p) \/ WriteKey(p)
             \/ WriteChain(p) \/ StartCore(p)
      PROVE  Same /\ CopyFits(task[p])'
  <2>1. Same
    BY <1>2 DEF NotDue, Obtain, IssueFails, WriteKey, WriteChain, StartCore, history
  <2>2. /\ task[p].pc \notin {"install", "deployed"}
        /\ \/ Reset(task'[p])
           \/ /\ task'[p].fresh = task[p].fresh /\ task'[p].cfg = task[p].cfg
              /\ task'[p].kind = task[p].kind
              /\ task'[p].pc \notin {"install", "deployed"}
    BY <1>2, IssueTurns DEF NotDue, Obtain, IssueFails, WriteKey, WriteChain,
       StartCore, At, Stays
  <2>3. QED
    BY <1>0, <2>1, <2>2 DEF CopyFits, Reset
<1>3. ASSUME NEW p \in Procs, Begin(p)
      PROVE  Same /\ CopyFits(task[p])'
  <2>1. Same /\ task[p].pc = "begin"
    BY <1>3 DEF Begin, history, At
  <2>2. task[p].kind \in {"issue", "provision"}
    BY <1>0, <2>1 DEF Shaped, Registering
  <2>3. /\ task'[p].pc = "check" /\ task'[p].kind = task[p].kind
        /\ IF task[p].kind = "issue" THEN task'[p].cfg = conf
           ELSE /\ task'[p].cfg = task[p].cfg
                /\ task'[p].fresh = task[p].fresh
    BY <1>3, IssueTurns
  <2>4. QED
    BY <1>0, <2>1, <2>2, <2>3 DEF CopyFits
<1>4. ASSUME NEW p \in Procs, SaveIssued(p)
      PROVE  SettingsInv'
  <2> DEFINE Change(c) == Activated(c, task[p].domain)
             t == IF task[p].cfg.deployed THEN Deploying(p, "issue") ELSE Idle
  <2>1. SaveConf(p, Change(task[p].cfg), Change(decided), task[p].fresh, t)
    BY <1>4 DEF SaveIssued
  <2>2. task[p].fresh /\ conf = decided => task[p].cfg = decided
    BY <1>0, <1>4 DEF SaveIssued, CopyFits
  <2>3. ~t.fresh
    BY DEF Deploying, Idle
  <2> HIDE DEF t
  <2>4. QED
    BY <2>1, <2>2, <2>3, SettingsSaved
<1>5. ASSUME NEW p \in Procs, SaveProvision(p)
      PROVE  SettingsInv'
  <2> DEFINE Change(c) == Activated([c EXCEPT !.port = task[p].cfg.port],
                                    task[p].domain)
             t == [Idle EXCEPT !.pc = "install", !.kind = "provision",
                               !.cfg = Change(task[p].cfg), !.fresh = task[p].fresh]
  <2>1. SaveConf(p, Change(task[p].cfg), Change(decided), task[p].fresh, t)
    BY <1>5 DEF SaveProvision
  <2>2. task[p].fresh => task[p].cfg = [conf EXCEPT !.port = task[p].cfg.port]
    BY <1>0, <1>5 DEF SaveProvision, CopyFits, At
  <2>3. task[p].cfg \in Conf
    BY <1>0 DEF Task
  <2>4. task[p].fresh => [task[p].cfg EXCEPT !.port = task[p].cfg.port]
                         = [conf EXCEPT !.port = task[p].cfg.port]
    BY <1>0, <2>2, <2>3 DEF Conf
  <2>5. task[p].fresh /\ conf = decided => Change(task[p].cfg) = Change(decided)
    BY <2>4
  <2>6. t.cfg = Change(task[p].cfg) /\ t.pc = "install"
    BY DEF Idle
  <2> HIDE DEF t, Change
  <2>7. QED
    BY <2>1, <2>5, <2>6, SettingsSaved
<1>6. ASSUME NEW p \in Procs,
             \/ ApplyLoad(p) \/ Refused(p) \/ SameAsLive(p) \/ Install(p)
             \/ StartEndpoint(p)
      PROVE  Same /\ CopyFits(task[p])'
  <2>1. Same
    BY <1>6 DEF ApplyLoad, Refused, SameAsLive, Install, StartEndpoint, history
  <2>2. ApplyLoad(p) => CopyFits(task[p])'
    BY <2>1, DeployTurns DEF CopyFits
  <2>3. ~ApplyLoad(p) => \/ Reset(task'[p])
                         \/ /\ Stays(task[p], task'[p])
                            /\ task[p].pc = "install" /\ task'[p].pc = "deployed"
    BY <1>6, DeployTurns DEF SameAsLive, Install, At
  <2>4. QED
    BY <1>0, <2>1, <2>2, <2>3 DEF CopyFits, Stays, Reset
<1>7. ASSUME NEW p \in Procs, SaveDeployed(p)
      PROVE  SettingsInv'
  <2> DEFINE Change(c) == [c EXCEPT !.deployed = TRUE]
             t == IF task[p].kind # "deploy" \/ ~task[p].cfg.deployed
                  THEN [Idle EXCEPT !.pc = "endpoint",
                                    !.cancelled = task[p].cancelled] ELSE Idle
  <2>1. SaveConf(p, Change(task[p].cfg), Change(decided), task[p].fresh, t)
    BY <1>7 DEF SaveDeployed
  <2>2. task[p].fresh /\ conf = decided => task[p].cfg = decided
    BY <1>0, <1>7 DEF SaveDeployed, CopyFits, At
  <2>3. ~t.fresh
    BY DEF Idle
  <2> HIDE DEF t
  <2>4. QED
    BY <2>1, <2>2, <2>3, SettingsSaved
<1>8. ASSUME NEW p \in Procs, Renew(p)
      PROVE  Same /\ CopyFits(task[p])'
  <2>1. Same
    BY <1>8 DEF Renew, RenewSkips, RenewOne, RenewFails, Renewed, ReloadCore,
       ReloadEndpoint, history
  <2>2. /\ task[p].pc \notin {"install", "deployed"}
        /\ \/ Reset(task'[p])
           \/ /\ task'[p].fresh = task[p].fresh /\ task'[p].cfg = task[p].cfg
              /\ task'[p].kind = task[p].kind
              /\ task'[p].pc \notin {"install", "deployed"}
    BY <1>8, RenewTurns DEF Renew, RenewSkips, RenewOne, RenewFails, Renewed,
       ReloadCore, ReloadEndpoint, At, Stays
  <2>3. QED
    BY <1>0, <2>1, <2>2 DEF CopyFits, Reset
<1>9. ASSUME NEW p \in Procs, SwitchCert(p) \/ ClearActive(p)
      PROVE  SettingsInv'
  <2> DEFINE t == IF conf.deployed THEN Deploying(p, "switch") ELSE Idle
  <2>1. ~t.fresh /\ ~Idle.fresh
    BY DEF Deploying, Idle
  <2>2. CASE SwitchCert(p)
    <3>1. SaveConf(p, Activated(conf, task[p].domain),
                   Activated(decided, task[p].domain), TRUE, t)
      BY <2>2 DEF SwitchCert
    <3> HIDE DEF t
    <3>2. QED
      BY <2>1, <3>1, SettingsSaved
  <2>3. CASE ClearActive(p)
    <3>1. SaveConf(p, Cleared(conf, task[p].domain),
                   Cleared(decided, task[p].domain), TRUE, Idle)
      BY <2>3 DEF ClearActive
    <3>2. QED
      BY <2>1, <3>1, SettingsSaved
  <2>4. QED
    BY <1>9, <2>2, <2>3
<1>10. ASSUME NEW p \in Procs, SavePort(p)
       PROVE  SettingsInv'
  <2>1. PICK v \in SubPorts :
          SaveConf(p, [task[p].cfg EXCEPT !.port = v], [decided EXCEPT !.port = v],
                   task[p].fresh, Idle)
    BY <1>10 DEF SavePort
  <2>2. task[p].fresh /\ conf = decided => task[p].cfg = decided
    BY <1>0, <1>10 DEF SavePort, At, Shaped, CopyFits
  <2>3. ~Idle.fresh
    BY DEF Idle
  <2>4. QED
    BY <2>1, <2>2, <2>3, SettingsSaved
<1>11. ASSUME NEW p \in Procs, RemovePair(p) \/ CloseForm(p)
       PROVE  Same /\ CopyFits(task[p])'
  <2>1. Same
    BY <1>11 DEF RemovePair, CloseForm, history
  <2>2. \/ Reset(task'[p])
        \/ /\ Stays(task[p], task'[p])
           /\ task[p].pc = "remove" /\ task'[p].pc = "clear"
    BY <1>11, AnswersTurns DEF RemovePair, At
  <2>3. QED
    BY <1>0, <2>1, <2>2 DEF CopyFits, Stays, Reset
<1>12. ASSUME NEW p \in Procs, Operator(p)
       PROVE  Same /\ CopyFits(task[p])'
  <2>1. Same
    BY <1>12 DEF Operator, StartIssue, StartDeploy, OpenSwitch, OpenRemove, OpenPort,
       ToggleTimer, OperatorStop, OperatorStart, CoreStarts, StartRenew, history
  <2>2. ToggleTimer(p) \/ OperatorStop(p) \/ OperatorStart(p) => task' = task
    BY DEF ToggleTimer, OperatorStop, OperatorStart
  <2>3. QED
    BY <1>0, <1>12, <2>1, <2>2, OperatorTurns DEF Operator, CopyFits, Starts
<1>13. ASSUME NEW p \in Procs, Cancel(p) \/ Kill(p)
       PROVE  Same /\ CopyFits(task[p])'
  <2>1. Same
    BY <1>13 DEF Cancel, Kill, history
  <2>2. QED
    BY <1>0, <1>13, <2>1, OtherTurns DEF CopyFits, Reset
<1>14. CASE StartProvision
  <2>1. Same /\ Script \in Procs /\ Alone(Script)
    BY <1>14, Own DEF StartProvision, history, Procs, Alone, Aside
  <2>2. CopyFits(task[Script])'
    <3>1. LET u == task'[Script] IN
          /\ u.pc \notin {"install", "deployed"} /\ u.kind = "provision"
          /\ u.cfg = [conf EXCEPT !.port = ManifestPort]
      BY <1>14, OtherTurns
    <3>2. [conf EXCEPT !.port = ManifestPort].port = ManifestPort
      BY <1>0 DEF Conf
    <3>3. QED
      BY <2>1, <3>1, <3>2 DEF CopyFits
  <2>3. QED
    BY <1>0, <2>1, <2>2, SettingsKept
<1>15. CASE Nightly
  <2>1. Same /\ Timer \in Procs /\ Alone(Timer)
    BY <1>15, Own DEF Nightly, history, Procs, Alone, Aside
  <2>2. CopyFits(task[Timer])'
    BY <1>15, OtherTurns DEF Starts, CopyFits
  <2>3. QED
    BY <1>0, <2>1, <2>2, SettingsKept
<1>16. CASE UNCHANGED vars \/ EndpointRetries \/ \E d \in Domains : Ages(d)
  <2>1. Same /\ UNCHANGED task /\ UNCHANGED excuse
    BY <1>16 DEF vars, EndpointRetries, Ages, history
  <2>2. QED
    BY <2>1 DEF SettingsInv, SettingsAsDecided, CopyFits
<1>17. ASSUME NEW p \in Procs, Steps(p) \/ Answers(p) \/ Operator(p) \/ Cancel(p)
                               \/ Kill(p)
       PROVE  SettingsInv'
  <2>1. Same /\ CopyFits(task[p])' => SettingsInv'
    BY <1>0, <1>17, StepsAlone, SettingsKept
  <2>2. QED
    BY <1>1, <1>2, <1>3, <1>4, <1>5, <1>6, <1>7, <1>8, <1>9, <1>10, <1>11, <1>12,
       <1>13, <1>17, <2>1 DEF Steps, Issue, Deploy, Answers
<1>18. QED
  BY <1>14, <1>15, <1>16, <1>17 DEF Next

\* Initially the tasks have their shape.
LEMMA ShapesInit == Init => Shapes
<1> SUFFICES ASSUME Init PROVE Shapes
  OBVIOUS
<1>1. \A p \in Procs : task[p] = Idle
  BY DEF Init
<1>2. QED
  BY <1>1 DEF Shapes, Shaped, Registering, Installing, Idle

\* The tasks keep their shape, whatever happens.
LEMMA ShapesAlways == Spec => []Shapes
<1>1. TypeOK /\ Shapes /\ [Next]_vars => Shapes'
  BY ShapesStep
<1>2. QED
  BY <1>1, TypeCorrect, ShapesInit, PTL DEF Spec

\* Each setting is what its last change made it, unless somebody saved a copy
\* older than another one's save (SettingsAsDecided).
THEOREM DecidedSettings == Spec => []SettingsAsDecided
<1>1. TypeOK /\ Shapes /\ SettingsInv /\ [Next]_vars => SettingsInv'
  BY SettingsStep
<1>2. SettingsInv => SettingsAsDecided
  BY DEF SettingsInv
<1>3. QED
  BY <1>1, <1>2, TypeCorrect, ShapesAlways, SettingsInit, PTL DEF Spec

-----------------------------------------------------------------------------
(***************************************************************************)
(* The account at the CA.  Who is about to register does it with the key   *)
(* on disk; two that make a key at once are recorded as "doubled".         *)
(***************************************************************************)
RegistersOwn(t) ==
    /\ t.pc = "mint" => acct.key = 0
    /\ t.pc \in {"lookup", "record"} => acct.key # 0 /\ t.key = acct.key

AccountInv ==
    "doubled" \notin excuse => /\ acct.reg \in {0, acct.key}
                               /\ ca \subseteq {acct.key} \ {0}
                               /\ \A p \in Procs : RegistersOwn(task[p])

\* The registration on disk and at the CA initially fits the key.
LEMMA AccountInit == Init => AccountInv
<1> SUFFICES ASSUME Init PROVE AccountInv
  OBVIOUS
<1>1. \A p \in Procs : task[p] = Idle
  BY DEF Init
<1>2. \A p \in Procs : RegistersOwn(task[p])
  BY <1>1 DEF RegistersOwn, Idle
<1>3. acct.reg \in {0, acct.key} /\ ca \subseteq {acct.key} \ {0}
  BY DEF Init
<1>4. QED
  BY <1>2, <1>3 DEF AccountInv

\* A step that leaves the account alone.
LEMMA AccountKept ==
    ASSUME TypeOK, AccountInv, NEW p \in Procs, Alone(p), UNCHANGED account,
           excuse \subseteq excuse',
           "doubled" \notin excuse' => RegistersOwn(task[p])'
    PROVE  AccountInv'
<1>1. SUFFICES ASSUME "doubled" \notin excuse'
               PROVE  /\ acct'.reg \in {0, acct'.key}
                      /\ ca' \subseteq {acct'.key} \ {0}
                      /\ \A q \in Procs : RegistersOwn(task[q])'
  BY DEF AccountInv
<1>2. "doubled" \notin excuse /\ acct' = acct /\ ca' = ca
  BY <1>1 DEF account
<1>3. ASSUME NEW q \in Procs \ {p}
      PROVE  RegistersOwn(task[q])'
  <2>1. RegistersOwn(task[q]) /\ Aside(task[q], task'[q]) /\ task[q] \in Task
    BY <1>2 DEF AccountInv, Alone, TypeOK
  <2>2. QED
    BY <1>2, <2>1 DEF Aside, RegistersOwn, Task
<1>4. QED
  BY <1>1, <1>2, <1>3 DEF AccountInv

\* Every step keeps the registration that of the key.
LEMMA AccountStep ==
    ASSUME TypeOK, AccountInv, [Next]_vars
    PROVE  AccountInv'
<1>0. /\ \A p \in Procs : task[p] \in Task
      /\ acct \in [key: Nat, reg: Nat] /\ minted \in Nat /\ excuse \subseteq excuse'
  BY ExcusesStay DEF TypeOK
<1>1. ASSUME NEW p \in Procs,
             FindKey(p) \/ FindNoKey(p) \/ KnownAccount(p) \/ NotRegistered(p)
      PROVE  UNCHANGED account /\ RegistersOwn(task[p])'
  <2>1. UNCHANGED account
    BY <1>1 DEF FindKey, FindNoKey, KnownAccount, NotRegistered
  <2>2. FindKey(p) => acct.key # 0 /\ task'[p].pc \in {"begin", "lookup"}
                      /\ task'[p].key = acct.key
    BY AccountTurns DEF FindKey
  <2>3. FindNoKey(p) => acct.key = 0 /\ task'[p].pc = "mint"
    BY AccountTurns DEF FindNoKey
  <2>4. KnownAccount(p) \/ NotRegistered(p) => task'[p].pc \in {"begin", "idle"}
    BY AccountTurns DEF Reset
  <2>5. QED
    BY <1>1, <2>1, <2>2, <2>3, <2>4 DEF RegistersOwn, account
<1>2. ASSUME NEW p \in Procs, MintKey(p), Alone(p)
      PROVE  AccountInv'
  <2>1. SUFFICES ASSUME "doubled" \notin excuse'
                 PROVE  /\ acct'.reg \in {0, acct'.key}
                        /\ ca' \subseteq {acct'.key} \ {0}
                        /\ \A q \in Procs : RegistersOwn(task[q])'
    BY DEF AccountInv
  <2>2. /\ "doubled" \notin excuse
        /\ \A q \in Procs \ {p} : task[q].pc \notin {"mint", "lookup", "record"}
    BY <1>2, <2>1 DEF MintKey, Excuse, When
  <2>3. acct.key = 0 /\ acct.reg = 0 /\ ca = {}
    BY <1>2, <2>2 DEF MintKey, At, AccountInv, RegistersOwn
  <2>4. acct'.key = minted' /\ acct'.reg = 0 /\ ca' = ca /\ minted' # 0
    BY <1>0, <1>2, <2>3 DEF MintKey
  <2>5. RegistersOwn(task[p])'
    BY <1>2, <2>4, AccountTurns DEF RegistersOwn
  <2>6. ASSUME NEW q \in Procs \ {p}
        PROVE  RegistersOwn(task[q])'
    <3>1. Aside(task[q], task'[q]) /\ task[q] \in Task
      BY <1>0, <1>2 DEF Alone
    <3>2. QED
      BY <2>2, <3>1 DEF Aside, RegistersOwn, Task
  <2>7. QED
    BY <2>3, <2>4, <2>5, <2>6
<1>3. ASSUME NEW p \in Procs, Register(p) \/ WriteRegistration(p), Alone(p)
      PROVE  AccountInv'
  <2>1. SUFFICES ASSUME "doubled" \notin excuse'
                 PROVE  /\ acct'.reg \in {0, acct'.key}
                        /\ ca' \subseteq {acct'.key} \ {0}
                        /\ \A q \in Procs : RegistersOwn(task[q])'
    BY DEF AccountInv
  <2>2. "doubled" \notin excuse /\ task[p].pc \in {"lookup", "record"}
    BY <1>0, <1>3, <2>1 DEF Register, WriteRegistration, At
  <2>3. acct.key # 0 /\ task[p].key = acct.key
    BY <2>2 DEF AccountInv, RegistersOwn
  <2>4. Register(p) => acct' = acct /\ ca' = ca \cup {acct.key}
    BY <2>3 DEF Register
  <2>5. WriteRegistration(p) =>
          acct'.key = acct.key /\ acct'.reg = acct.key /\ ca' = ca
    BY <1>0, <2>3 DEF WriteRegistration
  <2>6. acct'.reg \in {0, acct'.key} /\ ca' \subseteq {acct'.key} \ {0}
        /\ acct'.key = acct.key
    BY <1>3, <2>2, <2>3, <2>4, <2>5 DEF AccountInv
  <2>7. RegistersOwn(task[p])'
    <3>1. Register(p) => task'[p].pc = "record" /\ task'[p].key = task[p].key
      BY AccountTurns
    <3>2. WriteRegistration(p) => task'[p].pc = "begin"
      BY AccountTurns
    <3>3. QED
      BY <1>3, <2>3, <2>6, <3>1, <3>2 DEF RegistersOwn
  <2>8. ASSUME NEW q \in Procs \ {p}
        PROVE  RegistersOwn(task[q])'
    <3>1. Aside(task[q], task'[q]) /\ task[q] \in Task /\ RegistersOwn(task[q])
      BY <1>0, <1>3, <2>2 DEF Alone, AccountInv
    <3>2. QED
      BY <2>6, <3>1 DEF Aside, RegistersOwn, Task
  <2>9. QED
    BY <2>6, <2>7, <2>8
<1> DEFINE Gone(p) == task'[p].pc \notin {"mint", "lookup", "record"}
<1>4. ASSUME NEW p \in Procs, Issue(p)
      PROVE  UNCHANGED account /\ Gone(p)
  <2>1. UNCHANGED account
    BY <1>4 DEF Issue, Begin, NotDue, Obtain, IssueFails, WriteKey, WriteChain,
       StartCore, SaveIssued, SaveProvision
  <2>2. QED
    BY <1>4, <2>1, IssueTurns DEF Issue, Reset, Starts
<1>5. ASSUME NEW p \in Procs, Deploy(p) \/ Renew(p)
      PROVE  UNCHANGED account /\ Gone(p)
  <2>1. UNCHANGED account
    BY <1>5 DEF Deploy, ApplyLoad, Refused, SameAsLive, Install, SaveDeployed,
       StartEndpoint, Renew, RenewSkips, RenewOne, RenewFails, Renewed, ReloadCore,
       ReloadEndpoint
  <2>2. QED
    BY <1>5, <2>1, DeployTurns, RenewTurns DEF Deploy, Renew, Reset, Starts
<1>6. ASSUME NEW p \in Procs, Answers(p) \/ ClearActive(p) \/ Kill(p)
      PROVE  UNCHANGED account /\ Gone(p)
  <2>1. UNCHANGED account
    BY <1>6 DEF Answers, SwitchCert, RemovePair, SavePort, CloseForm, ClearActive,
       Kill
  <2>2. QED
    BY <1>6, <2>1, AnswersTurns, OtherTurns DEF Answers, Reset, Starts
<1>7. ASSUME NEW p \in Procs, Operator(p) \/ Cancel(p), "doubled" \notin excuse'
      PROVE  UNCHANGED account /\ RegistersOwn(task[p])'
  <2>1. UNCHANGED account
    BY <1>7 DEF Operator, StartIssue, StartDeploy, OpenSwitch, OpenRemove, OpenPort,
       ToggleTimer, OperatorStop, OperatorStart, StartRenew, Cancel
  <2>2. ToggleTimer(p) \/ OperatorStop(p) \/ OperatorStart(p) => task' = task
    BY DEF ToggleTimer, OperatorStop, OperatorStart
  <2>3. \/ Gone(p)
        \/ task'[p].pc = task[p].pc /\ task'[p].key = task[p].key
    BY <1>7, <2>2, OperatorTurns, OtherTurns DEF Operator, Starts
  <2>4. RegistersOwn(task[p])
    BY <1>0, <1>7 DEF AccountInv
  <2>5. QED
    BY <2>1, <2>3, <2>4 DEF RegistersOwn, account
<1>8. ASSUME NEW p \in Procs, Steps(p) \/ Answers(p) \/ Operator(p) \/ Cancel(p)
                              \/ Kill(p)
      PROVE  AccountInv'
  <2>1. Alone(p)
    BY <1>8, StepsAlone
  <2>2. CASE MintKey(p) \/ Register(p) \/ WriteRegistration(p)
    BY <2>1, <2>2, <1>2, <1>3
  <2>3. CASE Operator(p) \/ Cancel(p)
    <3>1. UNCHANGED account
      BY <2>3 DEF Operator, StartIssue, StartDeploy, OpenSwitch, OpenRemove, OpenPort,
         ToggleTimer, OperatorStop, OperatorStart, StartRenew, Cancel
    <3>2. QED
      BY <1>0, <1>7, <2>1, <2>3, <3>1, AccountKept
  <2>4. CASE ~(MintKey(p) \/ Register(p) \/ WriteRegistration(p)
               \/ Operator(p) \/ Cancel(p))
    <3>1. UNCHANGED account /\ RegistersOwn(task[p])'
      BY <1>1, <1>4, <1>5, <1>6, <1>8, <2>4 DEF Steps, Account, RegistersOwn
    <3>2. QED
      BY <1>0, <2>1, <3>1, AccountKept
  <2>5. QED
    BY <2>2, <2>3, <2>4
<1>9. CASE StartProvision
  <2>1. UNCHANGED account /\ Script \in Procs /\ Alone(Script)
    BY <1>9, Own DEF StartProvision, Procs, Alone, Aside
  <2>2. RegistersOwn(task[Script])'
    BY <1>9, OtherTurns DEF RegistersOwn
  <2>3. QED
    BY <1>0, <2>1, <2>2, AccountKept
<1>10. CASE Nightly
  <2>1. UNCHANGED account /\ Timer \in Procs /\ Alone(Timer)
    BY <1>10, Own DEF Nightly, Procs, Alone, Aside
  <2>2. RegistersOwn(task[Timer])'
    BY <1>10, OtherTurns DEF Starts, RegistersOwn
  <2>3. QED
    BY <1>0, <2>1, <2>2, AccountKept
<1>11. CASE UNCHANGED vars \/ EndpointRetries \/ \E d \in Domains : Ages(d)
  <2>1. UNCHANGED <<acct, ca, task, excuse>>
    BY <1>11 DEF vars, EndpointRetries, Ages, history, account
  <2>2. QED
    BY <2>1 DEF AccountInv, RegistersOwn
<1>12. QED
  BY <1>8, <1>9, <1>10, <1>11 DEF Next

\* The registration on disk is that of the key on disk and the CA knows one
\* account, however often a registration was interrupted (AccountFits).
THEOREM OneAccount == Spec => []AccountFits
<1>1. TypeOK /\ AccountInv /\ [Next]_vars => AccountInv'
  BY AccountStep
<1>2. AccountInv => AccountFits
  <2>1. ASSUME ca \subseteq {acct.key}
        PROVE  Cardinality(ca) <= 1
    <3>1. Cardinality({}) = 0 /\ Cardinality({acct.key}) = 1
      BY FS_EmptySet, FS_Singleton
    <3>2. ca = {} \/ ca = {acct.key}
      BY <2>1
    <3>3. QED
      BY <3>1, <3>2
  <2>2. QED
    BY <2>1 DEF AccountInv, AccountFits
<1>3. QED
  BY <1>1, <1>2, TypeCorrect, AccountInit, PTL DEF Spec

-----------------------------------------------------------------------------
(***************************************************************************)
(* The pairs.  Who is about to install a pair replaces one that is due, or *)
(* none at all, so whatever is left half written is due.                   *)
(***************************************************************************)
InstallsOwn(t) ==
    /\ t.pc \in Installing => t.domain \in due \/ chain[t.domain].serial = 0
    /\ t.pc = "chain" => key[t.domain] = t.key

PairInv ==
    "mixed" \notin excuse =>
        /\ \A p \in Procs : InstallsOwn(task[p])
        /\ \A d \in Domains : chain[d].serial # 0 => key[d] # 0
        /\ \A d \in Domains : HasPair(d) /\ ~Fits(d) => d \in due

\* The pairs initially fit.
LEMMA PairInit == Init => PairInv
<1> SUFFICES ASSUME Init PROVE PairInv
  OBVIOUS
<1>1. \A p \in Procs : task[p] = Idle
  BY DEF Init
<1>2. \A p \in Procs : InstallsOwn(task[p])
  BY <1>1 DEF InstallsOwn, Installing, Idle
<1>3. ASSUME NEW d \in Domains
      PROVE  /\ chain[d].serial # 0 => key[d] # 0
             /\ Fits(d)
  BY DEF Init, NoChain, Fits
<1>4. QED
  BY <1>2, <1>3 DEF PairInv

\* A step that writes no pair.
LEMMA PairKept ==
    ASSUME TypeOK, PairInv, NEW p \in Procs, Alone(p), UNCHANGED pairs,
           excuse \subseteq excuse',
           "mixed" \notin excuse' => InstallsOwn(task[p])'
    PROVE  PairInv'
<1>1. SUFFICES ASSUME "mixed" \notin excuse'
               PROVE  /\ \A q \in Procs : InstallsOwn(task[q])'
                      /\ \A d \in Domains : chain'[d].serial # 0 => key'[d] # 0
                      /\ \A d \in Domains : HasPair(d)' /\ ~Fits(d)' => d \in due'
  BY DEF PairInv
<1>2. "mixed" \notin excuse /\ key' = key /\ chain' = chain /\ due' = due
  BY <1>1 DEF pairs
<1>3. ASSUME NEW q \in Procs \ {p}
      PROVE  InstallsOwn(task[q])'
  <2>1. InstallsOwn(task[q]) /\ Aside(task[q], task'[q]) /\ task[q] \in Task
    BY <1>2 DEF PairInv, Alone, TypeOK
  <2>2. QED
    BY <1>2, <2>1 DEF Aside, InstallsOwn, Task
<1>4. QED
  BY <1>1, <1>2, <1>3 DEF PairInv, HasPair, Fits

\* A step that writes the pair of one domain, which nobody else is installing.
LEMMA PairWritten ==
    ASSUME TypeOK, PairInv, NEW p \in Procs, NEW d \in Domains, Alone(p),
           excuse' = excuse \cup When(Elsewhere(p, d), "mixed"),
           \A e \in Domains \ {d} : /\ key'[e] = key[e] /\ chain'[e] = chain[e]
                                    /\ e \in due' <=> e \in due,
           \A q \in Procs : task[q].pc \in Installing => task[q].domain \in Domains,
           "mixed" \notin excuse' =>
               /\ InstallsOwn(task[p])'
               /\ chain'[d].serial # 0 => key'[d] # 0
               /\ HasPair(d)' /\ ~Fits(d)' => d \in due'
    PROVE  PairInv'
<1>1. SUFFICES ASSUME "mixed" \notin excuse'
               PROVE  /\ \A q \in Procs : InstallsOwn(task[q])'
                      /\ \A e \in Domains : chain'[e].serial # 0 => key'[e] # 0
                      /\ \A e \in Domains : HasPair(e)' /\ ~Fits(e)' => e \in due'
  BY DEF PairInv
<1>2. "mixed" \notin excuse /\ ~Elsewhere(p, d)
  BY <1>1 DEF When
<1>3. ASSUME NEW q \in Procs \ {p}
      PROVE  InstallsOwn(task[q])'
  <2>1. InstallsOwn(task[q]) /\ Aside(task[q], task'[q]) /\ task[q] \in Task
    BY <1>2 DEF PairInv, Alone, TypeOK
  <2>2. task[q].pc \in Installing => task[q].domain \in Domains \ {d}
    BY <1>2 DEF Elsewhere, Installing
  <2>3. task'[q].pc = task[q].pc /\ task'[q].domain = task[q].domain
        /\ task'[q].key = task[q].key
    BY <2>1 DEF Aside, Task
  <2>4. QED
    BY <2>1, <2>2, <2>3 DEF InstallsOwn, Installing
<1>4. ASSUME NEW e \in Domains \ {d}
      PROVE  /\ chain'[e].serial # 0 => key'[e] # 0
             /\ HasPair(e)' /\ ~Fits(e)' => e \in due'
  <2>1. /\ chain[e].serial # 0 => key[e] # 0
        /\ HasPair(e) /\ ~Fits(e) => e \in due
    BY <1>2 DEF PairInv
  <2>2. QED
    BY <2>1 DEF HasPair, Fits
<1>5. QED
  BY <1>1, <1>3, <1>4

\* Every step keeps the pairs.
LEMMA PairStep ==
    ASSUME TypeOK, Shapes, PairInv, [Next]_vars
    PROVE  PairInv'
<1>0. /\ \A p \in Procs : task[p] \in Task /\ Shaped(task[p])
      /\ excuse \subseteq excuse'
      /\ key \in [Domains -> Nat] /\ chain \in [Domains -> Chain] /\ minted \in Nat
  BY ExcusesStay DEF TypeOK, Shapes
<1>0a. \A p \in Procs : task[p].pc \in Installing =>
         task[p].domain \in Domains /\ task[p].key # 0
  BY <1>0 DEF Shaped
<1> DEFINE Gone(p) == task'[p].pc \notin Installing
<1>1. ASSUME NEW p \in Procs, Account(p)
      PROVE  UNCHANGED pairs /\ Gone(p)
  <2>1. UNCHANGED pairs
    BY <1>1 DEF Account, FindKey, FindNoKey, MintKey, KnownAccount, Register,
       WriteRegistration, NotRegistered
  <2>2. QED
    BY <1>1, <2>1, AccountTurns DEF Account, Reset, Installing
<1>2. ASSUME NEW p \in Procs,
             Begin(p) \/ NotDue(p) \/ IssueFails(p) \/ StartCore(p) \/ SaveIssued(p)
             \/ SaveProvision(p)
      PROVE  UNCHANGED pairs /\ Gone(p)
  <2>1. UNCHANGED pairs
    BY <1>2 DEF Begin, NotDue, IssueFails, StartCore, SaveIssued, SaveProvision
  <2>2. QED
    BY <1>2, <2>1, IssueTurns DEF Reset, Starts, Installing
<1>3. ASSUME NEW p \in Procs, Obtain(p), "mixed" \notin excuse'
      PROVE  InstallsOwn(task[p])'
  <2>1. /\ task'[p].pc = "key" /\ task'[p].domain = task[p].domain
        /\ task[p].domain \in Domains
    BY <1>0, <1>3, IssueTurns DEF Obtain, At, Stays, Shaped
  <2>2. ~HasPair(task[p].domain) \/ task[p].domain \in due
    BY <1>3 DEF Obtain
  <2>3. task[p].domain # NoDomain
    BY <2>1, HostConstants DEF Domains, NoDomain
  <2>4. chain[task[p].domain].serial # 0 => key[task[p].domain] # 0
    BY <1>0, <1>3, <2>1 DEF PairInv
  <2>5. UNCHANGED <<key, chain, due>>
    BY <1>3 DEF Obtain, pairs
  <2>6. QED
    BY <2>1, <2>2, <2>3, <2>4, <2>5 DEF HasPair, InstallsOwn
<1>4. ASSUME NEW p \in Procs, WriteKey(p), Alone(p)
      PROVE  PairInv'
  <2>1. PICK d \in Domains :
          d = task[p].domain /\ task[p].key # 0 /\ task[p].pc = "key"
    BY <1>0a, <1>4 DEF WriteKey, At, Installing
  <2>2. /\ task'[p].pc = "chain" /\ task'[p].domain = d
        /\ task'[p].key = task[p].key
    <3>1. /\ task'[p].pc = "chain" /\ Stays(task[p], task'[p])
          /\ task'[p].key = task[p].key
      BY <1>4, IssueTurns
    <3>2. QED
      BY <2>1, <3>1 DEF Stays
  <2>3. /\ key'[d] = task[p].key /\ \A e \in Domains \ {d} : key'[e] = key[e]
        /\ chain' = chain /\ due' = due
        /\ excuse' = excuse \cup When(Elsewhere(p, d), "mixed")
    BY <1>0, <1>4, <2>1 DEF WriteKey, Excuse
  <2>4. "mixed" \notin excuse' =>
          d \in due \/ chain[d].serial = 0
    BY <1>0, <2>1 DEF PairInv, InstallsOwn, Installing
  <2>5. "mixed" \notin excuse' =>
          /\ InstallsOwn(task[p])'
          /\ chain'[d].serial # 0 => key'[d] # 0
          /\ HasPair(d)' /\ ~Fits(d)' => d \in due'
    BY <2>1, <2>2, <2>3, <2>4 DEF InstallsOwn, HasPair
  <2>6. QED
    BY <1>0a, <1>4, <2>1, <2>3, <2>5, PairWritten
<1>5. ASSUME NEW p \in Procs, WriteChain(p), Alone(p)
      PROVE  PairInv'
  <2>1. PICK d \in Domains :
          d = task[p].domain /\ task[p].key # 0 /\ task[p].pc = "chain"
    BY <1>0a, <1>5 DEF WriteChain, At, Installing
  <2>2. task'[p].pc \notin Installing
    BY <1>5, IssueTurns DEF Stays, Installing
  <2>3. /\ chain'[d] = [serial |-> minted + 1, for |-> task[p].key]
        /\ \A e \in Domains \ {d} : chain'[e] = chain[e] /\ (e \in due' <=> e \in due)
        /\ key' = key
        /\ excuse' = excuse \cup When(Elsewhere(p, d), "mixed")
    BY <1>0, <1>5, <2>1 DEF WriteChain, Excuse
  <2>4. "mixed" \notin excuse' => key[d] = task[p].key
    BY <1>0, <2>1 DEF PairInv, InstallsOwn
  <2>5. "mixed" \notin excuse' =>
          /\ InstallsOwn(task[p])'
          /\ chain'[d].serial # 0 => key'[d] # 0
          /\ HasPair(d)' /\ ~Fits(d)' => d \in due'
    BY <2>1, <2>2, <2>3, <2>4 DEF InstallsOwn, Fits, Installing
  <2>6. QED
    BY <1>0a, <1>5, <2>1, <2>3, <2>5, PairWritten
<1>6. ASSUME NEW p \in Procs, RemovePair(p), Alone(p)
      PROVE  PairInv'
  <2>1. task'[p].pc \notin Installing
    BY <1>6, AnswersTurns DEF Reset, Installing
  <2>2. InstallsOwn(task[p])'
    BY <2>1 DEF InstallsOwn, Installing
  <2>3. CASE task[p].domain \in Domains
    <3>1. PICK d \in Domains : d = task[p].domain
      BY <2>3
    <3>2. /\ key'[d] = 0 /\ chain'[d].serial = 0
          /\ \A e \in Domains \ {d} : /\ chain'[e] = chain[e] /\ key'[e] = key[e]
                                      /\ e \in due' <=> e \in due
          /\ excuse' = excuse \cup When(Elsewhere(p, d), "mixed")
      BY <1>0, <1>6, <3>1 DEF RemovePair, Excuse, NoChain
    <3>3. ~HasPair(d)'
      BY <3>2 DEF HasPair
    <3>4. QED
      BY <1>0a, <1>6, <2>2, <3>2, <3>3, PairWritten
  <2>4. CASE task[p].domain \notin Domains
    <3>1. key' = key /\ chain' = chain
      BY <1>0, <1>6, <2>4 DEF RemovePair
    <3>2. due' = due
      BY <1>6, <2>4 DEF RemovePair, TypeOK
    <3>3. QED
      BY <1>0, <1>6, <2>2, <3>1, <3>2, PairKept DEF pairs
  <2>5. QED
    BY <2>3, <2>4
<1>7. ASSUME NEW p \in Procs, Deploy(p) \/ ClearActive(p) \/ Kill(p)
      PROVE  UNCHANGED pairs /\ Gone(p)
  <2>1. UNCHANGED pairs
    BY <1>7 DEF Deploy, ApplyLoad, Refused, SameAsLive, Install, SaveDeployed,
       StartEndpoint, ClearActive, Kill
  <2>2. QED
    BY <1>7, <2>1, DeployTurns, AnswersTurns, OtherTurns
       DEF Deploy, Reset, Starts, Installing
<1>8. ASSUME NEW p \in Procs, Renew(p)
      PROVE  UNCHANGED pairs /\ InstallsOwn(task[p])'
  <2>1. UNCHANGED pairs
    BY <1>8 DEF Renew, RenewSkips, RenewOne, RenewFails, Renewed, ReloadCore,
       ReloadEndpoint
  <2>2. \/ Gone(p)
        \/ task'[p].pc = "key" /\ task'[p].domain \in due
    BY <1>8, RenewTurns DEF Renew, Reset, Installing
  <2>3. QED
    BY <2>1, <2>2 DEF InstallsOwn, Installing, pairs
<1>9. ASSUME NEW p \in Procs, SwitchCert(p) \/ SavePort(p) \/ CloseForm(p)
      PROVE  UNCHANGED pairs /\ Gone(p)
  <2>1. UNCHANGED pairs
    BY <1>9 DEF SwitchCert, SavePort, CloseForm
  <2>2. QED
    BY <1>9, <2>1, AnswersTurns DEF Reset, Starts, Installing
<1>10. ASSUME NEW p \in Procs, Operator(p) \/ Cancel(p), "mixed" \notin excuse'
       PROVE  InstallsOwn(task[p])'
  <2>1. UNCHANGED pairs
    BY <1>10 DEF Operator, StartIssue, StartDeploy, OpenSwitch, OpenRemove, OpenPort,
       ToggleTimer, OperatorStop, OperatorStart, StartRenew, Cancel
  <2>2. ToggleTimer(p) \/ OperatorStop(p) \/ OperatorStart(p) => task' = task
    BY DEF ToggleTimer, OperatorStop, OperatorStart
  <2>3. \/ Gone(p)
        \/ /\ task'[p].pc = task[p].pc /\ task'[p].key = task[p].key
           /\ task'[p].domain = task[p].domain
    BY <1>10, <2>2, OperatorTurns, OtherTurns DEF Operator, Starts, Installing
  <2>4. InstallsOwn(task[p])
    BY <1>0, <1>10 DEF PairInv
  <2>5. QED
    BY <2>1, <2>3, <2>4 DEF InstallsOwn, Installing, pairs
<1>11. ASSUME NEW p \in Procs, Steps(p) \/ Answers(p) \/ Operator(p) \/ Cancel(p)
                               \/ Kill(p)
       PROVE  PairInv'
  <2>1. Alone(p)
    BY <1>11, StepsAlone
  <2>2. CASE WriteKey(p) \/ WriteChain(p) \/ RemovePair(p)
    BY <2>1, <2>2, <1>4, <1>5, <1>6
  <2>3. CASE Operator(p) \/ Cancel(p) \/ Obtain(p)
    <3>1. UNCHANGED pairs
      BY <2>3 DEF Operator, StartIssue, StartDeploy, OpenSwitch, OpenRemove, OpenPort,
         ToggleTimer, OperatorStop, OperatorStart, StartRenew, Cancel, Obtain
    <3>2. QED
      BY <1>0, <1>3, <1>10, <2>1, <2>3, <3>1, PairKept
  <2>4. CASE ~(WriteKey(p) \/ WriteChain(p) \/ RemovePair(p)
               \/ Operator(p) \/ Cancel(p) \/ Obtain(p))
    <3>1. UNCHANGED pairs /\ (Gone(p) \/ InstallsOwn(task[p])')
      BY <1>1, <1>2, <1>7, <1>8, <1>9, <1>11, <2>4 DEF Steps, Issue, Answers
    <3>2. InstallsOwn(task[p])'
      BY <3>1 DEF InstallsOwn, Installing
    <3>3. QED
      BY <1>0, <2>1, <3>1, <3>2, PairKept
  <2>5. QED
    BY <2>2, <2>3, <2>4
<1>12. CASE StartProvision
  <2>1. UNCHANGED pairs /\ Script \in Procs /\ Alone(Script)
    BY <1>12, Own DEF StartProvision, Procs, Alone, Aside
  <2>2. InstallsOwn(task[Script])'
    BY <1>12, OtherTurns DEF InstallsOwn, Installing
  <2>3. QED
    BY <1>0, <2>1, <2>2, PairKept
<1>13. CASE Nightly
  <2>1. UNCHANGED pairs /\ Timer \in Procs /\ Alone(Timer)
    BY <1>13, Own DEF Nightly, Procs, Alone, Aside
  <2>2. InstallsOwn(task[Timer])'
    BY <1>13, OtherTurns DEF Starts, InstallsOwn, Installing
  <2>3. QED
    BY <1>0, <2>1, <2>2, PairKept
<1>14. CASE UNCHANGED vars \/ EndpointRetries \/ \E d \in Domains : Ages(d)
  <2>1. UNCHANGED <<key, chain, task, excuse>> /\ due \subseteq due'
    BY <1>14 DEF vars, EndpointRetries, Ages, history, pairs
  <2>2. QED
    BY <2>1 DEF PairInv, InstallsOwn, HasPair, Fits
<1>15. QED
  BY <1>11, <1>12, <1>13, <1>14 DEF Next

\* A certificate beside a key it was not issued for is always one that is due,
\* wherever an installation was interrupted (PairsFit).
THEOREM PairsAreFit == Spec => []PairsFit
<1>1. TypeOK /\ Shapes /\ PairInv /\ [Next]_vars => PairInv'
  BY PairStep
<1>2. PairInv => PairsFit
  BY DEF PairInv, PairsFit
<1>3. QED
  BY <1>1, <1>2, TypeCorrect, ShapesAlways, PairInit, PTL DEF Spec

-----------------------------------------------------------------------------
(***************************************************************************)
(* The core.  It is down because a task stopped it and will start it.      *)
(***************************************************************************)
Holds(t) == t.stopped /\ t.pc \in Issuing

Restarting == \E p \in Procs : Holds(task[p])

DownInv == meant /\ "left" \notin excuse /\ ~core.up => Restarting

\* A start of the core leaves it running, or is excused; what it runs on is
\* the pair that is there.
LEMMA CoreStarted ==
    ASSUME TypeOK, NEW p \in Procs, NEW d \in Domains \cup {NoDomain},
           CoreStarts(p, d)
    PROVE  /\ core'.up \/ "left" \in excuse'
           /\ core'.up \in BOOLEAN /\ core'.domain = d /\ core'.serial = Serial(d)
           /\ "shadowed" \notin excuse' =>
                \A q \in Procs \ {p} : task[q].pc \notin Issuing
<1>1. Loadable(d) \in BOOLEAN
  BY ResolveType
<1>2. core' = [up |-> Loadable(d), domain |-> d, serial |-> Serial(d)]
      /\ (~Loadable(d) => "left" \in excuse')
      /\ ((\E q \in Procs \ {p} : task[q].pc \in Issuing) => "shadowed" \in excuse')
  BY DEF CoreStarts, Excuse, When
<1>3. QED
  BY <1>1, <1>2

\* A step that neither starts nor stops the core.
LEMMA DownKept ==
    ASSUME TypeOK, DownInv, NEW p \in Procs, Alone(p), excuse \subseteq excuse',
           meant' => meant, core'.up = core.up,
           Holds(task[p]) => Holds(task'[p]) \/ "left" \in excuse'
    PROVE  DownInv'
<1>1. SUFFICES ASSUME meant', "left" \notin excuse', ~core'.up
               PROVE  Restarting'
  BY DEF DownInv
<1>2. PICK q \in Procs : Holds(task[q])
  BY <1>1 DEF DownInv, Restarting
<1>3. CASE q = p
  BY <1>1, <1>2, <1>3 DEF Restarting
<1>4. CASE q # p
  <2>1. Aside(task[q], task'[q]) /\ task[q] \in Task
    BY <1>4 DEF Alone, TypeOK
  <2>2. QED
    BY <1>2, <2>1 DEF Aside, Holds, Restarting, Task
<1>5. QED
  BY <1>3, <1>4

\* The core initially runs if it is meant to.
LEMMA DownInit == Init => DownInv
BY DEF Init, DownInv

\* Every step keeps the core up, or on its way back.
LEMMA DownStep ==
    ASSUME TypeOK, Shapes, DownInv, [Next]_vars
    PROVE  DownInv'
<1>0. /\ \A p \in Procs : task[p] \in Task /\ Shaped(task[p])
      /\ core \in Service /\ doc \in Domains \cup {NoDomain}
      /\ excuse \subseteq excuse'
  BY ExcusesStay DEF TypeOK, Shapes
<1> DEFINE Same == UNCHANGED <<core, meant>>
           Keeps(p) == Holds(task[p]) => Holds(task'[p]) \/ "left" \in excuse'
<1>0a. ASSUME core'.up \/ ~meant' \/ "left" \in excuse'
       PROVE  DownInv'
  BY <1>0a DEF DownInv
<1>1. ASSUME NEW p \in Procs, Account(p)
      PROVE  Same /\ Keeps(p)
  <2>1. Same /\ task[p].pc \notin Issuing
    BY <1>1 DEF Account, FindKey, FindNoKey, MintKey, KnownAccount, Register,
       WriteRegistration, NotRegistered, services, history, At, Issuing
  <2>2. QED
    BY <2>1 DEF Holds
<1>2. ASSUME NEW p \in Procs, NotDue(p) \/ Obtain(p) \/ IssueFails(p) \/ WriteKey(p)
      PROVE  Same /\ Keeps(p)
  <2>1. Same
    BY <1>2 DEF NotDue, Obtain, IssueFails, WriteKey, services, history
  <2>2. task'[p].stopped = task[p].stopped /\ task'[p].pc \in Issuing
    BY <1>2, IssueTurns DEF Stays, Issuing
  <2>3. QED
    BY <2>1, <2>2 DEF Holds
<1>3. ASSUME NEW p \in Procs, WriteChain(p)
      PROVE  Same /\ Keeps(p)
  <2>1. Same
    BY <1>3 DEF WriteChain, services
  <2>2. task[p].kind = "renew" => ~task[p].stopped
    BY <1>0 DEF Shaped
  <2>3. task[p].kind # "renew" => Stays(task[p], task'[p]) /\ task'[p].pc = "start"
    BY <1>3, IssueTurns
  <2>4. QED
    BY <2>1, <2>2, <2>3 DEF Holds, Stays, Issuing
<1>4. ASSUME NEW p \in Procs, SaveIssued(p) \/ SaveProvision(p)
      PROVE  Same /\ Keeps(p)
  BY <1>4 DEF SaveIssued, SaveProvision, At, Holds, Issuing
<1>5. ASSUME NEW p \in Procs, Begin(p), Alone(p)
      PROVE  DownInv'
  <2>1. /\ task'[p].pc = "check"
        /\ task'[p].stopped <=> core.up /\ ~task[p].cancelled
        /\ meant' = meant
        /\ core'.up <=> core.up /\ ~(core.up /\ ~task[p].cancelled)
    BY <1>0, <1>5, IssueTurns DEF Begin, history, Service
  <2>2. CASE core.up /\ ~task[p].cancelled
    BY <2>1, <2>2 DEF DownInv, Restarting, Holds, Issuing
  <2>3. CASE ~(core.up /\ ~task[p].cancelled)
    <3>1. ~Holds(task[p])
      BY <1>5 DEF Begin, At, Holds, Issuing
    <3>2. core' = core
      BY <1>0, <1>5, <2>3 DEF Begin, Service
    <3>3. QED
      BY <1>0, <1>5, <2>1, <3>1, <3>2, DownKept
  <2>4. QED
    BY <2>2, <2>3
<1>6. ASSUME NEW p \in Procs, StartCore(p), Alone(p)
      PROVE  DownInv'
  <2>1. meant' = meant
    BY <1>6 DEF StartCore
  <2>2. CASE task[p].stopped /\ ~task[p].cancelled /\ ~core.up
    <3>1. CoreStarts(p, doc)
      BY <1>6, <2>2 DEF StartCore
    <3>2. QED
      BY <1>0, <1>0a, <3>1, CoreStarted
  <2>3. CASE ~(task[p].stopped /\ ~task[p].cancelled /\ ~core.up)
    <3>1. core' = core /\ Excuse(When(task[p].stopped /\ task[p].cancelled, "left"))
      BY <1>6, <2>3 DEF StartCore
    <3>2. CASE core.up
      BY <1>0a, <3>1, <3>2
    <3>3. CASE ~core.up
      <4>1. Holds(task[p]) => "left" \in excuse'
        BY <2>3, <3>1, <3>3 DEF Holds, Excuse, When
      <4>2. QED
        BY <1>0, <1>6, <2>1, <3>1, <4>1, DownKept
    <3>4. QED
      BY <3>2, <3>3
  <2>4. QED
    BY <2>2, <2>3
<1>7. ASSUME NEW p \in Procs,
             ApplyLoad(p) \/ Refused(p) \/ SameAsLive(p) \/ SaveDeployed(p)
             \/ StartEndpoint(p)
      PROVE  Same /\ Keeps(p)
  BY <1>7 DEF ApplyLoad, Refused, SameAsLive, SaveDeployed, StartEndpoint, services,
     history, At, Holds, Issuing
<1>8. ASSUME NEW p \in Procs, Install(p), Alone(p)
      PROVE  DownInv'
  <2>1. CASE task[p].cancelled
    BY <1>0a, <1>8, <2>1 DEF Install, Excuse
  <2>2. CASE ~task[p].cancelled
    <3>1. CoreStarts(p, ResolveActive(task[p].cfg.domain))
      BY <1>8, <2>2 DEF Install
    <3>2. ResolveActive(task[p].cfg.domain) \in Domains \cup {NoDomain}
      <4>1. task[p].cfg.domain \in Domains \cup {NoDomain}
        BY <1>0 DEF Task, Conf
      <4>2. QED
        BY <4>1, ResolveType
    <3>3. QED
      BY <1>0a, <3>1, <3>2, CoreStarted
  <2>3. QED
    BY <2>1, <2>2
<1>9. ASSUME NEW p \in Procs,
             \/ RenewSkips(p) \/ RenewOne(p) \/ RenewFails(p) \/ Renewed(p)
             \/ ReloadEndpoint(p) \/ ClearActive(p)
      PROVE  Same /\ Keeps(p)
  BY <1>9 DEF RenewSkips, RenewOne, RenewFails, Renewed, ReloadEndpoint, ClearActive,
     services, history, At, Holds, Issuing
<1>10. ASSUME NEW p \in Procs, ReloadCore(p), Alone(p)
       PROVE  DownInv'
  <2>1. meant' = meant /\ task[p].pc = "reload"
    BY <1>10 DEF ReloadCore, At
  <2>2. CASE core.up /\ ~task[p].cancelled
    <3>1. CoreStarts(p, doc)
      BY <1>10, <2>2 DEF ReloadCore
    <3>2. QED
      BY <1>0, <1>0a, <3>1, CoreStarted
  <2>3. CASE ~(core.up /\ ~task[p].cancelled)
    <3>1. core' = core
      BY <1>10, <2>3 DEF ReloadCore
    <3>2. QED
      BY <1>0, <1>10, <2>1, <3>1, DownKept DEF Holds, Issuing
  <2>4. QED
    BY <2>2, <2>3
<1>11. ASSUME NEW p \in Procs, Answers(p)
       PROVE  Same /\ Keeps(p)
  BY <1>11 DEF Answers, SwitchCert, RemovePair, SavePort, CloseForm, services,
     history, At, Holds, Issuing, Forms
<1>12. ASSUME NEW p \in Procs,
              \/ StartIssue(p) \/ StartDeploy(p) \/ OpenSwitch(p) \/ OpenRemove(p)
              \/ OpenPort(p) \/ ToggleTimer(p) \/ StartRenew(p)
       PROVE  Same /\ Keeps(p)
  <2>1. Same
    BY <1>12 DEF StartIssue, StartDeploy, OpenSwitch, OpenRemove, OpenPort,
       ToggleTimer, StartRenew, services, history
  <2>2. task[p].pc = "idle"
    BY <1>12 DEF StartIssue, StartDeploy, OpenSwitch, OpenRemove, OpenPort,
       ToggleTimer, StartRenew, Ready
  <2>3. QED
    BY <2>1, <2>2 DEF Holds, Issuing
<1>13. ASSUME NEW p \in Procs, OperatorStop(p) \/ OperatorStart(p)
       PROVE  DownInv'
  <2>1. OperatorStop(p) => ~meant'
    BY DEF OperatorStop
  <2>2. OperatorStart(p) => CoreStarts(p, doc)
    BY DEF OperatorStart
  <2>3. QED
    BY <1>0, <1>0a, <1>13, <2>1, <2>2, CoreStarted
<1>14. ASSUME NEW p \in Procs, Cancel(p)
       PROVE  Same /\ Keeps(p)
  <2>1. Same
    BY <1>14 DEF Cancel, services, history
  <2>2. task'[p].pc = task[p].pc /\ task'[p].stopped = task[p].stopped
    BY <1>14, OtherTurns
  <2>3. QED
    BY <2>1, <2>2 DEF Holds
<1>15. ASSUME NEW p \in Procs, Kill(p)
       PROVE  Same /\ Keeps(p)
  BY <1>15 DEF Kill, services, Holds, Excuse, When
<1>16. ASSUME NEW p \in Procs, Steps(p) \/ Answers(p) \/ Operator(p) \/ Cancel(p)
                               \/ Kill(p)
       PROVE  DownInv'
  <2>1. Alone(p)
    BY <1>16, StepsAlone
  <2>2. Same /\ Keeps(p) => DownInv'
    BY <1>0, <2>1, DownKept
  <2>3. QED
    BY <1>1, <1>2, <1>3, <1>4, <1>5, <1>6, <1>7, <1>8, <1>9, <1>10, <1>11, <1>12,
       <1>13, <1>14, <1>15, <1>16, <2>1, <2>2
       DEF Steps, Issue, Deploy, Renew, Operator
<1>17. CASE StartProvision
  <2>1. Same /\ Script \in Procs /\ Alone(Script) /\ task[Script].pc = "idle"
    BY <1>17, Own DEF StartProvision, services, history, Procs, Alone, Aside
  <2>2. QED
    BY <1>0, <2>1, DownKept DEF Holds, Issuing
<1>18. CASE Nightly
  <2>1. Same /\ Timer \in Procs /\ Alone(Timer) /\ task[Timer].pc = "idle"
    BY <1>18, Own DEF Nightly, services, history, Procs, Alone, Aside
  <2>2. QED
    BY <1>0, <2>1, DownKept DEF Holds, Issuing
<1>19. CASE UNCHANGED vars \/ EndpointRetries \/ \E d \in Domains : Ages(d)
  <2>1. UNCHANGED <<core, meant, task, excuse>>
    BY <1>19 DEF vars, EndpointRetries, Ages, history, services
  <2>2. QED
    BY <2>1 DEF DownInv, Restarting
<1>20. QED
  BY <1>16, <1>17, <1>18, <1>19 DEF Next

\* The core runs again after whatever had stopped it, unless a task was ended in
\* between or its document cannot be loaded (CoreComesBack).
THEOREM CoreIsBack == Spec => []CoreComesBack
<1>1. TypeOK /\ Shapes /\ DownInv /\ [Next]_vars => DownInv'
  BY DownStep
<1>2. DownInv => CoreComesBack
  BY DEF DownInv, Restarting, Holds, CoreComesBack, Quiet, Working
<1>3. QED
  BY <1>1, <1>2, TypeCorrect, ShapesAlways, DownInit, PTL DEF Spec

-----------------------------------------------------------------------------
(***************************************************************************)
(* What the core runs on.  While a pair is replaced for an issue the core  *)
(* is down; a core that runs on a pair that was replaced is one that a     *)
(* renewal, which is still under way, is going to restart.                 *)
(***************************************************************************)
Outdated(s) == /\ s.up /\ s.serial # 0 /\ HasPair(s.domain)
               /\ s.serial # chain[s.domain].serial

FreesPort(t) ==
    \/ t.pc \in Installing /\ t.kind # "renew"
    \/ t.pc = "check" /\ ~t.cancelled

OwesCore(t) ==
    \/ t.renewed /\ t.pc \in Installing \cup {"renew", "reload"}
    \/ t.pc = "chain" /\ t.domain = core.domain

DownMeanwhile == core.up => \A p \in Procs : ~FreesPort(task[p])

RestartedLater ==
    "left" \notin excuse /\ Outdated(core) => \E p \in Procs : OwesCore(task[p])

CoreInv == "shadowed" \notin excuse => DownMeanwhile /\ RestartedLater

\* The core initially runs on the pair that is there.
LEMMA CoreInit == Init => CoreInv
<1> SUFFICES ASSUME Init PROVE CoreInv
  OBVIOUS
<1>1. \A p \in Procs : task[p] = Idle
  BY DEF Init
<1>2. \A p \in Procs : ~FreesPort(task[p])
  BY <1>1 DEF FreesPort, Installing, Idle
<1>3. ~Outdated(core)
  BY DEF Init, Outdated, HasPair, Serial
<1>4. QED
  BY <1>2, <1>3 DEF CoreInv, DownMeanwhile, RestartedLater

\* What a process owes the core, it owes it until its own next step.
LEMMA OthersOwe ==
    ASSUME TypeOK, NEW p \in Procs, NEW q \in Procs \ {p}, Alone(p)
    PROVE  /\ FreesPort(task'[q]) <=> FreesPort(task[q])
           /\ OwesCore(task[q]) /\ core'.domain = core.domain => OwesCore(task[q])'
<1>1. Aside(task[q], task'[q]) /\ task[q] \in Task
  BY DEF Alone, TypeOK
<1>2. /\ task'[q].pc = task[q].pc /\ task'[q].kind = task[q].kind
      /\ task'[q].cancelled = task[q].cancelled /\ task'[q].renewed = task[q].renewed
      /\ task'[q].domain = task[q].domain
  BY <1>1 DEF Aside, Task
<1>3. QED
  BY <1>2 DEF FreesPort, OwesCore

\* A step that leaves the core and the pairs alone, or stops the core.
LEMMA CoreKept ==
    ASSUME TypeOK, CoreInv, NEW p \in Procs, Alone(p), excuse \subseteq excuse',
           UNCHANGED <<key, chain>>,
           core' = core \/ ~core'.up,
           core'.up /\ FreesPort(task'[p]) => FreesPort(task[p]),
           core' = core /\ Outdated(core) /\ OwesCore(task[p]) =>
               OwesCore(task[p])' \/ "left" \in excuse'
    PROVE  CoreInv'
<1>1. SUFFICES ASSUME "shadowed" \notin excuse' PROVE DownMeanwhile' /\ RestartedLater'
  BY DEF CoreInv
<1>2. DownMeanwhile /\ RestartedLater
  BY <1>1 DEF CoreInv
<1>3. DownMeanwhile'
  <2>1. SUFFICES ASSUME core'.up, NEW q \in Procs PROVE ~FreesPort(task'[q])
    BY DEF DownMeanwhile, FreesPort
  <2>2. ~FreesPort(task[q]) /\ ~FreesPort(task[p])
    BY <1>2, <2>1 DEF DownMeanwhile
  <2>3. QED
    BY <2>1, <2>2, OthersOwe
<1>4. RestartedLater'
  <2>1. SUFFICES ASSUME "left" \notin excuse', Outdated(core)'
                 PROVE  \E q \in Procs : OwesCore(task[q])'
    BY DEF RestartedLater
  <2>2. core' = core
    BY <2>1 DEF Outdated
  <2>3. Outdated(core) /\ "left" \notin excuse
    BY <2>1, <2>2 DEF Outdated, HasPair
  <2>4. PICK q \in Procs : OwesCore(task[q])
    BY <1>2, <2>3 DEF RestartedLater
  <2>5. QED
    BY <2>1, <2>2, <2>3, <2>4, OthersOwe
<1>5. QED
  BY <1>3, <1>4

\* A start of the core by a process that has no issue under way afterwards.
LEMMA CoreRestarted ==
    ASSUME TypeOK, NEW p \in Procs, NEW d \in Domains \cup {NoDomain}, Alone(p),
           CoreStarts(p, d), UNCHANGED <<key, chain>>, ~FreesPort(task'[p])
    PROVE  CoreInv'
<1>1. SUFFICES ASSUME "shadowed" \notin excuse' PROVE DownMeanwhile' /\ RestartedLater'
  BY DEF CoreInv
<1>2. /\ core'.domain = d /\ core'.serial = Serial(d)
      /\ \A q \in Procs \ {p} : task[q].pc \notin Issuing
  BY <1>1, CoreStarted
<1>3. \A q \in Procs \ {p} : ~FreesPort(task'[q])
  BY <1>2, OthersOwe DEF FreesPort, Installing, Issuing
<1>4. DownMeanwhile'
  BY <1>3 DEF DownMeanwhile, FreesPort
<1>5. ~Outdated(core)'
  BY <1>2 DEF Outdated, HasPair, Serial
<1>6. QED
  BY <1>4, <1>5 DEF RestartedLater

\* The key of an installation may complete a pair that the core runs without.
LEMMA CoreKeyed ==
    ASSUME TypeOK, Shapes, CoreInv, NEW p \in Procs, Alone(p), WriteKey(p),
           excuse \subseteq excuse'
    PROVE  CoreInv'
<1>1. SUFFICES ASSUME "shadowed" \notin excuse' PROVE DownMeanwhile' /\ RestartedLater'
  BY DEF CoreInv
<1>2. DownMeanwhile /\ RestartedLater
  BY <1>1 DEF CoreInv
<1>3. /\ task[p].pc = "key" /\ task'[p].pc = "chain" /\ Stays(task[p], task'[p])
      /\ core' = core /\ chain' = chain
      /\ \A e \in Domains \ {task[p].domain} : key'[e] = key[e]
  BY IssueTurns, ZenonT(60) DEF WriteKey, At, TypeOK, services
<1>4. DownMeanwhile'
  <2>1. SUFFICES ASSUME core.up, NEW q \in Procs PROVE ~FreesPort(task'[q])
    BY <1>3 DEF DownMeanwhile, FreesPort
  <2>2. ~FreesPort(task[q]) /\ ~FreesPort(task[p])
    BY <1>2, <2>1 DEF DownMeanwhile
  <2>3. ~FreesPort(task'[p])
    BY <1>3, <2>2 DEF FreesPort, Installing, Stays
  <2>4. QED
    BY <2>2, <2>3, OthersOwe
<1>5. RestartedLater'
  <2>1. SUFFICES ASSUME "left" \notin excuse', Outdated(core)'
                 PROVE  \E q \in Procs : OwesCore(task[q])'
    BY DEF RestartedLater
  <2>2. CASE task[p].domain = core.domain
    BY <1>3, <2>2 DEF OwesCore, Stays
  <2>3. CASE task[p].domain # core.domain
    <3>1. core.domain \in Domains
      BY <1>3, <2>1 DEF Outdated, HasPair, TypeOK, Service
    <3>2. Outdated(core) /\ "left" \notin excuse
      BY <1>3, <2>1, <2>3, <3>1 DEF Outdated, HasPair
    <3>3. PICK q \in Procs : OwesCore(task[q])
      BY <1>2, <3>2 DEF RestartedLater
    <3>4. OwesCore(task[p]) => OwesCore(task[p])'
      BY <1>3 DEF OwesCore, Stays, Installing
    <3>5. QED
      BY <1>3, <3>3, <3>4, OthersOwe
  <2>4. QED
    BY <2>2, <2>3
<1>6. QED
  BY <1>4, <1>5

\* A new certificate under a core that runs is one of a renewal.
LEMMA CoreChained ==
    ASSUME TypeOK, Shapes, CoreInv, NEW p \in Procs, Alone(p), WriteChain(p),
           excuse \subseteq excuse'
    PROVE  CoreInv'
<1>1. SUFFICES ASSUME "shadowed" \notin excuse' PROVE DownMeanwhile' /\ RestartedLater'
  BY DEF CoreInv
<1>2. DownMeanwhile /\ RestartedLater
  BY <1>1 DEF CoreInv
<1>3. /\ task[p].pc = "chain" /\ core' = core /\ key' = key
      /\ \A e \in Domains \ {task[p].domain} : chain'[e] = chain[e]
  BY DEF WriteChain, At, TypeOK, services
<1>4. IF task[p].kind = "renew" THEN task'[p].renewed /\ task'[p].pc = "renew"
      ELSE task'[p].pc = "start"
  BY IssueTurns
<1>5. DownMeanwhile'
  <2>1. SUFFICES ASSUME core.up, NEW q \in Procs PROVE ~FreesPort(task'[q])
    BY <1>3 DEF DownMeanwhile, FreesPort
  <2>2. ~FreesPort(task[q]) /\ ~FreesPort(task'[p])
    BY <1>2, <1>4, <2>1 DEF DownMeanwhile, FreesPort, Installing
  <2>3. QED
    BY <2>2, OthersOwe
<1>6. RestartedLater'
  <2>1. SUFFICES ASSUME "left" \notin excuse', Outdated(core)'
                 PROVE  \E q \in Procs : OwesCore(task[q])'
    BY DEF RestartedLater
  <2>2. task[p].kind = "renew"
    BY <1>2, <1>3, <2>1 DEF Outdated, DownMeanwhile, FreesPort, Installing
  <2>3. QED
    BY <1>4, <2>2 DEF OwesCore
<1>7. QED
  BY <1>5, <1>6

\* Without a pair there is nothing to be served.
LEMMA CoreUnpaired ==
    ASSUME TypeOK, CoreInv, NEW p \in Procs, Alone(p), RemovePair(p),
           excuse \subseteq excuse'
    PROVE  CoreInv'
<1>1. SUFFICES ASSUME "shadowed" \notin excuse' PROVE DownMeanwhile' /\ RestartedLater'
  BY DEF CoreInv
<1>2. DownMeanwhile /\ RestartedLater
  BY <1>1 DEF CoreInv
<1>3. /\ task[p].pc = "remove" /\ core' = core
      /\ task'[p].pc \in {"clear", "idle"}
  BY AnswersTurns DEF RemovePair, At, services, Reset
<1>4. DownMeanwhile'
  <2>1. SUFFICES ASSUME core.up, NEW q \in Procs PROVE ~FreesPort(task'[q])
    BY <1>3 DEF DownMeanwhile, FreesPort
  <2>2. ~FreesPort(task[q]) /\ ~FreesPort(task'[p])
    BY <1>2, <1>3, <2>1 DEF DownMeanwhile, FreesPort, Installing
  <2>3. QED
    BY <2>2, OthersOwe
<1>5. RestartedLater'
  <2>1. SUFFICES ASSUME "left" \notin excuse', Outdated(core)'
                 PROVE  \E q \in Procs : OwesCore(task[q])'
    BY DEF RestartedLater
  <2>2. PICK c \in Domains : c = core.domain
    BY <1>3, <2>1 DEF Outdated, HasPair, TypeOK, Service
  <2>3. c # task[p].domain
    BY <1>3, <2>1, <2>2 DEF Outdated, HasPair, RemovePair, TypeOK
  <2>4. key'[c] = key[c] /\ chain'[c] = chain[c]
    BY <2>3 DEF RemovePair, TypeOK
  <2>5. Outdated(core) /\ "left" \notin excuse
    BY <1>3, <2>1, <2>2, <2>4 DEF Outdated, HasPair
  <2>6. PICK q \in Procs : OwesCore(task[q])
    BY <1>2, <2>5 DEF RestartedLater
  <2>7. ~OwesCore(task[p])
    BY <1>3 DEF OwesCore, Installing
  <2>8. QED
    BY <1>3, <2>6, <2>7, OthersOwe
<1>6. QED
  BY <1>4, <1>5

\* Every step keeps the core on the pair that is there, or owes it a restart.
LEMMA CoreStep ==
    ASSUME TypeOK, Shapes, CoreInv, [Next]_vars
    PROVE  CoreInv'
<1>0. /\ \A p \in Procs : task[p] \in Task /\ Shaped(task[p])
      /\ core \in Service /\ doc \in Domains \cup {NoDomain}
      /\ excuse \subseteq excuse'
  BY ExcusesStay DEF TypeOK, Shapes
<1> DEFINE Same == UNCHANGED <<key, chain, core>>
           Keeps(p) == /\ FreesPort(task'[p]) => FreesPort(task[p])
                       /\ core' = core /\ OwesCore(task[p]) =>
                             OwesCore(task[p])' \/ "left" \in excuse'
           Aloof(p) == ~FreesPort(task'[p]) /\ ~OwesCore(task[p])
<1>1. ASSUME NEW p \in Procs, Account(p)
      PROVE  Same /\ Aloof(p)
  <2>1. Same
    BY <1>1 DEF Account, FindKey, FindNoKey, MintKey, KnownAccount, Register,
       WriteRegistration, NotRegistered, services, pairs
  <2>2. /\ task[p].pc \notin Installing \cup {"renew", "reload"}
        /\ task'[p].pc \notin Installing \cup {"check"}
    BY <1>1, AccountTurns DEF Account, FindKey, FindNoKey, MintKey, KnownAccount,
       Register, WriteRegistration, NotRegistered, At, Reset, Installing
  <2>3. QED
    BY <2>1, <2>2 DEF FreesPort, OwesCore, Installing
<1>2. ASSUME NEW p \in Procs, Begin(p), Alone(p)
      PROVE  CoreInv'
  <2>1. UNCHANGED <<key, chain>> /\ task[p].pc = "begin"
    BY <1>2 DEF Begin, pairs, At
  <2>2. core' = core \/ ~core'.up
    BY <1>0, <1>2 DEF Begin, Service
  <2>3. core'.up => task[p].cancelled
    BY <1>0, <1>2 DEF Begin, Service
  <2>4. task'[p].pc = "check" /\ (task'[p].cancelled <=> task[p].cancelled)
    BY <1>2, IssueTurns
  <2>5. core'.up => ~FreesPort(task'[p])
    BY <2>3, <2>4 DEF FreesPort, Installing
  <2>6. ~OwesCore(task[p])
    BY <2>1 DEF OwesCore, Installing
  <2>7. QED
    BY <1>0, <1>2, <2>1, <2>2, <2>5, <2>6, CoreKept
<1>3. ASSUME NEW p \in Procs, NotDue(p) \/ Obtain(p) \/ IssueFails(p)
      PROVE  Same /\ Keeps(p)
  <2>1. Same /\ task[p].pc = "check"
    BY <1>3 DEF NotDue, Obtain, IssueFails, services, pairs, At
  <2>2. Obtain(p) => ~task[p].cancelled
    BY DEF Obtain, Answered
  <2>3. NotDue(p) \/ IssueFails(p) => task'[p].pc = "start"
    BY IssueTurns
  <2>4. QED
    BY <1>3, <2>1, <2>2, <2>3 DEF FreesPort, OwesCore, Installing
<1>4. ASSUME NEW p \in Procs, StartCore(p), Alone(p)
      PROVE  CoreInv'
  <2>1. UNCHANGED <<key, chain>> /\ task[p].pc = "start"
    BY <1>4 DEF StartCore, pairs, At
  <2>2. task'[p].pc \in {"save", "idle"}
    BY <1>4, IssueTurns DEF Reset
  <2>3. ~FreesPort(task'[p]) /\ ~OwesCore(task[p])
    BY <2>1, <2>2 DEF FreesPort, OwesCore, Installing
  <2>4. core' = core \/ CoreStarts(p, doc)
    BY <1>4 DEF StartCore
  <2>5. QED
    BY <1>0, <1>4, <2>1, <2>3, <2>4, CoreKept, CoreRestarted
<1>5. ASSUME NEW p \in Procs, SaveIssued(p) \/ SaveProvision(p)
      PROVE  Same /\ Aloof(p)
  <2>1. Same /\ task[p].pc = "save"
    BY <1>5 DEF SaveIssued, SaveProvision, pairs, At
  <2>2. task'[p].pc \in {"apply", "idle", "install"}
    BY <1>5, IssueTurns DEF Reset, Starts
  <2>3. QED
    BY <2>1, <2>2 DEF FreesPort, OwesCore, Installing
<1>6. ASSUME NEW p \in Procs,
             ApplyLoad(p) \/ Refused(p) \/ SameAsLive(p) \/ SaveDeployed(p)
             \/ StartEndpoint(p)
      PROVE  Same /\ Aloof(p)
  <2>1. Same /\ task[p].pc \in {"apply", "install", "deployed", "endpoint"}
    BY <1>6 DEF ApplyLoad, Refused, SameAsLive, SaveDeployed, StartEndpoint, services,
       pairs, At
  <2>2. task'[p].pc \in {"install", "idle", "deployed", "endpoint"}
    BY <1>6, DeployTurns DEF Reset, Starts
  <2>3. QED
    BY <2>1, <2>2 DEF FreesPort, OwesCore, Installing
<1>7. ASSUME NEW p \in Procs, Install(p), Alone(p)
      PROVE  CoreInv'
  <2>1. UNCHANGED <<key, chain>> /\ task[p].pc = "install"
    BY <1>7 DEF Install, pairs, At
  <2>2. task'[p].pc \in {"deployed", "idle"}
    BY <1>7, DeployTurns DEF Reset
  <2>3. ~FreesPort(task'[p]) /\ ~OwesCore(task[p])
    BY <2>1, <2>2 DEF FreesPort, OwesCore, Installing
  <2>4. core' = core \/ CoreStarts(p, ResolveActive(task[p].cfg.domain))
    BY <1>7 DEF Install
  <2>5. ResolveActive(task[p].cfg.domain) \in Domains \cup {NoDomain}
    <3>1. task[p].cfg.domain \in Domains \cup {NoDomain}
      BY <1>0 DEF Task, Conf
    <3>2. QED
      BY <3>1, ResolveType
  <2>6. QED
    BY <1>0, <1>7, <2>1, <2>3, <2>4, <2>5, CoreKept, CoreRestarted
<1>8. ASSUME NEW p \in Procs,
             RenewSkips(p) \/ RenewOne(p) \/ RenewFails(p) \/ Renewed(p)
      PROVE  Same /\ Keeps(p)
  <2>1. Same /\ task[p].pc = "renew"
    BY <1>8 DEF RenewSkips, RenewOne, RenewFails, Renewed, services, pairs, At
  <2>2. task[p].kind = "renew"
    BY <1>0, <2>1 DEF Shaped
  <2>3. \/ Reset(task'[p]) /\ ~task[p].renewed
        \/ /\ task'[p].pc \in {"renew", "key", "reload"} /\ task'[p].kind = "renew"
           /\ task[p].renewed => task'[p].renewed
    BY <1>8, <2>2, RenewTurns DEF Stays
  <2>4. QED
    BY <2>1, <2>3 DEF FreesPort, OwesCore, Installing, Reset
<1>9. ASSUME NEW p \in Procs, ReloadCore(p), Alone(p)
      PROVE  CoreInv'
  <2>1. UNCHANGED <<key, chain>> /\ task[p].pc = "reload"
    BY <1>9 DEF ReloadCore, pairs, At
  <2>2. task'[p].pc = "reloadEndpoint"
    BY <1>9, RenewTurns
  <2>3. ~FreesPort(task'[p])
    BY <2>2 DEF FreesPort, Installing
  <2>4. CASE core.up /\ ~task[p].cancelled
    <3>1. CoreStarts(p, doc)
      BY <1>9, <2>4 DEF ReloadCore
    <3>2. QED
      BY <1>0, <1>9, <2>1, <2>3, <3>1, CoreRestarted
  <2>5. CASE ~(core.up /\ ~task[p].cancelled)
    <3>1. core' = core /\ Excuse(When(task[p].cancelled, "left"))
      BY <1>9, <2>5 DEF ReloadCore
    <3>2. Outdated(core) => "left" \in excuse'
      BY <2>5, <3>1 DEF Outdated, Excuse, When
    <3>3. QED
      BY <1>0, <1>9, <2>1, <2>3, <3>1, <3>2, CoreKept
  <2>6. QED
    BY <2>4, <2>5
<1>10. ASSUME NEW p \in Procs,
              \/ ReloadEndpoint(p) \/ ClearActive(p) \/ SwitchCert(p)
              \/ SavePort(p) \/ CloseForm(p)
       PROVE  Same /\ Aloof(p)
  <2>1. Same /\ task[p].pc \in {"reloadEndpoint", "clear"} \cup Forms
    BY <1>10 DEF ReloadEndpoint, ClearActive, SwitchCert, SavePort, CloseForm, services,
       pairs, At, Forms
  <2>2. task'[p].pc \in {"apply", "idle"}
    BY <1>10, RenewTurns, AnswersTurns DEF Reset, Starts
  <2>3. QED
    BY <2>1, <2>2 DEF FreesPort, OwesCore, Installing, Forms
<1>11. ASSUME NEW p \in Procs,
              \/ StartIssue(p) \/ StartDeploy(p) \/ OpenSwitch(p) \/ OpenRemove(p)
              \/ OpenPort(p) \/ ToggleTimer(p) \/ StartRenew(p)
       PROVE  Same /\ Aloof(p)
  <2>1. Same
    BY <1>11 DEF StartIssue, StartDeploy, OpenSwitch, OpenRemove, OpenPort,
       ToggleTimer, StartRenew, services, pairs
  <2>2. task[p].pc = "idle"
    BY <1>11 DEF StartIssue, StartDeploy, OpenSwitch, OpenRemove, OpenPort,
       ToggleTimer, StartRenew, Ready
  <2>3. ToggleTimer(p) => task' = task
    BY DEF ToggleTimer
  <2>4. task'[p].pc \notin Installing \cup {"check"}
    BY <1>11, <2>2, <2>3, OperatorTurns DEF Starts, Installing
  <2>5. QED
    BY <2>1, <2>2, <2>4 DEF FreesPort, OwesCore, Installing
<1>12. ASSUME NEW p \in Procs, OperatorStop(p) \/ OperatorStart(p), Alone(p)
       PROVE  CoreInv'
  <2>1. UNCHANGED <<key, chain>> /\ task' = task /\ task[p].pc = "idle"
    BY <1>12 DEF OperatorStop, OperatorStart, pairs, Ready
  <2>2. ~FreesPort(task'[p]) /\ ~OwesCore(task[p])
    BY <2>1 DEF FreesPort, OwesCore, Installing
  <2>3. ~core'.up \/ CoreStarts(p, doc)
    BY <1>0, <1>12 DEF OperatorStop, OperatorStart, Service
  <2>4. QED
    BY <1>0, <1>12, <2>1, <2>2, <2>3, CoreKept, CoreRestarted
<1>13. ASSUME NEW p \in Procs, Cancel(p)
       PROVE  Same /\ Keeps(p)
  <2>1. Same
    BY <1>13 DEF Cancel, services, pairs
  <2>2. /\ task'[p].pc = task[p].pc /\ task'[p].kind = task[p].kind
        /\ task'[p].domain = task[p].domain /\ task'[p].renewed = task[p].renewed
        /\ task'[p].cancelled
    BY <1>13, OtherTurns
  <2>3. QED
    BY <2>1, <2>2 DEF FreesPort, OwesCore
<1>14. ASSUME NEW p \in Procs, Kill(p)
       PROVE  Same /\ Keeps(p)
  <2>1. Same
    BY <1>14 DEF Kill, services, pairs
  <2>2. ~FreesPort(task'[p])
    BY <1>14, OtherTurns DEF FreesPort, Installing, Reset
  <2>3. OwesCore(task[p]) => "left" \in excuse'
    BY <1>14 DEF Kill, OwesCore, Excuse, When, Issuing
  <2>4. QED
    BY <2>1, <2>2, <2>3
<1>15. ASSUME NEW p \in Procs, Steps(p) \/ Answers(p) \/ Operator(p) \/ Cancel(p)
                               \/ Kill(p)
       PROVE  CoreInv'
  <2>1. Alone(p)
    BY <1>15, StepsAlone
  <2>2. Same /\ (Keeps(p) \/ Aloof(p)) => CoreInv'
    BY <1>0, <2>1, CoreKept
  <2>3. WriteKey(p) \/ WriteChain(p) \/ RemovePair(p) => CoreInv'
    BY <1>0, <2>1, CoreKeyed, CoreChained, CoreUnpaired
  <2> HIDE DEF Same, Keeps, Aloof
  <2>4. CASE Account(p) \/ Issue(p)
    BY <1>1, <1>2, <1>3, <1>4, <1>5, <2>1, <2>2, <2>3, <2>4 DEF Issue
  <2>5. CASE Deploy(p) \/ Renew(p) \/ ClearActive(p) \/ Answers(p)
    BY <1>6, <1>7, <1>8, <1>9, <1>10, <2>1, <2>2, <2>3, <2>5
       DEF Deploy, Renew, Answers
  <2>6. CASE Operator(p) \/ Cancel(p) \/ Kill(p)
    BY <1>11, <1>12, <1>13, <1>14, <2>1, <2>2, <2>6 DEF Operator
  <2>7. QED
    BY <1>15, <2>4, <2>5, <2>6 DEF Steps
<1>16. CASE StartProvision
  <2>1. Same /\ Script \in Procs /\ Alone(Script) /\ task[Script].pc = "idle"
    BY <1>16, Own DEF StartProvision, services, pairs, Procs, Alone, Aside
  <2>2. Aloof(Script)
    BY <1>16, <2>1, OtherTurns DEF FreesPort, OwesCore, Installing
  <2>3. QED
    BY <1>0, <2>1, <2>2, CoreKept
<1>17. CASE Nightly
  <2>1. Same /\ Timer \in Procs /\ Alone(Timer) /\ task[Timer].pc = "idle"
    BY <1>17, Own DEF Nightly, services, pairs, Procs, Alone, Aside
  <2>2. Aloof(Timer)
    BY <1>17, <2>1, OtherTurns DEF FreesPort, OwesCore, Installing, Starts
  <2>3. QED
    BY <1>0, <2>1, <2>2, CoreKept
<1>18. CASE UNCHANGED vars \/ EndpointRetries \/ \E d \in Domains : Ages(d)
  <2>1. UNCHANGED <<key, chain, core, task, excuse>>
    BY <1>18 DEF vars, EndpointRetries, Ages, history, services, pairs
  <2>2. QED
    BY <2>1 DEF CoreInv, DownMeanwhile, RestartedLater, FreesPort, OwesCore, Outdated,
       HasPair
<1>19. QED
  BY <1>15, <1>16, <1>17, <1>18 DEF Next

-----------------------------------------------------------------------------
(***************************************************************************)
(* What the subscription service runs on.  It runs on a deployed host; if  *)
(* its pair was replaced, the task that did it is on its way to restart    *)
(* it, through the settings and the deployment.                            *)
(***************************************************************************)
OwesEndpoint(t) ==
    \/ t.renewed /\ t.pc \in Installing \cup {"renew", "reload", "reloadEndpoint"}
    \/ t.pc = "chain" /\ t.domain = ep.domain
    \/ t.pc = "start" /\ t.ok /\ t.domain = ep.domain
    \/ t.pc \in {"save", "endpoint"}
    \/ t.pc \in {"apply", "install", "deployed"} /\ t.kind # "deploy"

ServesDeployed ==
    ep.up \/ EndpointFailed \/ (\E p \in Procs : At(p, "endpoint")) => conf.deployed

ServedLater ==
    "left" \notin excuse /\ Outdated(ep) => \E p \in Procs : OwesEndpoint(task[p])

EndpointInv == "stale" \notin excuse => ServesDeployed /\ ServedLater

\* The service initially runs on the pair that is there.
LEMMA EndpointInit == Init => EndpointInv
<1> SUFFICES ASSUME Init PROVE EndpointInv
  OBVIOUS
<1>1. \A p \in Procs : task[p] = Idle
  BY DEF Init
<1>2. \A p \in Procs : ~At(p, "endpoint")
  BY <1>1 DEF At, Idle
<1>3. ~Outdated(ep)
  BY DEF Init, Outdated, HasPair, Serial
<1>4. ep.up \/ EndpointFailed => conf.deployed
  <2>1. ep.up = conf.deployed /\ ep.domain = conf.domain
    BY DEF Init
  <2>2. conf.deployed \/ conf.domain = NoDomain
    <3>1. NoConf.domain = NoDomain
      BY DEF NoConf
    <3>2. [NoConf EXCEPT !.domain = 1, !.cert = 1, !.deployed = TRUE].deployed
      BY DEF NoConf
    <3>3. QED
      BY <3>1, <3>2 DEF Init
  <2>3. QED
    BY <2>1, <2>2 DEF EndpointFailed
<1>5. QED
  BY <1>2, <1>3, <1>4 DEF EndpointInv, ServesDeployed, ServedLater

\* What a process owes the service, it owes it until its own next step.
LEMMA OthersServe ==
    ASSUME TypeOK, NEW p \in Procs, NEW q \in Procs \ {p}, Alone(p)
    PROVE  /\ At(q, "endpoint")' <=> At(q, "endpoint")
           /\ OwesEndpoint(task[q]) /\ ep'.domain = ep.domain => OwesEndpoint(task[q])'
<1>1. Aside(task[q], task'[q]) /\ task[q] \in Task
  BY DEF Alone, TypeOK
<1>2. /\ task'[q].pc = task[q].pc /\ task'[q].kind = task[q].kind
      /\ task'[q].ok = task[q].ok /\ task'[q].renewed = task[q].renewed
      /\ task'[q].domain = task[q].domain
  BY <1>1 DEF Aside, Task
<1>3. QED
  BY <1>2 DEF At, OwesEndpoint

\* The settings stay those of a deployed host.
LEMMA StaysDeployed ==
    ASSUME TypeOK, EndpointInv, NEW p \in Procs, Alone(p), "stale" \notin excuse,
           ep' = ep \/ conf'.deployed,
           conf.deployed => conf'.deployed,
           task'[p].pc = "endpoint" => conf'.deployed
    PROVE  ServesDeployed'
<1>1. ServesDeployed
  BY DEF EndpointInv
<1>2. ep'.up \/ EndpointFailed' => conf'.deployed
  BY <1>1 DEF ServesDeployed, EndpointFailed
<1>3. ASSUME NEW q \in Procs, At(q, "endpoint")'
      PROVE  conf'.deployed
  <2>1. CASE q = p
    BY <1>3, <2>1 DEF At
  <2>2. CASE q # p
    BY <1>1, <1>3, <2>2, OthersServe DEF ServesDeployed
  <2>3. QED
    BY <2>1, <2>2
<1>4. QED
  BY <1>2, <1>3 DEF ServesDeployed

\* A step that leaves the service and the pairs alone.
LEMMA EndpointKept ==
    ASSUME TypeOK, EndpointInv, NEW p \in Procs, Alone(p), excuse \subseteq excuse',
           UNCHANGED <<key, chain, ep>>,
           "stale" \notin excuse' =>
               /\ conf.deployed => conf'.deployed
               /\ task'[p].pc = "endpoint" => conf'.deployed
               /\ Outdated(ep) /\ OwesEndpoint(task[p]) =>
                     OwesEndpoint(task[p])' \/ "left" \in excuse'
    PROVE  EndpointInv'
<1>1. SUFFICES ASSUME "stale" \notin excuse' PROVE ServesDeployed' /\ ServedLater'
  BY DEF EndpointInv
<1>2. ServesDeployed /\ ServedLater /\ "stale" \notin excuse
  BY <1>1 DEF EndpointInv
<1>3. ServesDeployed'
  BY <1>1, <1>2, StaysDeployed
<1>4. ServedLater'
  <2>1. SUFFICES ASSUME "left" \notin excuse', Outdated(ep)'
                 PROVE  \E q \in Procs : OwesEndpoint(task[q])'
    BY DEF ServedLater
  <2>2. Outdated(ep) /\ "left" \notin excuse
    BY <2>1 DEF Outdated, HasPair
  <2>3. PICK q \in Procs : OwesEndpoint(task[q])
    BY <1>2, <2>2 DEF ServedLater
  <2>4. QED
    BY <1>1, <2>1, <2>2, <2>3, OthersServe
<1>5. QED
  BY <1>3, <1>4

\* A start of the service on a deployed host.
LEMMA EndpointStarted ==
    ASSUME TypeOK, EndpointInv, NEW p \in Procs, Alone(p), excuse \subseteq excuse',
           EndpointStarts, UNCHANGED <<key, chain, conf>>,
           ep.up \/ task[p].pc = "endpoint", task'[p].pc # "endpoint"
    PROVE  EndpointInv'
<1>1. SUFFICES ASSUME "stale" \notin excuse' PROVE ServesDeployed' /\ ServedLater'
  BY DEF EndpointInv
<1>2. ServesDeployed /\ "stale" \notin excuse
  BY <1>1 DEF EndpointInv
<1>3. conf.deployed
  BY <1>2 DEF ServesDeployed, At
<1>4. ServesDeployed'
  BY <1>2, <1>3, StaysDeployed
<1>5. PICK d : ep' = [up |-> Loadable(d), domain |-> d, serial |-> Serial(d)]
  BY DEF EndpointStarts
<1>6. ~Outdated(ep)'
  BY <1>5 DEF Outdated, HasPair, Serial
<1>7. QED
  BY <1>4, <1>6 DEF ServedLater

\* The key of an installation may complete a pair that the service runs without.
LEMMA EndpointKeyed ==
    ASSUME TypeOK, Shapes, EndpointInv, NEW p \in Procs, Alone(p), WriteKey(p),
           excuse \subseteq excuse'
    PROVE  EndpointInv'
<1>1. SUFFICES ASSUME "stale" \notin excuse' PROVE ServesDeployed' /\ ServedLater'
  BY DEF EndpointInv
<1>2. ServesDeployed /\ ServedLater /\ "stale" \notin excuse
  BY <1>1 DEF EndpointInv
<1>3. /\ task[p].pc = "key" /\ task'[p].pc = "chain" /\ Stays(task[p], task'[p])
      /\ ep' = ep /\ chain' = chain /\ conf' = conf
      /\ \A e \in Domains \ {task[p].domain} : key'[e] = key[e]
  BY IssueTurns, ZenonT(60) DEF WriteKey, At, TypeOK, services
<1>4. ServesDeployed'
  BY <1>2, <1>3, StaysDeployed
<1>5. ServedLater'
  <2>1. SUFFICES ASSUME "left" \notin excuse', Outdated(ep)'
                 PROVE  \E q \in Procs : OwesEndpoint(task[q])'
    BY DEF ServedLater
  <2>2. CASE task[p].domain = ep.domain
    BY <1>3, <2>2 DEF OwesEndpoint, Stays
  <2>3. CASE task[p].domain # ep.domain
    <3>1. ep.domain \in Domains
      BY <1>3, <2>1 DEF Outdated, HasPair, TypeOK, Service
    <3>2. Outdated(ep) /\ "left" \notin excuse
      BY <1>3, <2>1, <2>3, <3>1 DEF Outdated, HasPair
    <3>3. PICK q \in Procs : OwesEndpoint(task[q])
      BY <1>2, <3>2 DEF ServedLater
    <3>4. OwesEndpoint(task[p]) => OwesEndpoint(task[p])'
      BY <1>3 DEF OwesEndpoint, Stays, Installing
    <3>5. QED
      BY <1>3, <3>3, <3>4, OthersServe
  <2>4. QED
    BY <2>2, <2>3
<1>6. QED
  BY <1>4, <1>5

\* Who writes a certificate under the service owes it a restart.
LEMMA EndpointChained ==
    ASSUME TypeOK, Shapes, EndpointInv, NEW p \in Procs, Alone(p), WriteChain(p),
           excuse \subseteq excuse'
    PROVE  EndpointInv'
<1>1. SUFFICES ASSUME "stale" \notin excuse' PROVE ServesDeployed' /\ ServedLater'
  BY DEF EndpointInv
<1>2. ServesDeployed /\ ServedLater /\ "stale" \notin excuse
  BY <1>1 DEF EndpointInv
<1>3. /\ task[p].pc = "chain" /\ ep' = ep /\ key' = key /\ conf' = conf
      /\ \A e \in Domains \ {task[p].domain} : chain'[e] = chain[e]
  BY DEF WriteChain, At, TypeOK, services
<1>4. IF task[p].kind = "renew" THEN task'[p].renewed /\ task'[p].pc = "renew"
      ELSE Stays(task[p], task'[p]) /\ task'[p].pc = "start"
  BY IssueTurns
<1>5. /\ task[p].kind # "renew" => task[p].ok
      /\ task[p].renewed => task[p].kind = "renew"
  BY <1>3 DEF Shapes, Shaped, Installing
<1>6. ServesDeployed'
  BY <1>2, <1>3, <1>4, StaysDeployed
<1>7. ServedLater'
  <2>1. SUFFICES ASSUME "left" \notin excuse', Outdated(ep)'
                 PROVE  \E q \in Procs : OwesEndpoint(task[q])'
    BY DEF ServedLater
  <2>2. CASE task[p].kind = "renew"
    BY <1>4, <2>2 DEF OwesEndpoint
  <2>3. CASE task[p].kind # "renew" /\ task[p].domain = ep.domain
    BY <1>3, <1>4, <1>5, <2>3 DEF OwesEndpoint, Stays
  <2>4. CASE task[p].kind # "renew" /\ task[p].domain # ep.domain
    <3>1. ep.domain \in Domains
      BY <1>3, <2>1 DEF Outdated, HasPair, TypeOK, Service
    <3>2. Outdated(ep) /\ "left" \notin excuse
      BY <1>3, <2>1, <2>4, <3>1 DEF Outdated, HasPair
    <3>3. PICK q \in Procs : OwesEndpoint(task[q])
      BY <1>2, <3>2 DEF ServedLater
    <3>4. ~OwesEndpoint(task[p])
      BY <1>3, <1>5, <2>4 DEF OwesEndpoint
    <3>5. QED
      BY <1>3, <3>3, <3>4, OthersServe
  <2>5. QED
    BY <2>2, <2>3, <2>4
<1>8. QED
  BY <1>6, <1>7

\* Without a pair there is nothing to be served.
LEMMA EndpointUnpaired ==
    ASSUME TypeOK, EndpointInv, NEW p \in Procs, Alone(p), RemovePair(p),
           excuse \subseteq excuse'
    PROVE  EndpointInv'
<1>1. SUFFICES ASSUME "stale" \notin excuse' PROVE ServesDeployed' /\ ServedLater'
  BY DEF EndpointInv
<1>2. ServesDeployed /\ ServedLater /\ "stale" \notin excuse
  BY <1>1 DEF EndpointInv
<1>3. /\ task[p].pc = "remove" /\ ep' = ep /\ conf' = conf
      /\ task'[p].pc \in {"clear", "idle"}
  BY AnswersTurns DEF RemovePair, At, services, Reset
<1>4. ServesDeployed'
  BY <1>2, <1>3, StaysDeployed
<1>5. ServedLater'
  <2>1. SUFFICES ASSUME "left" \notin excuse', Outdated(ep)'
                 PROVE  \E q \in Procs : OwesEndpoint(task[q])'
    BY DEF ServedLater
  <2>2. PICK c \in Domains : c = ep.domain
    BY <1>3, <2>1 DEF Outdated, HasPair, TypeOK, Service
  <2>3. c # task[p].domain
    BY <1>3, <2>1, <2>2 DEF Outdated, HasPair, RemovePair, TypeOK
  <2>4. key'[c] = key[c] /\ chain'[c] = chain[c]
    BY <2>3 DEF RemovePair, TypeOK
  <2>5. Outdated(ep) /\ "left" \notin excuse
    BY <1>3, <2>1, <2>2, <2>4 DEF Outdated, HasPair
  <2>6. PICK q \in Procs : OwesEndpoint(task[q])
    BY <1>2, <2>5 DEF ServedLater
  <2>7. ~OwesEndpoint(task[p])
    BY <1>3 DEF OwesEndpoint, Installing
  <2>8. QED
    BY <1>3, <2>6, <2>7, OthersServe
<1>6. QED
  BY <1>4, <1>5

\* Every step keeps the service on the pair that is there, or owes it a restart.
LEMMA EndpointStep ==
    ASSUME TypeOK, Shapes, SettingsInv, EndpointInv, [Next]_vars
    PROVE  EndpointInv'
<1>0. /\ \A p \in Procs : task[p] \in Task /\ Shaped(task[p]) /\ CopyFits(task[p])
      /\ conf \in Conf /\ ep \in Service /\ excuse \subseteq excuse'
  BY ExcusesStay DEF TypeOK, Shapes, SettingsInv
<1> DEFINE Same == UNCHANGED <<key, chain, ep>>
           Owes(p) == Outdated(ep) /\ OwesEndpoint(task[p]) =>
                         OwesEndpoint(task[p])' \/ "left" \in excuse'
           Keeps(p) == conf' = conf /\ task'[p].pc # "endpoint" /\ Owes(p)
           Saves(p) == "stale" \notin excuse' =>
                         /\ conf.deployed => conf'.deployed
                         /\ task'[p].pc = "endpoint" => conf'.deployed
                         /\ Owes(p)
\* Before a save that excuses nothing, the copy was the settings.
<1>0a. ASSUME NEW p \in Procs, NEW own, NEW copy, NEW t,
              SaveConf(p, copy, own, task[p].fresh, t), "stale" \notin excuse'
       PROVE  /\ conf' = copy /\ "stale" \notin excuse
              /\ task[p].kind # "provision" \/ task[p].pc = "deployed" =>
                    task[p].cfg = conf
              /\ task[p].cfg.deployed = conf.deployed
  <2>1. task[p].fresh /\ conf' = copy /\ "stale" \notin excuse
    BY <1>0a DEF SaveConf, Excuse, When
  <2>2. [conf EXCEPT !.port = task[p].cfg.port].deployed = conf.deployed
    BY <1>0 DEF Conf
  <2>3. \/ task[p].cfg = conf
        \/ /\ task[p].cfg = [conf EXCEPT !.port = task[p].cfg.port]
           /\ task[p].kind = "provision" /\ task[p].pc # "deployed"
    BY <1>0, <2>1 DEF CopyFits
  <2>4. QED
    BY <2>1, <2>2, <2>3
<1>0b. ASSUME "stale" \notin excuse, Outdated(ep)
       PROVE  conf.deployed
  BY <1>0b DEF EndpointInv, ServesDeployed, Outdated
<1>1. ASSUME NEW p \in Procs, Account(p)
      PROVE  Same /\ Keeps(p)
  <2>1. Same /\ conf' = conf
    BY <1>1 DEF Account, FindKey, FindNoKey, MintKey, KnownAccount, Register,
       WriteRegistration, NotRegistered, services, pairs
  <2>2. /\ task[p].pc \in {"account", "mint", "lookup", "record"}
        /\ task'[p].pc # "endpoint"
    BY <1>1, AccountTurns DEF Account, FindKey, FindNoKey, MintKey, KnownAccount,
       Register, WriteRegistration, NotRegistered, At, Reset
  <2>3. ~OwesEndpoint(task[p])
    BY <2>2 DEF OwesEndpoint, Installing
  <2>4. QED
    BY <2>1, <2>2, <2>3
<1>2. ASSUME NEW p \in Procs, Begin(p) \/ NotDue(p) \/ Obtain(p) \/ IssueFails(p)
      PROVE  Same /\ Keeps(p)
  <2>1. Same /\ conf' = conf /\ task[p].pc \in {"begin", "check"}
    BY <1>2 DEF Begin, NotDue, Obtain, IssueFails, services, pairs, At
  <2>2. task'[p].pc \in {"check", "start", "key"}
    BY <1>2, IssueTurns
  <2>3. ~OwesEndpoint(task[p])
    BY <2>1 DEF OwesEndpoint, Installing
  <2>4. QED
    BY <2>1, <2>2, <2>3
<1>3. ASSUME NEW p \in Procs, StartCore(p)
      PROVE  Same /\ Keeps(p)
  <2>1. Same /\ conf' = conf /\ task[p].pc = "start"
    BY <1>3 DEF StartCore, pairs, At
  <2>2. task'[p].pc \in {"save", "idle"}
    BY <1>3, IssueTurns DEF Reset
  <2>3. task[p].ok /\ HasPair(task[p].domain) => task'[p].pc = "save"
    BY <1>3, IssueTurns
  <2>4. Outdated(ep) /\ OwesEndpoint(task[p]) =>
          task[p].ok /\ HasPair(task[p].domain)
    BY <2>1 DEF OwesEndpoint, Outdated, Installing
  <2>5. task'[p].pc = "save" => OwesEndpoint(task[p])'
    BY DEF OwesEndpoint
  <2>6. QED
    BY <2>1, <2>2, <2>3, <2>4, <2>5
<1>4. ASSUME NEW p \in Procs, SaveIssued(p)
      PROVE  Same /\ Saves(p)
  <2>1. Same
    BY <1>4 DEF SaveIssued, pairs
  <2>2. PICK own, t : SaveConf(p, Activated(task[p].cfg, task[p].domain), own,
                               task[p].fresh, t)
    BY <1>4 DEF SaveIssued
  <2>3. task[p].cfg \in Conf
    BY <1>0 DEF Task
  <2>4. Activated(task[p].cfg, task[p].domain).deployed = task[p].cfg.deployed
    BY <2>3 DEF Activated, Conf
  <2>5. IF task[p].cfg.deployed THEN Starts(task'[p], "apply", "issue")
        ELSE Reset(task'[p])
    BY <1>4, IssueTurns
  <2>6. SUFFICES ASSUME "stale" \notin excuse' PROVE Saves(p)
    BY <2>1
  <2>7. /\ conf'.deployed = conf.deployed /\ "stale" \notin excuse
        /\ task[p].cfg.deployed = conf.deployed
    BY <1>0a, <2>2, <2>4, <2>6
  <2>8. Outdated(ep) => OwesEndpoint(task[p])'
    BY <1>0b, <2>5, <2>7 DEF Starts, OwesEndpoint
  <2>9. task'[p].pc # "endpoint"
    BY <2>5 DEF Starts, Reset
  <2>10. QED
    BY <2>7, <2>8, <2>9
<1>5. ASSUME NEW p \in Procs, SaveProvision(p)
      PROVE  Same /\ Saves(p)
  <2>1. Same
    BY <1>5 DEF SaveProvision, pairs
  <2>2. PICK own, t :
          SaveConf(p, Activated([task[p].cfg EXCEPT !.port = task[p].cfg.port],
                                task[p].domain), own, task[p].fresh, t)
    BY <1>5 DEF SaveProvision
  <2>3. task[p].cfg \in Conf
    BY <1>0 DEF Task
  <2>4. Activated([task[p].cfg EXCEPT !.port = task[p].cfg.port],
                  task[p].domain).deployed = task[p].cfg.deployed
    BY <2>3 DEF Activated, Conf
  <2>5. task'[p].pc = "install" /\ task'[p].kind = "provision"
    BY <1>5, IssueTurns
  <2>6. OwesEndpoint(task[p])'
    BY <2>5 DEF OwesEndpoint
  <2>7. "stale" \notin excuse' => conf'.deployed = conf.deployed
    BY <1>0a, <2>2, <2>4
  <2>8. QED
    BY <2>1, <2>5, <2>6, <2>7
<1>6. ASSUME NEW p \in Procs, ApplyLoad(p) \/ Refused(p) \/ SameAsLive(p) \/ Install(p)
      PROVE  Same /\ Keeps(p)
  <2>1. Same /\ conf' = conf /\ task[p].pc \in {"apply", "install"}
    BY <1>6 DEF ApplyLoad, Refused, SameAsLive, Install, services, pairs, At
  <2>2. Refused(p) \/ (Install(p) /\ task[p].cancelled) => "left" \in excuse'
    BY DEF Refused, Install, Excuse
  <2>3. \/ Reset(task'[p]) /\ (Refused(p) \/ (Install(p) /\ task[p].cancelled))
        \/ /\ task'[p].pc \in {"install", "deployed"}
           /\ task'[p].kind = task[p].kind
    BY <1>6, DeployTurns DEF Stays
  <2>4. OwesEndpoint(task[p]) => task[p].kind # "deploy"
    BY <2>1 DEF OwesEndpoint, Installing
  <2>5. QED
    BY <2>1, <2>2, <2>3, <2>4 DEF OwesEndpoint, Reset
<1>7. ASSUME NEW p \in Procs, SaveDeployed(p)
      PROVE  Same /\ Saves(p)
  <2>1. Same /\ task[p].pc = "deployed"
    BY <1>7 DEF SaveDeployed, pairs, services, At
  <2>2. PICK own, t : SaveConf(p, [task[p].cfg EXCEPT !.deployed = TRUE], own,
                               task[p].fresh, t)
    BY <1>7 DEF SaveDeployed
  <2>3. conf'.deployed
    <3>1. [task[p].cfg EXCEPT !.deployed = TRUE].deployed
      BY <1>0 DEF Task, Conf
    <3>2. QED
      BY <2>2, <3>1 DEF SaveConf
  <2>4. task[p].kind # "deploy" => task'[p].pc = "endpoint"
    BY <1>7, DeployTurns DEF Starts
  <2>5. OwesEndpoint(task[p]) => task[p].kind # "deploy"
    BY <2>1 DEF OwesEndpoint, Installing
  <2>6. QED
    BY <2>1, <2>3, <2>4, <2>5 DEF OwesEndpoint
<1>8. ASSUME NEW p \in Procs, StartEndpoint(p), Alone(p)
      PROVE  EndpointInv'
  <2>1. UNCHANGED <<key, chain, conf>> /\ task[p].pc = "endpoint"
    BY <1>8 DEF StartEndpoint, pairs, At
  <2>2. task'[p].pc = "idle"
    BY <1>8, DeployTurns DEF Reset
  <2>3. EndpointStarts \/ (ep' = ep /\ "left" \in excuse')
    BY <1>8 DEF StartEndpoint, Excuse
  <2>4. QED
    BY <1>0, <1>8, <2>1, <2>2, <2>3, EndpointStarted, EndpointKept
<1>9. ASSUME NEW p \in Procs,
             RenewSkips(p) \/ RenewOne(p) \/ RenewFails(p) \/ Renewed(p)
      PROVE  Same /\ Keeps(p)
  <2>1. Same /\ conf' = conf /\ task[p].pc = "renew"
    BY <1>9 DEF RenewSkips, RenewOne, RenewFails, Renewed, services, pairs, At
  <2>2. \/ Reset(task'[p]) /\ ~task[p].renewed
        \/ /\ task'[p].pc \in {"renew", "key", "reload"}
           /\ task[p].renewed => task'[p].renewed
    BY <1>9, RenewTurns DEF Stays
  <2>3. OwesEndpoint(task[p]) => task[p].renewed
    BY <2>1 DEF OwesEndpoint
  <2>4. QED
    BY <2>1, <2>2, <2>3 DEF OwesEndpoint, Installing, Reset
<1>10. ASSUME NEW p \in Procs, ReloadCore(p)
       PROVE  Same /\ Keeps(p)
  <2>1. Same /\ conf' = conf /\ task[p].pc = "reload"
    BY <1>10 DEF ReloadCore, pairs, At
  <2>2. task'[p].pc = "reloadEndpoint" /\ task'[p].renewed = task[p].renewed
    BY <1>10, RenewTurns DEF Stays
  <2>3. QED
    BY <2>1, <2>2 DEF OwesEndpoint
<1>11. ASSUME NEW p \in Procs, ReloadEndpoint(p), Alone(p)
       PROVE  EndpointInv'
  <2>1. UNCHANGED <<key, chain, conf>>
    BY <1>11 DEF ReloadEndpoint, pairs
  <2>2. task'[p].pc = "idle"
    BY <1>11, RenewTurns DEF Reset
  <2>3. CASE ep.up /\ ~task[p].cancelled
    <3>1. EndpointStarts
      BY <1>11, <2>3 DEF ReloadEndpoint
    <3>2. QED
      BY <1>0, <1>11, <2>1, <2>2, <2>3, <3>1, EndpointStarted
  <2>4. CASE ~(ep.up /\ ~task[p].cancelled)
    <3>1. ep' = ep /\ (task[p].cancelled => "left" \in excuse')
      BY <1>11, <2>4 DEF ReloadEndpoint, Excuse, When
    <3>2. Outdated(ep) => "left" \in excuse'
      BY <2>4, <3>1 DEF Outdated
    <3>3. QED
      BY <1>0, <1>11, <2>1, <2>2, <3>1, <3>2, EndpointKept
  <2>5. QED
    BY <2>3, <2>4
<1>12. ASSUME NEW p \in Procs,
              ClearActive(p) \/ SwitchCert(p) \/ SavePort(p) \/ CloseForm(p)
       PROVE  Same /\ Saves(p)
  <2>1. Same /\ task[p].pc \in {"clear"} \cup Forms
    BY <1>12 DEF ClearActive, SwitchCert, SavePort, CloseForm, services, pairs, At,
       Forms
  <2>2. task'[p].pc \in {"apply", "idle"}
    BY <1>12, AnswersTurns DEF Reset, Starts
  <2>3. ~OwesEndpoint(task[p])
    BY <2>1 DEF OwesEndpoint, Installing, Forms
  <2>4. ASSUME "stale" \notin excuse'
        PROVE  conf'.deployed = conf.deployed
    <3>1. CASE ClearActive(p) \/ SwitchCert(p)
      <4>1. conf' \in {Cleared(conf, task[p].domain), Activated(conf, task[p].domain)}
        BY <3>1 DEF ClearActive, SwitchCert, SaveConf
      <4>2. QED
        BY <1>0, <4>1 DEF Cleared, Activated, Conf
    <3>2. CASE SavePort(p)
      <4>1. PICK v \in SubPorts : \E own, t :
              SaveConf(p, [task[p].cfg EXCEPT !.port = v], own, task[p].fresh, t)
        BY <3>2 DEF SavePort
      <4>2. /\ conf' = [task[p].cfg EXCEPT !.port = v]
            /\ task[p].cfg.deployed = conf.deployed
        BY <1>0a, <2>4, <4>1
      <4>3. task[p].cfg \in Conf
        BY <1>0 DEF Task
      <4>4. QED
        BY <4>2, <4>3 DEF Conf
    <3>3. CASE CloseForm(p)
      BY <3>3 DEF CloseForm
    <3>4. QED
      BY <1>12, <3>1, <3>2, <3>3
  <2>5. QED
    BY <2>1, <2>2, <2>3, <2>4
<1>13. ASSUME NEW p \in Procs,
              \/ StartIssue(p) \/ StartDeploy(p) \/ OpenSwitch(p) \/ OpenRemove(p)
              \/ OpenPort(p) \/ ToggleTimer(p) \/ StartRenew(p)
              \/ OperatorStop(p) \/ OperatorStart(p)
       PROVE  Same /\ Keeps(p)
  <2>1. Same /\ conf' = conf
    BY <1>13 DEF StartIssue, StartDeploy, OpenSwitch, OpenRemove, OpenPort,
       ToggleTimer, StartRenew, OperatorStop, OperatorStart, services, pairs
  <2>2. task[p].pc = "idle"
    BY <1>13 DEF StartIssue, StartDeploy, OpenSwitch, OpenRemove, OpenPort,
       ToggleTimer, StartRenew, OperatorStop, OperatorStart, Ready
  <2>3. ToggleTimer(p) \/ OperatorStop(p) \/ OperatorStart(p) => task' = task
    BY DEF ToggleTimer, OperatorStop, OperatorStart
  <2>4. task'[p].pc # "endpoint"
    BY <1>13, <2>2, <2>3, OperatorTurns DEF Starts
  <2>5. ~OwesEndpoint(task[p])
    BY <2>2 DEF OwesEndpoint, Installing
  <2>6. QED
    BY <2>1, <2>4, <2>5
<1>14. ASSUME NEW p \in Procs, Cancel(p)
       PROVE  Same /\ Saves(p)
  <2>1. Same /\ conf' = conf
    BY <1>14 DEF Cancel, services, pairs
  <2>2. /\ task'[p].pc = task[p].pc /\ task'[p].kind = task[p].kind
        /\ task'[p].domain = task[p].domain /\ task'[p].renewed = task[p].renewed
        /\ task'[p].ok = task[p].ok
    BY <1>14, OtherTurns
  <2>3. OwesEndpoint(task[p]) => OwesEndpoint(task[p])'
    BY <2>1, <2>2 DEF OwesEndpoint
  <2>4. "stale" \notin excuse' /\ task'[p].pc = "endpoint" => conf'.deployed
    BY <1>0, <2>1, <2>2 DEF EndpointInv, ServesDeployed, At
  <2>5. QED
    BY <2>1, <2>3, <2>4
<1>15. ASSUME NEW p \in Procs, Kill(p)
       PROVE  Same /\ Keeps(p)
  <2>1. Same /\ conf' = conf
    BY <1>15 DEF Kill, services, pairs
  <2>2. task'[p].pc # "endpoint"
    BY <1>15, OtherTurns DEF Reset
  <2>3. OwesEndpoint(task[p]) => "left" \in excuse'
    BY <1>15 DEF Kill, OwesEndpoint, Excuse, When, Issuing
  <2>4. QED
    BY <2>1, <2>2, <2>3
<1>16. ASSUME NEW p \in Procs, Steps(p) \/ Answers(p) \/ Operator(p) \/ Cancel(p)
                               \/ Kill(p)
       PROVE  EndpointInv'
  <2>1. Alone(p)
    BY <1>16, StepsAlone
  <2>2. Same /\ (Keeps(p) \/ Saves(p)) => EndpointInv'
    BY <1>0, <2>1, EndpointKept
  <2>3. WriteKey(p) \/ WriteChain(p) \/ RemovePair(p) => EndpointInv'
    BY <1>0, <2>1, EndpointKeyed, EndpointChained, EndpointUnpaired
  <2> HIDE DEF Same, Keeps, Saves
  <2>4. CASE Account(p) \/ Issue(p)
    BY <1>1, <1>2, <1>3, <1>4, <1>5, <2>2, <2>3, <2>4 DEF Issue
  <2>5. CASE Deploy(p) \/ Renew(p) \/ ClearActive(p) \/ Answers(p)
    BY <1>6, <1>7, <1>8, <1>9, <1>10, <1>11, <1>12, <2>1, <2>2, <2>3, <2>5
       DEF Deploy, Renew, Answers
  <2>6. CASE Operator(p) \/ Cancel(p) \/ Kill(p)
    BY <1>13, <1>14, <1>15, <2>2, <2>6 DEF Operator
  <2>7. QED
    BY <1>16, <2>4, <2>5, <2>6 DEF Steps
<1>17. CASE StartProvision
  <2>1. Same /\ Script \in Procs /\ Alone(Script) /\ task[Script].pc = "idle"
        /\ conf' = conf
    BY <1>17, Own DEF StartProvision, services, pairs, Procs, Alone, Aside
  <2>2. task'[Script].pc # "endpoint" /\ ~OwesEndpoint(task[Script])
    BY <1>17, <2>1, OtherTurns DEF OwesEndpoint, Installing
  <2>3. QED
    BY <1>0, <2>1, <2>2, EndpointKept
<1>18. CASE Nightly
  <2>1. Same /\ Timer \in Procs /\ Alone(Timer) /\ task[Timer].pc = "idle"
        /\ conf' = conf
    BY <1>18, Own DEF Nightly, services, pairs, Procs, Alone, Aside
  <2>2. task'[Timer].pc # "endpoint" /\ ~OwesEndpoint(task[Timer])
    BY <1>18, <2>1, OtherTurns DEF OwesEndpoint, Installing, Starts
  <2>3. QED
    BY <1>0, <2>1, <2>2, EndpointKept
<1>19. CASE UNCHANGED vars \/ \E d \in Domains : Ages(d)
  <2>1. UNCHANGED <<key, chain, ep, task, excuse, conf>>
    BY <1>19 DEF vars, Ages, history, services, pairs
  <2>2. QED
    BY <2>1 DEF EndpointInv, ServesDeployed, ServedLater, OwesEndpoint, Outdated,
       HasPair, EndpointFailed, At
<1>21. CASE EndpointRetries
  <2>1. UNCHANGED <<key, chain, task, excuse, conf>> /\ EndpointFailed
    BY <1>21 DEF EndpointRetries, history, pairs
  <2>2. PICK d : ep' = [up |-> Loadable(d), domain |-> d, serial |-> Serial(d)]
    BY <1>21 DEF EndpointRetries, EndpointStarts
  <2>3. ~Outdated(ep)'
    BY <2>1, <2>2 DEF Outdated, HasPair, Serial
  <2>4. QED
    BY <2>1, <2>3 DEF EndpointInv, ServesDeployed, ServedLater, At
<1>20. QED
  BY <1>16, <1>17, <1>18, <1>19, <1>21 DEF Next

\* What runs has loaded the pair that is on disk, whichever process replaced it
\* and whatever else failed (RenewedIsServed).
THEOREM ServedIsRenewed == Spec => []RenewedIsServed
<1>1. TypeOK /\ Shapes /\ SettingsInv /\ [Next]_vars => SettingsInv'
  BY SettingsStep
<1>2. TypeOK /\ Shapes /\ CoreInv /\ [Next]_vars => CoreInv'
  BY CoreStep
<1>3. TypeOK /\ Shapes /\ SettingsInv /\ EndpointInv /\ [Next]_vars => EndpointInv'
  BY EndpointStep
<1>4. CoreInv /\ EndpointInv => RenewedIsServed
  <2>1. SUFFICES ASSUME CoreInv, EndpointInv, Quiet,
                        excuse \cap {"left", "shadowed", "stale"} = {}
                 PROVE  ~Outdated(core) /\ ~Outdated(ep)
    BY DEF RenewedIsServed, Outdated
  <2>2. "left" \notin excuse /\ RestartedLater /\ ServedLater
    BY <2>1 DEF CoreInv, EndpointInv
  <2>3. \A p \in Procs : ~OwesCore(task[p]) /\ ~OwesEndpoint(task[p])
    BY <2>1 DEF Quiet, OwesCore, OwesEndpoint, Working, Issuing, Installing
  <2>4. QED
    BY <2>2, <2>3 DEF RestartedLater, ServedLater
<1>5. QED
  BY <1>1, <1>2, <1>3, <1>4, TypeCorrect, ShapesAlways, SettingsInit, CoreInit,
     EndpointInit, PTL DEF Spec

=====
