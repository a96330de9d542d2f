------------------------------- MODULE Trace -------------------------------
(***************************************************************************)
(* The return-path tool (internal/toolbox/backtrace).  A worker per target *)
(* walks the TTLs of a traceroute, a few workers at a time, all of them    *)
(* over one raw ICMP socket: the TTL is an option of that socket, and one  *)
(* reader hands every reply to the probe whose sequence number it carries. *)
(* When all workers are done the addresses are looked up in batches, every *)
(* target is judged, and the socket is closed.  The operator can cancel at *)
(* any time, the run's budget can expire, and replies come late or never.  *)
(***************************************************************************)
EXTENDS Integers, Sequences, SequencesExt, FiniteSetsExt

CONSTANTS Targets,      \* the table of targets
          Distance,     \* per target, the TTL its own answer needs
          MaxHops,      \* TTLs walked
          Tries,        \* probes per TTL
          Concurrency,  \* targets traced at once
          BatchMax,     \* addresses per lookup
          Named,        \* addresses of a network that can be named
          MaxWire,      \* bound on the probes in flight: more are lost
          MaxFaults     \* bound on cancelling, failing writes and reads, and
                        \* echo replies of another process

Hops == 1..MaxHops
(* An address is what answers a probe of dst sent with ttl. *)
Addresses == [dst : Targets, ttl : Hops]
Foreign == [dst |-> "elsewhere", ttl |-> 0]
Silent == [dst |-> "nobody", ttl |-> 0]

ASSUME TargetsAssumption ==
    /\ IsFiniteSet(Targets) /\ Targets # {}
    /\ Targets \cap {"nobody", "elsewhere"} = {}
    /\ Distance \in [Targets -> Nat \ {0}]

ASSUME HopsAssumption ==
    /\ MaxHops \in Nat \ {0} /\ Tries \in Nat \ {0}
    /\ Concurrency \in Nat \ {0} /\ BatchMax \in Nat \ {0}
    /\ MaxWire \in Nat /\ MaxFaults \in Nat

ASSUME NumbersAssumption ==
    /\ Named \subseteq Addresses
    /\ Cardinality(Targets) * MaxHops * Tries < 65536

VARIABLES
    stage,      \* of the run: "tracing", "lookup", "closed" or "crashed"
    ctx,        \* "live", or "over": cancelled, or out of budget
    worker,     \* per target: where its goroutine is
    try,        \* per target: the probe of the TTL it is at
    probe,      \* per target: the sequence number it waits for
    hop,        \* per target: the address of the TTL being probed
    path,       \* per target: the addresses of the TTLs walked
    reached,    \* per target: the target itself answered
    failure,    \* per target: why its trace failed, or "none"
    waiters,    \* the one-slot channel of every probe that waits
    lock,       \* who holds sendMu, or "nobody"
    ttl,        \* the TTL set on the socket
    wire,       \* the probes that may still be answered
    reader,     \* "reading", "failed" or "ended"
    done,       \* the socket's done channel is closed
    unasked,    \* the addresses the lookup has not asked about
    facts,      \* the addresses it knows, named or not
    lookupFailed, \* the lookup gave up
    verdict,    \* per target: the hop its carrier was read from
    faults

traces == <<worker, try, probe, hop, path, reached, failure>>
socket == <<waiters, lock, ttl, wire, reader, done>>
lookup == <<unasked, facts, lookupFailed, verdict>>
traceVars == <<stage, ctx, traces, socket, lookup, faults>>

TTL(t) == Len(path[t]) + 1
Busy == {t \in Targets : worker[t] \notin {"queued", "done"}}
Free == Concurrency - Cardinality(Busy)

TraceInit ==
    /\ stage = "tracing" /\ ctx = "live"
    /\ worker = [t \in Targets |-> "queued"]
    /\ try = [t \in Targets |-> 0] /\ probe = [t \in Targets |-> 0]
    /\ hop = [t \in Targets |-> Silent] /\ path = [t \in Targets |-> <<>>]
    /\ reached = [t \in Targets |-> FALSE]
    /\ failure = [t \in Targets |-> "none"]
    /\ waiters = <<>> /\ lock = "nobody" /\ ttl = 0 /\ wire = {}
    /\ reader = "reading" /\ done = FALSE
    /\ unasked = {} /\ facts = {} /\ lookupFailed = FALSE
    /\ verdict = [t \in Targets |-> Silent]
    /\ faults = 0

-----------------------------------------------------------------------------
(* The operator presses the cancel key, or the five minutes are over. *)
Cancel ==
    /\ stage \in {"tracing", "lookup"} /\ ctx = "live"
    /\ faults < MaxFaults /\ faults' = faults + 1
    /\ ctx' = "over"
    /\ UNCHANGED <<stage, traces, socket, lookup>>

(* A worker takes one of the slots; a run that was cancelled meanwhile    *)
(* costs it no probe, and the slot is given back.                         *)
Start(t) ==
    /\ stage = "tracing" /\ worker[t] = "queued" /\ Free > 0
    /\ IF ctx = "live"
       THEN worker' = [worker EXCEPT ![t] = "send"] /\ UNCHANGED failure
       ELSE /\ worker' = [worker EXCEPT ![t] = "done"]
            /\ failure' = [failure EXCEPT ![t] = "ctx"]
    /\ UNCHANGED <<stage, ctx, try, probe, hop, path, reached, socket, lookup,
                   faults>>

-----------------------------------------------------------------------------
(* The outcome of a trace is written down, and the slot is given back. *)
Ends(t, why) ==
    /\ worker' = [worker EXCEPT ![t] = "done"]
    /\ failure' = [failure EXCEPT ![t] = why]
    /\ try' = [try EXCEPT ![t] = 0]
    /\ hop' = [hop EXCEPT ![t] = Silent]
    /\ probe' = [probe EXCEPT ![t] = 0]

(* The numbers of the probes that wait, or may still be answered.  The     *)
(* counter of the socket gives none of them out again: a run sends fewer  *)
(* probes than there are numbers, so here any free number serves.         *)
Taken == DOMAIN waiters \cup {p.seq : p \in wire}
Fresh == CHOOSE n \in 1..Cardinality(Taken) + 1 : n \notin Taken

(* The channel is registered before the probe leaves. *)
Register(t) ==
    /\ stage = "tracing" /\ worker[t] = "send"
    /\ \/ /\ try[t] = 0 /\ ctx # "live"
          /\ Ends(t, "ctx") /\ UNCHANGED waiters
       \/ /\ try[t] > 0 \/ ctx = "live"
          /\ reader = "failed"
          /\ Ends(t, "send") /\ UNCHANGED waiters
       \/ /\ try[t] > 0 \/ ctx = "live"
          /\ reader # "failed"
          /\ LET seq == Fresh IN
                /\ waiters' = [s \in DOMAIN waiters \cup {seq} |->
                                  IF s = seq THEN Silent ELSE waiters[s]]
                /\ probe' = [probe EXCEPT ![t] = seq]
          /\ worker' = [worker EXCEPT ![t] = "ttl"]
          /\ UNCHANGED <<failure, try, hop>>
    /\ UNCHANGED <<stage, ctx, path, reached, lock, ttl, wire, reader, done,
                   lookup, faults>>

\* Mutant: the TTL is set without waiting for the write of another trace.
SetTTLUnlocked(t) ==
    /\ stage = "tracing" /\ worker[t] = "ttl"
    /\ lock' = t /\ ttl' = TTL(t)
    /\ worker' = [worker EXCEPT ![t] = "write"]
    /\ UNCHANGED <<stage, ctx, try, probe, hop, path, reached, failure,
                   waiters, wire, reader, done, lookup, faults>>

(* The TTL is set under the lock that also covers the write. *)
SetTTL(t) ==
    /\ stage = "tracing" /\ worker[t] = "ttl" /\ lock = "nobody"
    /\ lock' = t /\ ttl' = TTL(t)
    /\ worker' = [worker EXCEPT ![t] = "write"]
    /\ UNCHANGED <<stage, ctx, try, probe, hop, path, reached, failure,
                   waiters, wire, reader, done, lookup, faults>>

Drop(s) == waiters' = [p \in DOMAIN waiters \ {s} |-> waiters[p]]

Write(t) ==
    /\ stage = "tracing" /\ worker[t] = "write"
    /\ wire' = IF Cardinality(wire) < MaxWire
               THEN wire \cup {[seq |-> probe[t], dst |-> t, ttl |-> ttl]}
               ELSE wire
    /\ lock' = "nobody"
    /\ worker' = [worker EXCEPT ![t] = "wait"]
    /\ UNCHANGED <<stage, ctx, try, probe, hop, path, reached, failure,
                   waiters, ttl, reader, done, lookup, faults>>

\* Mutant: the early return of a failed write keeps the lock.
WriteFailsLocked(t) ==
    /\ stage = "tracing" /\ worker[t] = "write" /\ faults < MaxFaults
    /\ faults' = faults + 1
    /\ Drop(probe[t]) /\ Ends(t, "send")
    /\ UNCHANGED <<stage, ctx, path, reached, lock, ttl, wire, reader, done,
                   lookup>>

(* A write the kernel refuses ends the trace; its channel is forgotten. *)
WriteFails(t) ==
    /\ stage = "tracing" /\ worker[t] = "write" /\ faults < MaxFaults
    /\ faults' = faults + 1
    /\ Drop(probe[t]) /\ Ends(t, "send")
    /\ lock' = "nobody"
    /\ UNCHANGED <<stage, ctx, path, reached, ttl, wire, reader, done,
                   lookup>>

-----------------------------------------------------------------------------
(* The walk after one probe: another try, the next TTL, or the end. *)
Walk(t, answer) ==
    IF try[t] + 1 < Tries
    THEN /\ try' = [try EXCEPT ![t] = @ + 1]
         /\ hop' = [hop EXCEPT ![t] = answer]
         /\ probe' = [probe EXCEPT ![t] = 0]
         /\ worker' = [worker EXCEPT ![t] = "send"]
         /\ UNCHANGED <<path, failure>>
    ELSE /\ path' = [path EXCEPT ![t] = Append(@, answer)]
         /\ IF TTL(t) < MaxHops
            THEN /\ try' = [try EXCEPT ![t] = 0]
                 /\ hop' = [hop EXCEPT ![t] = Silent]
                 /\ probe' = [probe EXCEPT ![t] = 0]
                 /\ worker' = [worker EXCEPT ![t] = "send"]
                 /\ UNCHANGED failure
            ELSE Ends(t, "none")

Final(t, address) == address = Foreign \/ address.ttl >= Distance[t]

(* The answer of the fastest probe names the hop; an answer of the target *)
(* itself ends the walk.                                                  *)
Receive(t) ==
    /\ stage = "tracing" /\ worker[t] = "wait"
    /\ waiters[probe[t]] # Silent
    /\ LET answer == waiters[probe[t]] IN
       \E named \in {answer} \cup ({hop[t]} \ {Silent}) :
          IF Final(t, answer)
          THEN /\ path' = [path EXCEPT ![t] = Append(@, named)]
               /\ reached' = [reached EXCEPT ![t] = TRUE]
               /\ Ends(t, "none")
          ELSE Walk(t, named) /\ UNCHANGED reached
    /\ Drop(probe[t])
    /\ UNCHANGED <<stage, ctx, lock, ttl, wire, reader, done, lookup, faults>>

(* A second without a reply is a lost probe; a cancelled run ends there. *)
TimesOut(t) ==
    /\ stage = "tracing" /\ worker[t] = "wait"
    /\ Drop(probe[t])
    /\ IF ctx = "live"
       THEN Walk(t, hop[t])
       ELSE Ends(t, "ctx") /\ UNCHANGED path
    /\ UNCHANGED <<stage, ctx, reached, lock, ttl, wire, reader, done, lookup,
                   faults>>

(* The reader is gone, and with it every answer. *)
SocketGone(t) ==
    /\ stage = "tracing" /\ worker[t] = "wait" /\ done
    /\ Drop(probe[t]) /\ Ends(t, "read")
    /\ UNCHANGED <<stage, ctx, path, reached, lock, ttl, wire, reader, done,
                   lookup, faults>>

-----------------------------------------------------------------------------
(* The reader delivers a reply to the probe that waits for it; the slot   *)
(* holds one reply, and a reply nobody waits for any more is dropped.     *)
Deliver(s, address) ==
    waiters' = [p \in DOMAIN waiters |->
                   IF p = s /\ waiters[p] = Silent THEN address ELSE waiters[p]]

Answer ==
    /\ stage = "tracing" /\ reader = "reading"
    /\ \E p \in wire :
          /\ Deliver(p.seq, [dst |-> p.dst, ttl |-> p.ttl])
          /\ wire' = wire \ {p}
    /\ UNCHANGED <<stage, ctx, traces, lock, ttl, reader, done, lookup,
                   faults>>

(* The kernel copies every echo reply of the host to the raw socket, and  *)
(* only the sequence number is compared.                                  *)
AnotherEcho ==
    /\ stage = "tracing" /\ reader = "reading" /\ faults < MaxFaults
    /\ faults' = faults + 1
    /\ \E s \in DOMAIN waiters : Deliver(s, Foreign)
    /\ UNCHANGED <<stage, ctx, traces, lock, ttl, wire, reader, done, lookup>>

(* The read fails: the cause is kept, and every waiting probe is woken. *)
ReadFails ==
    /\ stage \in {"tracing", "lookup"} /\ reader = "reading"
    /\ faults < MaxFaults
    /\ faults' = faults + 1
    /\ reader' = "failed" /\ done' = TRUE
    /\ UNCHANGED <<stage, ctx, traces, waiters, lock, ttl, wire, lookup>>

-----------------------------------------------------------------------------
(* The addresses of all paths, each once, those of a failed trace too. *)
HopIPs == UNION {ToSet(path[t]) : t \in Targets} \ {Silent}

Gather ==
    /\ stage = "tracing" /\ \A t \in Targets : worker[t] = "done"
    /\ stage' = "lookup" /\ unasked' = HopIPs /\ wire' = {}
    /\ UNCHANGED <<ctx, traces, waiters, lock, ttl, reader, done, facts,
                   lookupFailed, verdict, faults>>

(* One batch: it answers for some of its addresses, or for none of them. *)
Batches == {b \in SUBSET unasked : Cardinality(b) = BatchMax \/ b = unasked}

Ask ==
    /\ stage = "lookup" /\ unasked # {} /\ ~lookupFailed
    /\ \E batch \in Batches : \E known \in SUBSET batch :
          /\ ctx # "live" => known = {}
          /\ unasked' = unasked \ batch
          /\ facts' = facts \cup known
    /\ UNCHANGED <<stage, ctx, traces, socket, lookupFailed, verdict, faults>>

(* The wait between two batches ends early when the run is cancelled. *)
GiveUp ==
    /\ stage = "lookup" /\ unasked # {} /\ ~lookupFailed /\ ctx # "live"
    /\ unasked # HopIPs
    /\ lookupFailed' = TRUE
    /\ UNCHANGED <<stage, ctx, traces, socket, unasked, facts, verdict,
                   faults>>

(* An address names a network when the lookup knows it and it is named.   *)
NameFact(address) == address \in facts \cap Named

(* The hop nearest the target that can be named decides; a trace that     *)
(* failed is not judged.                                                  *)
Judge(t) ==
    LET named == {i \in DOMAIN path[t] : NameFact(path[t][i])} IN
    IF failure[t] # "none" \/ named = {} THEN Silent ELSE path[t][Max(named)]

(* Returning closes the socket; closing the channel twice is a panic, and *)
(* nothing in the task recovers from one.                                 *)
Return ==
    /\ stage = "lookup" /\ (unasked = {} \/ lookupFailed)
    /\ verdict' = [t \in Targets |-> Judge(t)]
    /\ stage' = IF done THEN "crashed" ELSE "closed"
    /\ done' = TRUE
    /\ reader' = IF reader = "reading" THEN "ended" ELSE reader
    /\ UNCHANGED <<ctx, traces, waiters, lock, ttl, wire, unasked, facts,
                   lookupFailed, faults>>

Work(t) ==
    \/ Start(t) \/ Register(t) \/ SetTTL(t) \/ Write(t) \/ WriteFails(t)
    \/ Receive(t) \/ TimesOut(t) \/ SocketGone(t)

Conclude == Gather \/ Ask \/ GiveUp \/ Return

TraceNext ==
    \/ \E t \in Targets : Work(t)
    \/ Answer \/ AnotherEcho \/ ReadFails
    \/ Conclude
    \/ Cancel

(* Go schedules every goroutine, and every timer fires. *)
TraceFairness ==
    /\ \A t \in Targets : WF_traceVars(Work(t))
    /\ WF_traceVars(Conclude)

TraceSpec == TraceInit /\ [][TraceNext]_traceVars /\ TraceFairness

-----------------------------------------------------------------------------
States == {"queued", "send", "ttl", "write", "wait", "done"}

TraceTypeOK ==
    /\ stage \in {"tracing", "lookup", "closed", "crashed"}
    /\ ctx \in {"live", "over"}
    /\ worker \in [Targets -> States]
    /\ try \in [Targets -> 0..Tries - 1] /\ probe \in [Targets -> Nat]
    /\ hop \in [Targets -> Addresses \cup {Foreign, Silent}]
    /\ \A t \in Targets : path[t] \in Seq(Addresses \cup {Foreign, Silent})
    /\ reached \in [Targets -> BOOLEAN]
    /\ failure \in [Targets -> {"none", "ctx", "send", "read"}]
    /\ lock \in Targets \cup {"nobody"} /\ ttl \in 0..MaxHops
    /\ done \in BOOLEAN /\ reader \in {"reading", "failed", "ended"}

Own(t, n, address) ==
    address \in {Silent, Foreign, [dst |-> t, ttl |-> n]}

(* A hop of a path is the address that answered a probe of this target    *)
(* with this TTL, although every trace writes to and reads from the same  *)
(* socket and replies come late: the walk, the TTL of the packet and the  *)
(* sequence number agree.  The echo of another process is the exception   *)
(* the reader leaves open.                                                *)
HopsAreOwn ==
    \A t \in Targets :
        /\ \A n \in DOMAIN path[t] : Own(t, n, path[t][n])
        /\ Own(t, TTL(t), hop[t])

(* The two ends of a run: it returns and its socket is closed, or the     *)
(* socket had failed, its reader had closed the channel, and returning    *)
(* closes it again.                                                       *)
Returned == stage = "closed"
PanickedOnRead == stage = "crashed" /\ reader = "failed"

(* "It must respect ctx and never panic on odd output" (toolbox.go): it   *)
(* panics when the socket fails under it.                                 *)
RunNeverPanics == stage # "crashed"

=============================================================================
