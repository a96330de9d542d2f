----------------------------- MODULE ToolsProofs -----------------------------
(***************************************************************************)
(* Proofs about Trace and Checks, for any table of targets, any number of  *)
(* hops, tries, slots, items and servers: the hops a trace writes down are *)
(* its own, and a report blanks nothing and claims only what was measured. *)
(* About Unlock: a verdict on a service is what the service does.          *)
(* And about Pages, for any names, nodes and kernels: a task changes the   *)
(* account whose page it was started from, the cursor is on a row, and a   *)
(* page has the frame of its entry.                                        *)
(***************************************************************************)
EXTENDS Trace, Checks, Unlock, Pages, FiniteSetTheorems, SequenceTheorems,
        WellFoundedInduction, TLAPS

-----------------------------------------------------------------------------
(***************************************************************************)
(* Trace: what the shared socket and the walks of the targets keep.        *)
(***************************************************************************)
Walking(t) == worker[t] # "done"
Probing(t) == worker[t] \in {"ttl", "write", "wait"}
Answerers == Addresses \cup {Foreign, Silent}

(* What a walk remembers, and how far it has come. *)
Walks ==
    /\ worker \in [Targets -> States]
    /\ try \in [Targets -> 0..Tries - 1]
    /\ probe \in [Targets -> Nat]
    /\ hop \in [Targets -> Answerers]
    /\ path \in [Targets -> Seq(Answerers)]
    /\ \A t \in Targets : Walking(t) => TTL(t) \in Hops

(* The numbers in use are finitely many, and every packet is of a target. *)
Numbers ==
    /\ IsFiniteSet(Taken)
    /\ \A p \in wire : p.dst \in Targets /\ p.ttl \in Hops

(* Every worker that probes has a channel of its own, and what is in it   *)
(* answered this probe.                                                   *)
Channels ==
    /\ \A t \in Targets : Probing(t) =>
          /\ probe[t] \in DOMAIN waiters
          /\ Own(t, TTL(t), waiters[probe[t]])
    /\ \A t, u \in Targets :
          Probing(t) /\ Probing(u) /\ probe[t] = probe[u] => t = u

(* The lock is held by the worker that writes, and by no other; the TTL    *)
(* of the socket is then its own.                                         *)
Locked ==
    /\ \A t \in Targets : (worker[t] = "write") = (lock = t)
    /\ lock \in Targets => ttl = TTL(lock)

(* A packet that carries the number of a probe left for its target, with  *)
(* the TTL the target is at.                                              *)
Packets ==
    \A t \in Targets, p \in wire : Probing(t) /\ p.seq = probe[t] =>
        worker[t] = "wait" /\ p.dst = t /\ p.ttl = TTL(t)

TraceInv == Walks /\ Numbers /\ Channels /\ Locked /\ Packets /\ HopsAreOwn

-----------------------------------------------------------------------------
(***************************************************************************)
(* The numbers and the addresses.                                          *)
(***************************************************************************)

\* A number that is not taken exists, so the counter gives one out that none
\* of the probes under way carries.
LEMMA FreshIsFree ==
    ASSUME IsFiniteSet(Taken)
    PROVE  Fresh \in Nat \ {0} /\ Fresh \notin Taken
<1>0. Cardinality(Taken) \in Nat
  BY FS_CardinalityType
<1> DEFINE top == Cardinality(Taken) + 1
<1>1. IsFiniteSet(1..top) /\ Cardinality(1..top) = top
  BY <1>0, FS_Interval
<1>2. \E n \in 1..top : n \notin Taken
  <2>1. SUFFICES ASSUME 1..top \subseteq Taken PROVE FALSE
    OBVIOUS
  <2>2. Cardinality(1..top) <= Cardinality(Taken)
    BY <2>1, FS_Subset
  <2>3. QED
    BY <1>0, <1>1, <2>2
<1>3. Fresh \in 1..top /\ Fresh \notin Taken
  BY <1>2 DEF Fresh
<1>4. QED
  BY <1>0, <1>3

\* Nothing, and the echo of another process, may stand at any hop; what may
\* stand at a hop of the walk is an address.
LEMMA OwnIsAddress ==
    ASSUME NEW t \in Targets, NEW n
    PROVE  /\ Own(t, n, Silent) /\ Own(t, n, Foreign)
           /\ Own(t, n, [dst |-> t, ttl |-> n])
           /\ \A x : n \in Hops /\ Own(t, n, x) => x \in Answerers
<1>1. n \in Hops => [dst |-> t, ttl |-> n] \in Addresses
  BY DEF Addresses
<1>2. QED
  BY <1>1 DEF Own, Answerers

\* The places of a sequence that is one longer.
LEMMA PlacesGrow ==
    \A m \in Nat : \A i \in 1..m + 1 : i \notin 1..m => i = m + 1 /\ ~(i <= m)
OBVIOUS

\* A path grows by one address, and keeps those it has.
LEMMA PathGrows ==
    ASSUME NEW q \in Seq(Answerers), NEW x \in Answerers
    PROVE  /\ Append(q, x) \in Seq(Answerers)
           /\ Len(Append(q, x)) = Len(q) + 1 /\ Len(q) \in Nat
           /\ \A n \in DOMAIN Append(q, x) :
                 \/ n \in DOMAIN q /\ Append(q, x)[n] = q[n]
                 \/ n = Len(q) + 1 /\ Append(q, x)[n] = x
<1>1. Append(q, x) \in Seq(Answerers) /\ Len(Append(q, x)) = Len(q) + 1
      /\ Len(q) \in Nat
  OBVIOUS
<1>2. DOMAIN Append(q, x) = 1..Len(q) + 1 /\ DOMAIN q = 1..Len(q)
  BY <1>1
<1>3. \A n \in 1..Len(q) + 1 :
         Append(q, x)[n] = IF n <= Len(q) THEN q[n] ELSE x
  OBVIOUS
<1>4. ASSUME NEW n \in 1..Len(q) + 1
      PROVE  \/ n \in 1..Len(q) /\ Append(q, x)[n] = q[n]
             \/ n = Len(q) + 1 /\ Append(q, x)[n] = x
  <2>1. CASE n \in 1..Len(q)
    <3>1. n <= Len(q)
      BY <1>1, <2>1
    <3>2. QED
      BY <1>3, <1>4, <2>1, <3>1
  <2>2. CASE ~(n \in 1..Len(q))
    <3>1. n = Len(q) + 1 /\ ~(n <= Len(q))
      BY <1>1, <1>4, <2>2, PlacesGrow
    <3>2. QED
      BY <1>3, <1>4, <3>1
  <2>3. QED
    BY <2>1, <2>2
<1>5. QED
  BY <1>1, <1>2, <1>4

-----------------------------------------------------------------------------
(***************************************************************************)
(* What the steps do to the socket and the walks.                          *)
(***************************************************************************)

(* A worker forgets its channel: it goes on with another try, with the     *)
(* next TTL, or is done.                                                  *)
LeavesWith(t, w, k, h, q) ==
    /\ worker' = [worker EXCEPT ![t] = w] /\ try' = [try EXCEPT ![t] = k]
    /\ probe' = [probe EXCEPT ![t] = 0] /\ hop' = [hop EXCEPT ![t] = h]
    /\ path' = [path EXCEPT ![t] = q]
    /\ Own(t, Len(q) + 1, h)
    /\ \/ q = path[t]
       \/ \E x \in Answerers :
             /\ q = Append(path[t], x) /\ Own(t, TTL(t), x)
             /\ w = "send" => TTL(t) < MaxHops
    /\ Drop(probe[t]) /\ wire' = wire /\ ttl' = ttl
    /\ lock' = IF worker[t] = "write" THEN "nobody" ELSE lock

Leaves(t) ==
    \E w \in {"send", "done"}, k \in 0..Tries - 1,
       h \in Answerers, q \in Seq(Answerers) : LeavesWith(t, w, k, h, q)

\* The end of a trace, whatever the reason, is such a step.
LEMMA EndLeaves ==
    ASSUME Walks, NEW t \in Targets, NEW why,
           Ends(t, why), path' = path, Drop(probe[t]),
           wire' = wire, ttl' = ttl,
           lock' = IF worker[t] = "write" THEN "nobody" ELSE lock
    PROVE  Leaves(t)
<1>1. 0 \in 0..Tries - 1
  BY HopsAssumption
<1>2. path[t] \in Seq(Answerers) /\ path' = [path EXCEPT ![t] = path[t]]
  BY DEF Walks
<1>3. Silent \in Answerers /\ Own(t, Len(path[t]) + 1, Silent)
  BY DEF Answerers, Own
<1>4. LeavesWith(t, "done", 0, Silent, path[t])
  <2>1. /\ worker' = [worker EXCEPT ![t] = "done"]
        /\ try' = [try EXCEPT ![t] = 0] /\ hop' = [hop EXCEPT ![t] = Silent]
        /\ probe' = [probe EXCEPT ![t] = 0]
    BY DEF Ends
  <2>2. QED
    BY <1>2, <1>3, <2>1 DEF LeavesWith
<1>5. QED
  BY <1>1, <1>2, <1>3, <1>4 DEF Leaves

\* So is the walk after a probe, with an answer of this TTL or without.
LEMMA WalkLeaves ==
    ASSUME Walks, NEW t \in Targets, worker[t] = "wait",
           NEW x \in Answerers, Own(t, TTL(t), x),
           Walk(t, x), Drop(probe[t]), UNCHANGED <<wire, ttl, lock>>
    PROVE  Leaves(t)
<1>1. /\ try[t] \in 0..Tries - 1 /\ Tries \in Nat /\ 0 \in 0..Tries - 1
      /\ path[t] \in Seq(Answerers) /\ path = [path EXCEPT ![t] = path[t]]
      /\ TTL(t) = Len(path[t]) + 1 /\ Len(path[t]) \in Nat
  BY HopsAssumption DEF Walks, TTL
<1>2. Silent \in Answerers /\ \A n : Own(t, n, Silent)
  BY DEF Answerers, Own
<1>3. Append(path[t], x) \in Seq(Answerers)
  BY <1>1
<1>4. CASE try[t] + 1 < Tries
  <2>1. try[t] + 1 \in 0..Tries - 1
    BY <1>1, <1>4
  <2>2. /\ try' = [try EXCEPT ![t] = try[t] + 1]
        /\ hop' = [hop EXCEPT ![t] = x] /\ probe' = [probe EXCEPT ![t] = 0]
        /\ worker' = [worker EXCEPT ![t] = "send"] /\ path' = path
    BY <1>4 DEF Walk
  <2>3. LeavesWith(t, "send", try[t] + 1, x, path[t])
    BY <1>1, <2>2 DEF LeavesWith
  <2>4. QED
    BY <1>1, <2>1, <2>3 DEF Leaves
<1>5. CASE ~(try[t] + 1 < Tries)
  <2>1. path' = [path EXCEPT ![t] = Append(path[t], x)]
    BY <1>5 DEF Walk
  <2>2. PICK w \in {"send", "done"} :
           /\ worker' = [worker EXCEPT ![t] = w]
           /\ try' = [try EXCEPT ![t] = 0]
           /\ hop' = [hop EXCEPT ![t] = Silent]
           /\ probe' = [probe EXCEPT ![t] = 0]
           /\ w = "send" => TTL(t) < MaxHops
    BY <1>5 DEF Walk, Ends
  <2>3. LeavesWith(t, w, 0, Silent, Append(path[t], x))
    BY <1>1, <1>2, <2>1, <2>2 DEF LeavesWith
  <2>4. w \in {"send", "done"}
    OBVIOUS
  <2>5. QED
    BY <1>1, <1>2, <1>3, <2>3, <2>4 DEF Leaves
<1>6. QED
  BY <1>4, <1>5

\* What the steps of the workers do to the socket and the walks.
LEMMA WorkerMoves ==
    ASSUME TraceInv, NEW t \in Targets, Work(t)
    PROVE  \/ /\ worker[t] \in {"queued", "send"}
              /\ \E w \in {"send", "done"} :
                    worker' = [worker EXCEPT ![t] = w]
              /\ UNCHANGED <<path, socket>>
              /\ \/ UNCHANGED <<try, hop, probe>>
                 \/ /\ try' = [try EXCEPT ![t] = 0]
                    /\ hop' = [hop EXCEPT ![t] = Silent]
                    /\ probe' = [probe EXCEPT ![t] = 0]
           \/ /\ worker[t] = "send" /\ worker' = [worker EXCEPT ![t] = "ttl"]
              /\ probe' = [probe EXCEPT ![t] = Fresh]
              /\ waiters' = [s \in DOMAIN waiters \cup {Fresh} |->
                                IF s = Fresh THEN Silent ELSE waiters[s]]
              /\ UNCHANGED <<try, hop, path, lock, ttl, wire>>
           \/ /\ worker[t] = "ttl" /\ worker' = [worker EXCEPT ![t] = "write"]
              /\ lock = "nobody" /\ lock' = t /\ ttl' = TTL(t)
              /\ UNCHANGED <<try, hop, probe, path, waiters, wire>>
           \/ /\ worker[t] = "write"
              /\ worker' = [worker EXCEPT ![t] = "wait"]
              /\ wire' \in {wire, wire \cup
                               {[seq |-> probe[t], dst |-> t, ttl |-> ttl]}}
              /\ lock' = "nobody"
              /\ UNCHANGED <<try, hop, probe, path, waiters, ttl>>
           \/ Probing(t) /\ Leaves(t)
<1>1. Walks /\ Own(t, TTL(t), Silent) /\ Own(t, TTL(t), Foreign)
  BY OwnIsAddress DEF TraceInv
<1>2. CASE Start(t)
  BY <1>2 DEF Start, socket
<1>3. CASE Register(t)
  BY <1>3 DEF Register, Ends, socket
<1>4. CASE SetTTL(t)
  BY <1>4 DEF SetTTL
<1>5. CASE Write(t)
  BY <1>5 DEF Write
<1>6. CASE WriteFails(t)
  <2>1. Ends(t, "send") /\ path' = path /\ Drop(probe[t]) /\ wire' = wire
        /\ ttl' = ttl /\ lock' = "nobody" /\ worker[t] = "write"
    BY <1>6 DEF WriteFails
  <2>2. Leaves(t)
    BY <1>1, <2>1, EndLeaves
  <2>3. QED
    BY <2>1, <2>2 DEF Probing
<1>7. CASE Receive(t)
  <2> DEFINE answer == waiters[probe[t]]
  <2>1. /\ worker[t] = "wait" /\ Drop(probe[t]) /\ UNCHANGED <<lock, ttl, wire>>
        /\ \E named \in {answer} \cup ({hop[t]} \ {Silent}) :
              \/ /\ path' = [path EXCEPT ![t] = Append(path[t], named)]
                 /\ Ends(t, "none")
              \/ Walk(t, named)
    BY <1>7 DEF Receive
  <2>2. PICK named \in {answer} \cup ({hop[t]} \ {Silent}) :
              \/ /\ path' = [path EXCEPT ![t] = Append(path[t], named)]
                 /\ Ends(t, "none")
              \/ Walk(t, named)
    BY <2>1
  <2>3. Own(t, TTL(t), named) /\ TTL(t) \in Hops
    <3>1. Own(t, TTL(t), answer) /\ Own(t, TTL(t), hop[t])
      BY <2>1 DEF TraceInv, Channels, HopsAreOwn, Probing
    <3>2. TTL(t) \in Hops
      BY <2>1 DEF TraceInv, Walks, Walking
    <3>3. QED
      BY <3>1, <3>2
  <2>4. named \in Answerers
    BY <2>3, OwnIsAddress
  <2>5. CASE Walk(t, named)
    BY <1>1, <2>1, <2>3, <2>4, <2>5, WalkLeaves DEF Probing
  <2>6. CASE path' = [path EXCEPT ![t] = Append(path[t], named)]
             /\ Ends(t, "none")
    <3>1. 0 \in 0..Tries - 1 /\ path[t] \in Seq(Answerers)
          /\ Silent \in Answerers
      BY <1>1, HopsAssumption DEF Walks, Answerers
    <3>2. Append(path[t], named) \in Seq(Answerers)
      BY <2>4, <3>1
    <3>3. Own(t, Len(Append(path[t], named)) + 1, Silent)
      BY OwnIsAddress
    <3>4. /\ worker' = [worker EXCEPT ![t] = "done"]
          /\ try' = [try EXCEPT ![t] = 0]
          /\ hop' = [hop EXCEPT ![t] = Silent]
          /\ probe' = [probe EXCEPT ![t] = 0]
      BY <2>6 DEF Ends
    <3>5. LeavesWith(t, "done", 0, Silent, Append(path[t], named))
      BY <2>1, <2>3, <2>4, <2>6, <3>3, <3>4 DEF LeavesWith
    <3>6. Leaves(t)
      BY <3>1, <3>2, <3>5 DEF Leaves
    <3>7. QED
      BY <2>1, <3>6 DEF Probing
  <2>7. QED
    BY <2>2, <2>5, <2>6
<1>8. CASE TimesOut(t)
  <2>1. /\ worker[t] = "wait" /\ Drop(probe[t]) /\ UNCHANGED <<lock, ttl, wire>>
        /\ \/ Walk(t, hop[t])
           \/ Ends(t, "ctx") /\ path' = path
    BY <1>8 DEF TimesOut
  <2>2. hop[t] \in Answerers /\ Own(t, TTL(t), hop[t])
    BY <1>1 DEF Walks, TraceInv, HopsAreOwn
  <2>3. CASE Walk(t, hop[t])
    BY <1>1, <2>1, <2>2, <2>3, WalkLeaves DEF Probing
  <2>4. CASE Ends(t, "ctx") /\ path' = path
    BY <1>1, <2>1, <2>4, EndLeaves DEF Probing
  <2>5. QED
    BY <2>1, <2>3, <2>4
<1>9. CASE SocketGone(t)
  <2>1. /\ worker[t] = "wait" /\ Drop(probe[t]) /\ UNCHANGED <<lock, ttl, wire>>
        /\ Ends(t, "read") /\ path' = path
    BY <1>9 DEF SocketGone
  <2>2. QED
    BY <1>1, <2>1, EndLeaves DEF Probing
<1>10. QED
  BY <1>2, <1>3, <1>4, <1>5, <1>6, <1>7, <1>8, <1>9 DEF Work

\* What the other steps do to them: a reply, or the end of the tracing.
LEMMA OtherMoves ==
    ASSUME Answer \/ AnotherEcho \/ ReadFails \/ Conclude \/ Cancel
    PROVE  /\ UNCHANGED traces
           /\ \/ UNCHANGED <<waiters, lock, ttl, wire>>
              \/ UNCHANGED <<waiters, lock, ttl>> /\ wire' = {}
              \/ /\ UNCHANGED <<lock, ttl>>
                 /\ \E p \in wire : /\ Deliver(p.seq, [dst |-> p.dst, ttl |-> p.ttl])
                                    /\ wire' = wire \ {p}
              \/ /\ UNCHANGED <<lock, ttl, wire>>
                 /\ \E s \in DOMAIN waiters : Deliver(s, Foreign)
BY DEF Answer, AnotherEcho, ReadFails, Conclude, Gather, Ask, GiveUp, Return,
       Cancel, socket

-----------------------------------------------------------------------------
(***************************************************************************)
(* The invariant under each kind of step.                                  *)
(***************************************************************************)

\* Leaving keeps everything: the channel and the numbers of the others are
\* as they were, and the hop that is written down is the worker's own.
LEMMA LeavingKeeps ==
    ASSUME TraceInv, NEW t \in Targets, Probing(t), Leaves(t)
    PROVE  TraceInv'
<1>1. PICK w \in {"send", "done"}, k \in 0..Tries - 1, h \in Answerers,
           q \in Seq(Answerers) : LeavesWith(t, w, k, h, q)
  BY DEF Leaves
<1>2. /\ worker' = [worker EXCEPT ![t] = w] /\ try' = [try EXCEPT ![t] = k]
      /\ probe' = [probe EXCEPT ![t] = 0] /\ hop' = [hop EXCEPT ![t] = h]
      /\ path' = [path EXCEPT ![t] = q]
      /\ waiters' = [p \in DOMAIN waiters \ {probe[t]} |-> waiters[p]]
      /\ wire' = wire /\ ttl' = ttl
      /\ lock' = IF worker[t] = "write" THEN "nobody" ELSE lock
  BY <1>1 DEF LeavesWith, Drop
<1>3. /\ Own(t, Len(q) + 1, h)
      /\ \/ q = path[t]
         \/ \E x \in Answerers :
               /\ q = Append(path[t], x) /\ Own(t, TTL(t), x)
               /\ w = "send" => TTL(t) < MaxHops
  BY <1>1 DEF LeavesWith
<1>4. /\ worker \in [Targets -> States] /\ try \in [Targets -> 0..Tries - 1]
      /\ probe \in [Targets -> Nat] /\ hop \in [Targets -> Answerers]
      /\ path \in [Targets -> Seq(Answerers)]
      /\ \A u \in Targets : Walking(u) => TTL(u) \in Hops
  BY DEF TraceInv, Walks
<1>5. /\ worker[t] \in {"ttl", "write", "wait"} /\ Walking(t)
      /\ path[t] \in Seq(Answerers) /\ TTL(t) = Len(path[t]) + 1
      /\ Len(path[t]) \in Nat /\ TTL(t) \in Hops
  BY <1>4 DEF Probing, Walking, TTL
<1>6. \A u \in Targets : u # t =>
         /\ worker'[u] = worker[u] /\ probe'[u] = probe[u]
         /\ hop'[u] = hop[u] /\ path'[u] = path[u]
  BY <1>2, <1>4
<1>7. /\ worker'[t] = w /\ probe'[t] = 0 /\ hop'[t] = h /\ path'[t] = q
      /\ worker' \in [Targets -> States]
  BY <1>2, <1>4 DEF States
<1>8. \A u \in Targets : Probing(u)' => u # t /\ Probing(u)
  BY <1>6, <1>7 DEF Probing
<1>9. \A u \in Targets : u # t => TTL(u)' = TTL(u)
  BY <1>6 DEF TTL
<1>10. TTL(t)' = Len(q) + 1
  BY <1>7 DEF TTL
<1>11. Walks'
  <2>1. w = "send" => Len(q) + 1 \in Hops
    <3>1. CASE q = path[t]
      BY <1>5, <3>1
    <3>2. CASE \E x \in Answerers :
                  /\ q = Append(path[t], x) /\ Own(t, TTL(t), x)
                  /\ w = "send" => TTL(t) < MaxHops
      <4>1. Len(q) = Len(path[t]) + 1
        BY <1>5, <3>2, PathGrows
      <4>2. QED
        BY <1>5, <3>2, <4>1, HopsAssumption DEF Hops
    <3>3. QED
      BY <1>3, <3>1, <3>2
  <2>2. \A u \in Targets : Walking(u)' => TTL(u)' \in Hops
    BY <1>4, <1>6, <1>7, <1>9, <1>10, <2>1 DEF Walking, Hops
  <2>3. /\ try' \in [Targets -> 0..Tries - 1] /\ probe' \in [Targets -> Nat]
        /\ hop' \in [Targets -> Answerers]
        /\ path' \in [Targets -> Seq(Answerers)]
    BY <1>2, <1>4
  <2>4. Answerers' = Answerers /\ Hops' = Hops /\ States' = States
    BY DEF Answerers, Addresses, Foreign, Silent, Hops, States
  <2>5. QED
    BY <1>7, <2>2, <2>3 DEF Walks
<1>12. Numbers'
  <2>1. Taken' \subseteq Taken
    BY <1>2 DEF Taken
  <2>2. IsFiniteSet(Taken')
    BY <2>1, FS_Subset DEF TraceInv, Numbers
  <2>3. QED
    BY <1>2, <2>2 DEF TraceInv, Numbers
<1>13. Channels'
  <2>1. ASSUME NEW u \in Targets, Probing(u)'
        PROVE  /\ probe'[u] \in DOMAIN waiters'
               /\ Own(u, TTL(u)', waiters'[probe'[u]])
    <3>1. u # t /\ Probing(u) /\ probe'[u] = probe[u] /\ TTL(u)' = TTL(u)
      BY <1>6, <1>8, <1>9, <2>1
    <3>2. probe[u] \in DOMAIN waiters /\ probe[u] # probe[t]
          /\ Own(u, TTL(u), waiters[probe[u]])
      BY <3>1 DEF TraceInv, Channels
    <3>3. probe[u] \in DOMAIN waiters' /\ waiters'[probe[u]] = waiters[probe[u]]
      BY <1>2, <3>2
    <3>4. QED
      BY <3>1, <3>2, <3>3
  <2>2. ASSUME NEW u \in Targets, NEW v \in Targets,
               Probing(u)', Probing(v)', probe'[u] = probe'[v]
        PROVE  u = v
    BY <1>6, <1>8, <2>2 DEF TraceInv, Channels
  <2>3. QED
    BY <2>1, <2>2 DEF Channels, Own
<1>14. Locked'
  <2>1. /\ \A u \in Targets : (worker[u] = "write") = (lock = u)
        /\ lock \in Targets => ttl = TTL(lock)
    BY DEF TraceInv, Locked
  <2>2. CASE worker[t] = "write"
    <3>1. lock = t /\ lock' = "nobody" /\ "nobody" \notin Targets
      BY <1>2, <2>1, <2>2, TargetsAssumption
    <3>2. \A u \in Targets : worker'[u] # "write"
      BY <1>6, <1>7, <2>1, <3>1
    <3>3. QED
      BY <3>1, <3>2 DEF Locked
  <2>3. CASE worker[t] # "write"
    <3>1. lock # t /\ lock' = lock
      BY <1>2, <2>1, <2>3
    <3>2. \A u \in Targets : (worker'[u] = "write") = (lock' = u)
      BY <1>6, <1>7, <2>1, <3>1
    <3>3. lock' \in Targets => ttl' = TTL(lock)'
      BY <1>2, <1>6, <2>1, <3>1 DEF TTL
    <3>4. QED
      BY <3>2, <3>3 DEF Locked
  <2>4. QED
    BY <2>2, <2>3
<1>15. Packets'
  <2>1. ASSUME NEW u \in Targets, NEW p \in wire,
               Probing(u)', p.seq = probe'[u]
        PROVE  worker'[u] = "wait" /\ p.dst = u /\ p.ttl = TTL(u)'
    BY <1>6, <1>8, <1>9, <2>1 DEF TraceInv, Packets
  <2>2. QED
    BY <1>2, <2>1 DEF Packets
<1>16. HopsAreOwn'
  <2>1. \A n \in DOMAIN q : Own(t, n, q[n])
    <3>1. \A n \in DOMAIN path[t] : Own(t, n, path[t][n])
      BY DEF TraceInv, HopsAreOwn
    <3>2. CASE q = path[t]
      BY <3>1, <3>2
    <3>3. CASE \E x \in Answerers : q = Append(path[t], x) /\ Own(t, TTL(t), x)
      BY <1>5, <3>1, <3>3, PathGrows
    <3>4. QED
      BY <1>3, <3>2, <3>3
  <2>2. ASSUME NEW u \in Targets
        PROVE  /\ \A n \in DOMAIN path'[u] : Own(u, n, path'[u][n])
               /\ Own(u, TTL(u)', hop'[u])
    <3>1. CASE u = t
      BY <1>3, <1>7, <1>10, <2>1, <3>1
    <3>2. CASE u # t
      BY <1>6, <1>9, <3>2 DEF TraceInv, HopsAreOwn
    <3>3. QED
      BY <3>1, <3>2
  <2>3. QED
    BY <2>2 DEF HopsAreOwn, Own
<1>17. QED
  BY <1>11, <1>12, <1>13, <1>14, <1>15, <1>16 DEF TraceInv

\* Registering a channel: the number is new, so nothing on the wire and no
\* other channel carries it.
LEMMA RegisteringKeeps ==
    ASSUME TraceInv, NEW t \in Targets, worker[t] = "send",
           worker' = [worker EXCEPT ![t] = "ttl"],
           probe' = [probe EXCEPT ![t] = Fresh],
           waiters' = [s \in DOMAIN waiters \cup {Fresh} |->
                          IF s = Fresh THEN Silent ELSE waiters[s]],
           UNCHANGED <<try, hop, path, lock, ttl, wire>>
    PROVE  TraceInv'
<1>1. /\ worker \in [Targets -> States] /\ try \in [Targets -> 0..Tries - 1]
      /\ probe \in [Targets -> Nat] /\ hop \in [Targets -> Answerers]
      /\ path \in [Targets -> Seq(Answerers)]
      /\ \A u \in Targets : Walking(u) => TTL(u) \in Hops
  BY DEF TraceInv, Walks
<1>2. /\ Fresh \in Nat /\ Fresh \notin DOMAIN waiters
      /\ \A p \in wire : p.seq # Fresh
  BY FreshIsFree DEF TraceInv, Numbers, Taken
<1>3. /\ worker' \in [Targets -> States] /\ probe' \in [Targets -> Nat]
      /\ worker'[t] = "ttl" /\ probe'[t] = Fresh
      /\ \A u \in Targets : u # t =>
            worker'[u] = worker[u] /\ probe'[u] = probe[u]
  BY <1>1, <1>2 DEF States
<1>4. \A u \in Targets : TTL(u)' = TTL(u)
  BY DEF TTL
<1>5. \A u \in Targets : Probing(u)' /\ u # t => Probing(u)
  BY <1>3 DEF Probing
<1>6. Walks'
  <2>1. \A u \in Targets : Walking(u)' => TTL(u)' \in Hops
    BY <1>1, <1>3, <1>4 DEF Walking
  <2>2. QED
    BY <1>1, <1>3, <2>1 DEF Walks, Hops
<1>7. Numbers'
  <2>1. Taken' \subseteq Taken \cup {Fresh}
    BY DEF Taken
  <2>2. IsFiniteSet(Taken \cup {Fresh})
    BY FS_AddElement DEF TraceInv, Numbers
  <2>3. IsFiniteSet(Taken')
    BY <2>1, <2>2, FS_Subset
  <2>4. QED
    BY <2>3 DEF TraceInv, Numbers
<1>8. \A u \in Targets : Probing(u)' /\ u # t =>
         /\ probe'[u] \in DOMAIN waiters /\ probe'[u] # Fresh
         /\ Own(u, TTL(u), waiters[probe'[u]])
  BY <1>2, <1>3, <1>5 DEF TraceInv, Channels
<1>9. Channels'
  <2>1. ASSUME NEW u \in Targets, Probing(u)'
        PROVE  /\ probe'[u] \in DOMAIN waiters'
               /\ Own(u, TTL(u)', waiters'[probe'[u]])
    <3>1. CASE u = t
      <4>1. Fresh \in DOMAIN waiters' /\ waiters'[Fresh] = Silent
        OBVIOUS
      <4>2. QED
        BY <1>3, <3>1, <4>1, OwnIsAddress
    <3>2. CASE u # t
      <4>1. /\ probe'[u] \in DOMAIN waiters /\ probe'[u] # Fresh
            /\ Own(u, TTL(u), waiters[probe'[u]])
        BY <1>8, <2>1, <3>2
      <4>2. probe'[u] \in DOMAIN waiters'
            /\ waiters'[probe'[u]] = waiters[probe'[u]]
        BY <4>1
      <4>3. QED
        BY <1>4, <4>1, <4>2
    <3>3. QED
      BY <3>1, <3>2
  <2>2. ASSUME NEW u \in Targets, NEW v \in Targets,
               Probing(u)', Probing(v)', probe'[u] = probe'[v]
        PROVE  u = v
    BY <1>3, <1>5, <1>8, <2>2 DEF TraceInv, Channels
  <2>3. QED
    BY <2>1, <2>2 DEF Channels, Own
<1>10. Locked'
  <2>1. lock # t
    BY DEF TraceInv, Locked
  <2>2. \A u \in Targets : (worker'[u] = "write") = (lock' = u)
    BY <1>3, <2>1 DEF TraceInv, Locked
  <2>3. lock' \in Targets => ttl' = TTL(lock)'
    BY DEF TraceInv, Locked, TTL
  <2>4. QED
    BY <2>2, <2>3 DEF Locked
<1>11. Packets'
  <2>1. ASSUME NEW u \in Targets, NEW p \in wire,
               Probing(u)', p.seq = probe'[u]
        PROVE  worker'[u] = "wait" /\ p.dst = u /\ p.ttl = TTL(u)'
    <3>1. u # t
      BY <1>2, <1>3, <2>1
    <3>2. QED
      BY <1>3, <1>4, <1>5, <2>1, <3>1 DEF TraceInv, Packets
  <2>2. QED
    BY <2>1 DEF Packets
<1>12. HopsAreOwn'
  BY <1>4 DEF TraceInv, HopsAreOwn, Own
<1>13. QED
  BY <1>6, <1>7, <1>9, <1>10, <1>11, <1>12 DEF TraceInv

\* Setting the TTL takes the lock, which nobody holds.
LEMMA SettingKeeps ==
    ASSUME TraceInv, NEW t \in Targets, worker[t] = "ttl",
           worker' = [worker EXCEPT ![t] = "write"],
           lock = "nobody", lock' = t, ttl' = TTL(t),
           UNCHANGED <<try, hop, probe, path, waiters, wire>>
    PROVE  TraceInv'
<1>1. /\ worker \in [Targets -> States]
      /\ \A u \in Targets : Walking(u) => TTL(u) \in Hops
  BY DEF TraceInv, Walks
<1>2. /\ worker' \in [Targets -> States] /\ worker'[t] = "write"
      /\ \A u \in Targets : u # t => worker'[u] = worker[u]
  BY <1>1 DEF States
<1>3. \A u \in Targets : /\ TTL(u)' = TTL(u) /\ Probing(u)' = Probing(u)
                         /\ Walking(u)' = Walking(u)
  BY <1>2 DEF TTL, Probing, Walking
<1>4. Walks'
  BY <1>2, <1>3 DEF TraceInv, Walks, Hops
<1>5. Numbers'
  BY DEF TraceInv, Numbers, Taken
<1>6. Channels'
  BY <1>3 DEF TraceInv, Channels, Own
<1>7. Locked'
  <2>1. \A u \in Targets : worker[u] # "write"
    BY TargetsAssumption DEF TraceInv, Locked
  <2>2. \A u \in Targets : (worker'[u] = "write") = (lock' = u)
    BY <1>2, <2>1
  <2>3. ttl' = TTL(lock)'
    BY DEF TTL
  <2>4. QED
    BY <2>2, <2>3 DEF Locked
<1>8. Packets'
  <2>1. \A p \in wire : p.seq # probe[t]
    BY DEF TraceInv, Packets, Probing
  <2>2. QED
    BY <1>2, <1>3, <2>1 DEF TraceInv, Packets
<1>9. HopsAreOwn'
  BY <1>3 DEF TraceInv, HopsAreOwn, Own
<1>10. QED
  BY <1>4, <1>5, <1>6, <1>7, <1>8, <1>9 DEF TraceInv

\* Writing sends the probe with the TTL its own trace set, and gives the
\* lock back.
LEMMA WritingKeeps ==
    ASSUME TraceInv, NEW t \in Targets, worker[t] = "write",
           worker' = [worker EXCEPT ![t] = "wait"],
           wire' \in {wire, wire \cup
                               {[seq |-> probe[t], dst |-> t, ttl |-> ttl]}},
           lock' = "nobody",
           UNCHANGED <<try, hop, probe, path, waiters, ttl>>
    PROVE  TraceInv'
<1>1. /\ worker \in [Targets -> States]
      /\ \A u \in Targets : Walking(u) => TTL(u) \in Hops
  BY DEF TraceInv, Walks
<1>2. /\ worker' \in [Targets -> States] /\ worker'[t] = "wait"
      /\ \A u \in Targets : u # t => worker'[u] = worker[u]
  BY <1>1 DEF States
<1>3. \A u \in Targets : /\ TTL(u)' = TTL(u) /\ Probing(u)' = Probing(u)
                         /\ Walking(u)' = Walking(u)
  BY <1>2 DEF TTL, Probing, Walking
<1>4. lock = t /\ ttl = TTL(t) /\ TTL(t) \in Hops /\ Probing(t)
  BY <1>1 DEF TraceInv, Locked, Walking, Probing
<1> DEFINE packet == [seq |-> probe[t], dst |-> t, ttl |-> ttl]
<1>5. packet.seq = probe[t] /\ packet.dst = t /\ packet.ttl = TTL(t)
  BY <1>4
<1>6. \A p \in wire' : p \in wire \/ p = packet
  OBVIOUS
<1> HIDE DEF packet
<1>7. Walks'
  BY <1>2, <1>3 DEF TraceInv, Walks, Hops
<1>8. Numbers'
  <2>1. Taken' \subseteq Taken
    BY <1>4, <1>5, <1>6 DEF Taken, TraceInv, Channels
  <2>2. IsFiniteSet(Taken')
    BY <2>1, FS_Subset DEF TraceInv, Numbers
  <2>3. \A p \in wire' : p.dst \in Targets /\ p.ttl \in Hops
    BY <1>4, <1>5, <1>6 DEF TraceInv, Numbers
  <2>4. QED
    BY <2>2, <2>3 DEF Numbers, Hops
<1>9. Channels'
  BY <1>3 DEF TraceInv, Channels, Own
<1>10. Locked'
  <2>1. \A u \in Targets : worker'[u] # "write"
    BY <1>2, <1>4 DEF TraceInv, Locked
  <2>2. QED
    BY <2>1, TargetsAssumption DEF Locked
<1>11. Packets'
  <2>1. ASSUME NEW u \in Targets, NEW p \in wire', Probing(u), p.seq = probe[u]
        PROVE  worker'[u] = "wait" /\ p.dst = u /\ p.ttl = TTL(u)
    <3>1. CASE p \in wire
      BY <1>2, <2>1, <3>1 DEF TraceInv, Packets
    <3>2. CASE p = packet
      <4>1. u = t
        BY <1>4, <1>5, <2>1, <3>2 DEF TraceInv, Channels
      <4>2. QED
        BY <1>2, <1>5, <3>2, <4>1
    <3>3. QED
      BY <1>6, <3>1, <3>2
  <2>2. QED
    BY <1>3, <2>1 DEF Packets
<1>12. HopsAreOwn'
  BY <1>3 DEF TraceInv, HopsAreOwn, Own
<1>13. QED
  BY <1>7, <1>8, <1>9, <1>10, <1>11, <1>12 DEF TraceInv

\* A worker that waits for its slot starts, or gives up before a probe.
LEMMA StartingKeeps ==
    ASSUME TraceInv, NEW t \in Targets, worker[t] \in {"queued", "send"},
           NEW w \in {"send", "done"}, worker' = [worker EXCEPT ![t] = w],
           UNCHANGED <<path, socket>>,
           \/ UNCHANGED <<try, hop, probe>>
           \/ /\ try' = [try EXCEPT ![t] = 0]
              /\ hop' = [hop EXCEPT ![t] = Silent]
              /\ probe' = [probe EXCEPT ![t] = 0]
    PROVE  TraceInv'
<1>1. /\ worker \in [Targets -> States] /\ try \in [Targets -> 0..Tries - 1]
      /\ probe \in [Targets -> Nat] /\ hop \in [Targets -> Answerers]
      /\ path \in [Targets -> Seq(Answerers)]
      /\ \A u \in Targets : Walking(u) => TTL(u) \in Hops
  BY DEF TraceInv, Walks
<1>2. /\ worker' \in [Targets -> States] /\ worker'[t] = w
      /\ \A u \in Targets : u # t =>
            worker'[u] = worker[u] /\ probe'[u] = probe[u] /\ hop'[u] = hop[u]
  BY <1>1 DEF States
<1>3. /\ \A u \in Targets : TTL(u)' = TTL(u)
      /\ \A u \in Targets : Walking(u)' => Walking(u)
  BY <1>2 DEF TTL, Walking
<1>4. /\ \A u \in Targets : Probing(u)' => u # t /\ Probing(u)
      /\ UNCHANGED <<waiters, lock, ttl, wire>>
  BY <1>2 DEF Probing, socket
<1>5. Walks'
  <2>1. Silent \in Answerers /\ 0 \in 0..Tries - 1
    BY HopsAssumption DEF Answerers
  <2>2. /\ try' \in [Targets -> 0..Tries - 1] /\ probe' \in [Targets -> Nat]
        /\ hop' \in [Targets -> Answerers]
    <3>1. CASE UNCHANGED <<try, hop, probe>>
      BY <1>1, <3>1
    <3>2. CASE /\ try' = [try EXCEPT ![t] = 0]
               /\ hop' = [hop EXCEPT ![t] = Silent]
               /\ probe' = [probe EXCEPT ![t] = 0]
      BY <1>1, <2>1, <3>2
    <3>3. QED
      BY <3>1, <3>2
  <2>3. \A u \in Targets : Walking(u)' => TTL(u)' \in Hops
    BY <1>1, <1>3
  <2>4. QED
    BY <1>1, <1>2, <2>2, <2>3 DEF Walks, Hops
<1>6. Numbers'
  BY <1>4 DEF TraceInv, Numbers, Taken
<1>7. Channels'
  <2>1. ASSUME NEW u \in Targets, Probing(u)'
        PROVE  /\ probe'[u] \in DOMAIN waiters'
               /\ Own(u, TTL(u)', waiters'[probe'[u]])
    BY <1>2, <1>3, <1>4, <2>1 DEF TraceInv, Channels
  <2>2. ASSUME NEW u \in Targets, NEW v \in Targets,
               Probing(u)', Probing(v)', probe'[u] = probe'[v]
        PROVE  u = v
    BY <1>2, <1>4, <2>2 DEF TraceInv, Channels
  <2>3. QED
    BY <2>1, <2>2 DEF Channels, Own
<1>8. Locked'
  <2>1. lock # t
    BY DEF TraceInv, Locked
  <2>2. \A u \in Targets : (worker'[u] = "write") = (lock' = u)
    BY <1>2, <1>4, <2>1 DEF TraceInv, Locked
  <2>3. lock' \in Targets => ttl' = TTL(lock)'
    BY <1>4 DEF TraceInv, Locked, TTL
  <2>4. QED
    BY <2>2, <2>3 DEF Locked
<1>9. Packets'
  <2>1. ASSUME NEW u \in Targets, NEW p \in wire,
               Probing(u)', p.seq = probe'[u]
        PROVE  worker'[u] = "wait" /\ p.dst = u /\ p.ttl = TTL(u)'
    BY <1>2, <1>3, <1>4, <2>1 DEF TraceInv, Packets
  <2>2. QED
    BY <1>4, <2>1 DEF Packets
<1>10. HopsAreOwn'
  <2>1. \A u \in Targets : hop'[u] \in {hop[u], Silent}
    BY <1>1
  <2>2. ASSUME NEW u \in Targets
        PROVE  /\ \A n \in DOMAIN path'[u] : Own(u, n, path'[u][n])
               /\ Own(u, TTL(u)', hop'[u])
    BY <1>3, <2>1, OwnIsAddress DEF TraceInv, HopsAreOwn
  <2>3. QED
    BY <2>2 DEF HopsAreOwn, Own
<1>11. QED
  BY <1>5, <1>6, <1>7, <1>8, <1>9, <1>10 DEF TraceInv

\* A reply that is delivered to a channel keeps what is in every channel the
\* answer of its own probe, when it is the answer of that one.
LEMMA RepliesKeep ==
    ASSUME TraceInv, UNCHANGED <<traces, lock, ttl>>, wire' \subseteq wire,
           \/ UNCHANGED waiters
           \/ \E s, a :
                 /\ Deliver(s, a)
                 /\ \A u \in Targets :
                       Probing(u) /\ probe[u] = s => Own(u, TTL(u), a)
    PROVE  TraceInv'
<1>1. UNCHANGED <<worker, try, probe, hop, path>>
  BY DEF traces
<1>2. \A u \in Targets : /\ TTL(u)' = TTL(u) /\ Probing(u)' = Probing(u)
                         /\ Walking(u)' = Walking(u)
  BY <1>1 DEF TTL, Probing, Walking
<1>3. DOMAIN waiters' = DOMAIN waiters
  BY DEF Deliver
<1>4. \A u \in Targets : Probing(u) =>
         /\ probe[u] \in DOMAIN waiters'
         /\ Own(u, TTL(u), waiters'[probe[u]])
  <2>1. SUFFICES ASSUME NEW u \in Targets, Probing(u)
                 PROVE  Own(u, TTL(u), waiters'[probe[u]])
    BY <1>3 DEF TraceInv, Channels
  <2>2. probe[u] \in DOMAIN waiters /\ Own(u, TTL(u), waiters[probe[u]])
    BY <2>1 DEF TraceInv, Channels
  <2>3. CASE UNCHANGED waiters
    BY <2>2, <2>3
  <2>4. CASE \E s, a :
                 /\ Deliver(s, a)
                 /\ \A v \in Targets :
                       Probing(v) /\ probe[v] = s => Own(v, TTL(v), a)
    <3>1. PICK s, a : /\ Deliver(s, a)
                      /\ \A v \in Targets :
                            Probing(v) /\ probe[v] = s => Own(v, TTL(v), a)
      BY <2>4
    <3>2. waiters'[probe[u]] = IF probe[u] = s /\ waiters[probe[u]] = Silent
                               THEN a ELSE waiters[probe[u]]
      BY <2>2, <3>1 DEF Deliver
    <3>3. QED
      BY <2>1, <2>2, <3>1, <3>2
  <2>5. QED
    BY <2>3, <2>4
<1>5. Walks'
  BY <1>1, <1>2 DEF TraceInv, Walks, Hops
<1>6. Numbers'
  <2>1. Taken' \subseteq Taken
    BY <1>3 DEF Taken
  <2>2. IsFiniteSet(Taken')
    BY <2>1, FS_Subset DEF TraceInv, Numbers
  <2>3. QED
    BY <2>2 DEF TraceInv, Numbers, Hops
<1>7. Channels'
  BY <1>1, <1>2, <1>4 DEF TraceInv, Channels, Own
<1>8. Locked'
  BY <1>1, <1>2 DEF TraceInv, Locked, TTL
<1>9. Packets'
  BY <1>1, <1>2 DEF TraceInv, Packets
<1>10. HopsAreOwn'
  BY <1>1, <1>2 DEF TraceInv, HopsAreOwn, Own
<1>11. QED
  BY <1>5, <1>6, <1>7, <1>8, <1>9, <1>10 DEF TraceInv

\* The empty run has no walk and no packet.
LEMMA TraceStarts == TraceInit => TraceInv
<1> SUFFICES ASSUME TraceInit PROVE TraceInv
  OBVIOUS
<1>1. /\ \A t \in Targets : worker[t] = "queued" /\ path[t] = <<>>
      /\ \A t \in Targets : hop[t] = Silent
      /\ waiters = <<>> /\ wire = {} /\ lock = "nobody"
  BY DEF TraceInit
<1>2. \A t \in Targets : ~Probing(t) /\ TTL(t) = 1 /\ TTL(t) \in Hops
  BY <1>1, HopsAssumption DEF Probing, TTL, Hops
<1>3. Walks
  <2>1. Silent \in Answerers /\ 0 \in 0..Tries - 1
        /\ <<>> \in Seq(Answerers)
    BY HopsAssumption DEF Answerers
  <2>2. QED
    BY <1>2, <2>1 DEF TraceInit, Walks, States
<1>4. Numbers
  <2>1. Taken = {}
    BY <1>1 DEF Taken
  <2>2. QED
    BY <1>1, <2>1, FS_EmptySet DEF Numbers
<1>5. Channels /\ Packets
  BY <1>1, <1>2 DEF Channels, Packets
<1>6. Locked
  BY <1>1, TargetsAssumption DEF Locked
<1>7. HopsAreOwn
  <2>1. DOMAIN <<>> = {}
    OBVIOUS
  <2>2. QED
    BY <1>1, <2>1, OwnIsAddress DEF HopsAreOwn
<1>8. QED
  BY <1>3, <1>4, <1>5, <1>6, <1>7 DEF TraceInv

\* Every step keeps the invariant.
LEMMA TraceSteps == TraceInv /\ [TraceNext]_traceVars => TraceInv'
<1> SUFFICES ASSUME TraceInv, [TraceNext]_traceVars PROVE TraceInv'
  OBVIOUS
<1>1. ASSUME NEW t \in Targets, Work(t)
      PROVE  TraceInv'
  <2>1. CASE /\ worker[t] \in {"queued", "send"}
             /\ \E w \in {"send", "done"} : worker' = [worker EXCEPT ![t] = w]
             /\ UNCHANGED <<path, socket>>
             /\ \/ UNCHANGED <<try, hop, probe>>
                \/ /\ try' = [try EXCEPT ![t] = 0]
                   /\ hop' = [hop EXCEPT ![t] = Silent]
                   /\ probe' = [probe EXCEPT ![t] = 0]
    BY <2>1, StartingKeeps
  <2>2. CASE /\ worker[t] = "send" /\ worker' = [worker EXCEPT ![t] = "ttl"]
             /\ probe' = [probe EXCEPT ![t] = Fresh]
             /\ waiters' = [s \in DOMAIN waiters \cup {Fresh} |->
                               IF s = Fresh THEN Silent ELSE waiters[s]]
             /\ UNCHANGED <<try, hop, path, lock, ttl, wire>>
    BY <2>2, RegisteringKeeps
  <2>3. CASE /\ worker[t] = "ttl" /\ worker' = [worker EXCEPT ![t] = "write"]
             /\ lock = "nobody" /\ lock' = t /\ ttl' = TTL(t)
             /\ UNCHANGED <<try, hop, probe, path, waiters, wire>>
    BY <2>3, SettingKeeps
  <2>4. CASE /\ worker[t] = "write" /\ worker' = [worker EXCEPT ![t] = "wait"]
             /\ wire' \in {wire, wire \cup
                              {[seq |-> probe[t], dst |-> t, ttl |-> ttl]}}
             /\ lock' = "nobody"
             /\ UNCHANGED <<try, hop, probe, path, waiters, ttl>>
    BY <2>4, WritingKeeps
  <2>5. CASE Probing(t) /\ Leaves(t)
    BY <2>5, LeavingKeeps
  <2>6. QED
    BY <1>1, <2>1, <2>2, <2>3, <2>4, <2>5, WorkerMoves
<1>2. CASE Answer \/ AnotherEcho \/ ReadFails \/ Conclude \/ Cancel
  <2>1. UNCHANGED traces
    BY <1>2, OtherMoves
  <2>2. CASE /\ UNCHANGED <<waiters, lock, ttl>> /\ wire' \in {wire, {}}
    BY <2>1, <2>2, RepliesKeep
  <2>3. CASE /\ UNCHANGED <<lock, ttl>>
             /\ \E p \in wire :
                   /\ Deliver(p.seq, [dst |-> p.dst, ttl |-> p.ttl])
                   /\ wire' = wire \ {p}
    <3>1. PICK p \in wire : /\ Deliver(p.seq, [dst |-> p.dst, ttl |-> p.ttl])
                            /\ wire' = wire \ {p}
      BY <2>3
    <3>2. \A u \in Targets : Probing(u) /\ probe[u] = p.seq =>
             Own(u, TTL(u), [dst |-> p.dst, ttl |-> p.ttl])
      BY OwnIsAddress DEF TraceInv, Packets
    <3>3. QED
      BY <2>1, <2>3, <3>1, <3>2, RepliesKeep
  <2>4. CASE /\ UNCHANGED <<lock, ttl, wire>>
             /\ \E s \in DOMAIN waiters : Deliver(s, Foreign)
    <3>1. \A u \in Targets : Own(u, TTL(u), Foreign)
      BY OwnIsAddress
    <3>2. QED
      BY <2>1, <2>4, <3>1, RepliesKeep
  <2>5. QED
    BY <1>2, <2>2, <2>3, <2>4, OtherMoves
<1>3. CASE UNCHANGED traceVars
  BY <1>3, RepliesKeep DEF traceVars, socket
<1>4. QED
  BY <1>1, <1>2, <1>3 DEF TraceNext

\* The hops of a return path are addresses that answered probes of this very
\* target and TTL, for any number of targets, hops, tries and slots: the lock
\* covers the TTL and the write, a number is not given out while a reply to
\* it can come, and a late reply finds its channel gone.
THEOREM HopsOfTheWalk == TraceSpec => []HopsAreOwn
<1>1. TraceInv => HopsAreOwn
  BY DEF TraceInv
<1>2. QED
  BY <1>1, TraceStarts, TraceSteps, PTL DEF TraceSpec

-----------------------------------------------------------------------------
(***************************************************************************)
(* The choice of servers: a sort by counting, and the nearest per carrier. *)
(***************************************************************************)

\* Different ranks from 1 to the size of a set use up all of them.
LEMMA RanksUsedUp ==
    ASSUME NEW K, IsFiniteSet(K), NEW r \in [K -> 1..Cardinality(K)],
           \A k, l \in K : r[k] = r[l] => k = l
    PROVE  \A n \in 1..Cardinality(K) : \E k \in K : r[k] = n
<1>1. Cardinality(K) \in Nat
  BY FS_CardinalityType
<1>2. IsFiniteSet(1..Cardinality(K))
      /\ Cardinality(1..Cardinality(K)) = Cardinality(K)
  BY <1>1, FS_Interval
<1>3. r \in Injection(K, 1..Cardinality(K))
  BY DEF Injection, IsInjective
<1>4. r \in Surjection(K, 1..Cardinality(K))
  BY <1>2, <1>3, FS_Injection
<1>5. QED
  BY <1>4 DEF Surjection

\* A set of naturals has a least element.
LEMMA MinIsLeast ==
    ASSUME NEW S, S \subseteq Nat, S # {}
    PROVE  Min(S) \in S /\ \A y \in S : Min(S) <= y
<1>1. PICK x \in S : \A y \in S : ~(<<y, x>> \in OpToRel(<, Nat))
  BY NatLessThanWellFounded, WFMin
<1>2. ASSUME NEW y \in S
      PROVE  x <= y
  <2>1. x \in Nat /\ y \in Nat /\ <<y, x>> \in Nat \X Nat
        /\ <<y, x>>[1] = y /\ <<y, x>>[2] = x
    OBVIOUS
  <2>2. ~(y < x)
    BY <1>1, <2>1, Zenon DEF OpToRel
  <2>3. QED
    BY <2>1, <2>2
<1>3. QED
  BY <1>2 DEF Min

Entry == [carrier : STRING, distance : Nat]

\* Nearness is a strict order of the places of a list, and a total one.
LEMMA NearnessOrders ==
    ASSUME NEW list \in Seq(Entry)
    PROVE  /\ \A i \in DOMAIN list : ~Before(list, i, i)
           /\ \A i, j \in DOMAIN list :
                 i # j => Before(list, i, j) \/ Before(list, j, i)
           /\ \A i, j, k \in DOMAIN list :
                 Before(list, i, j) /\ Before(list, j, k) => Before(list, i, k)
           /\ \A i, j \in DOMAIN list :
                 /\ ~Before(list, j, i) /\ list[j].distance > 0
                 => list[i].distance \in 1..list[j].distance
<1> DEFINE d(i) == list[i].distance
<1>1. \A i \in DOMAIN list : i \in Nat /\ d(i) \in Nat
  <2>1. \A i \in DOMAIN list : i \in Nat /\ list[i] \in Entry
    OBVIOUS
  <2>2. QED
    BY <2>1 DEF Entry
<1>2. \A i, j \in DOMAIN list :
         Before(list, i, j) <=> \/ d(i) > 0 /\ (d(j) = 0 \/ d(i) < d(j))
                                \/ d(i) = d(j) /\ i < j
  BY DEF Before
<1> HIDE DEF d
<1>3. \A i \in DOMAIN list : ~Before(list, i, i)
  BY <1>1, <1>2
<1>4. \A i, j \in DOMAIN list :
         i # j => Before(list, i, j) \/ Before(list, j, i)
  BY <1>1, <1>2
<1>5. \A i, j, k \in DOMAIN list :
         Before(list, i, j) /\ Before(list, j, k) => Before(list, i, k)
  BY <1>1, <1>2
<1>6. \A i, j \in DOMAIN list :
         ~Before(list, j, i) /\ d(j) > 0 => d(i) \in 1..d(j)
  BY <1>1, <1>2
<1>7. QED
  BY <1>3, <1>4, <1>5, <1>6 DEF d

\* The sorted list has every server of the list, the nearer ones first.
LEMMA SortingSorts ==
    ASSUME NEW list \in Seq(Entry)
    PROVE  /\ DOMAIN SortedByDistance(list) = DOMAIN list
           /\ \E at \in [DOMAIN list -> DOMAIN list] :
                 /\ \A k \in DOMAIN list : SortedByDistance(list)[k] = list[at[k]]
                 /\ \A i \in DOMAIN list : \E k \in DOMAIN list : at[k] = i
                 /\ \A k, l \in DOMAIN list :
                       k <= l => ~Before(list, at[l], at[k])
<1> DEFINE D == DOMAIN list
           Nearer(i) == {j \in D : Before(list, j, i)}
           rank == [i \in D |-> Cardinality(Nearer(i)) + 1]
<1>1. Len(list) \in Nat /\ D = 1..Len(list)
  OBVIOUS
<1>2. IsFiniteSet(D) /\ Cardinality(D) = Len(list)
  BY <1>1, FS_Interval
<1>3. \A i \in D : IsFiniteSet(Nearer(i)) /\ Cardinality(Nearer(i)) \in Nat
  BY <1>2, FS_Subset, FS_CardinalityType
<1>4. ASSUME NEW i \in D, NEW j \in D, Before(list, i, j)
      PROVE  Cardinality(Nearer(i)) < Cardinality(Nearer(j))
  <2>1. Nearer(i) \subseteq Nearer(j) /\ i \in Nearer(j) /\ i \notin Nearer(i)
    BY <1>4, NearnessOrders
  <2>2. Cardinality(Nearer(i)) <= Cardinality(Nearer(j))
        /\ Cardinality(Nearer(i)) # Cardinality(Nearer(j))
    BY <1>3, <2>1, FS_Subset
  <2>3. \A m, n \in Nat : m <= n /\ m # n => m < n
    OBVIOUS
  <2>4. QED
    BY <1>3, <2>2, <2>3
<1>5. ASSUME NEW i \in D
      PROVE  rank[i] \in 1..Cardinality(D)
  <2>1. Nearer(i) \subseteq D /\ i \notin Nearer(i)
    BY NearnessOrders
  <2>2. Cardinality(Nearer(i)) <= Cardinality(D)
        /\ Cardinality(Nearer(i)) # Cardinality(D)
    BY <1>2, <2>1, FS_Subset
  <2>3. rank[i] = Cardinality(Nearer(i)) + 1 /\ Cardinality(Nearer(i)) \in Nat
    BY <1>3
  <2>4. QED
    BY <1>1, <1>2, <2>2, <2>3
<1>6. \A i, j \in D : Before(list, i, j) => rank[i] < rank[j]
  <2>1. \A m, n \in Nat : m < n => m + 1 < n + 1
    OBVIOUS
  <2>2. QED
    BY <1>3, <1>4, <2>1
<1>7. \A i, j \in D : rank[i] = rank[j] => i = j
  <2>1. \A i \in D : rank[i] \in Nat
    BY <1>5
  <2>2. \A m \in Nat : ~(m < m)
    OBVIOUS
  <2>3. \A i, j \in D : i # j => Before(list, i, j) \/ Before(list, j, i)
    BY NearnessOrders
  <2> HIDE DEF rank
  <2>4. QED
    BY <1>6, <2>1, <2>2, <2>3
<1>8. rank \in [D -> 1..Cardinality(D)]
  BY <1>5
<1>9. \A n \in D : \E i \in D : rank[i] = n
  <2> HIDE DEF rank, D
  <2>1. \A n \in 1..Cardinality(D) : \E i \in D : rank[i] = n
    BY <1>2, <1>7, <1>8, RanksUsedUp
  <2>2. QED
    BY <1>1, <1>2, <2>1
<1> DEFINE at == [k \in D |-> CHOOSE i \in D : rank[i] = k]
<1>10. \A k \in D : at[k] \in D /\ rank[at[k]] = k
  <2> HIDE DEF rank
  <2>1. QED
    BY <1>9
<1>11. \A k \in D : SortedByDistance(list)[k] = list[at[k]]
  <2>1. \A k, i : i \in D => (rank[i] = k <=> Cardinality(Nearer(i)) + 1 = k)
    OBVIOUS
  <2>2. \A k \in D : at[k] = CHOOSE i \in D : Cardinality(Nearer(i)) + 1 = k
    OBVIOUS
  <2>3. QED
    BY <2>2 DEF SortedByDistance
<1>12. DOMAIN SortedByDistance(list) = D
  BY DEF SortedByDistance
<1>13. at \in [D -> D]
  BY <1>10
<1> HIDE DEF at, rank
<1>14. \A i \in D : \E k \in D : at[k] = i
  <2>1. \A i \in D : rank[i] \in D
    BY <1>1, <1>2, <1>5
  <2>2. QED
    BY <1>7, <1>10, <2>1
<1>15. \A k, l \in D : k <= l => ~Before(list, at[l], at[k])
  <2>1. \A k, l \in 1..Len(list) : ~(k <= l /\ l < k)
    BY <1>1
  <2>2. QED
    BY <1>1, <1>6, <1>10, <1>13, <2>1
<1>16. QED
  BY <1>11, <1>12, <1>13, <1>14, <1>15

\* The carriers' test has, for every carrier it knows and the list offers,
\* one server, and of those with a known distance none of it is nearer.
LEMMA PickedAreNearest ==
    ASSUME NEW list \in Seq(Entry)
    PROVE  LET picked == PickCarriers(list) IN
           /\ {s.carrier : s \in Range(picked)}
                  = {s.carrier : s \in Range(list)} \cap Range(Carriers)
           /\ \A s \in Range(picked), other \in Range(list) :
                 s.carrier = other.carrier /\ other.distance > 0 =>
                     s.distance \in 1..other.distance
<1> DEFINE D == DOMAIN list
           sorted == SortedByDistance(list)
           of(c) == {k \in DOMAIN sorted : sorted[k].carrier = c}
           found == {n \in DOMAIN Carriers : of(Carriers[n]) # {}}
           Upto(n) == {m \in found : m <= n}
           nth(k) == CHOOSE n \in found : Cardinality(Upto(n)) = k
<1>1. DOMAIN sorted = D /\ D \subseteq Nat
  <2>1. D = 1..Len(list) /\ Len(list) \in Nat
    OBVIOUS
  <2>2. QED
    BY <2>1, SortingSorts
<1>2. PICK at \in [D -> D] :
         /\ \A k \in D : sorted[k] = list[at[k]]
         /\ \A i \in D : \E k \in D : at[k] = i
         /\ \A k, l \in D : k <= l => ~Before(list, at[l], at[k])
  BY SortingSorts
<1>3. /\ IsFiniteSet(found) /\ Cardinality(found) \in Nat
      /\ found \subseteq DOMAIN Carriers /\ DOMAIN Carriers \subseteq Nat
  <2>1. Len(Carriers) \in Nat /\ DOMAIN Carriers = 1..Len(Carriers)
    BY ListsAssumption
  <2>2. IsFiniteSet(DOMAIN Carriers)
    BY <2>1, FS_Interval
  <2>3. QED
    BY <2>1, <2>2, FS_Subset, FS_CardinalityType
<1>4. \A c : of(c) \subseteq D /\ \A k \in of(c) : sorted[k].carrier = c
  BY <1>1
<1>5. \A c : of(c) # {} => Min(of(c)) \in of(c) /\ \A l \in of(c) : Min(of(c)) <= l
  <2> HIDE DEF of
  <2>1. QED
    BY <1>1, <1>4, MinIsLeast
<1>6. \A n \in found : /\ IsFiniteSet(Upto(n)) /\ Cardinality(Upto(n)) \in Nat
                       /\ Cardinality(Upto(n)) \in 1..Cardinality(found)
  <2> HIDE DEF found
  <2>1. SUFFICES ASSUME NEW n \in found
                 PROVE  /\ IsFiniteSet(Upto(n)) /\ Cardinality(Upto(n)) \in Nat
                        /\ Cardinality(Upto(n)) \in 1..Cardinality(found)
    OBVIOUS
  <2>2. n \in Nat /\ n <= n
    BY <1>3
  <2>3. Upto(n) \subseteq found /\ n \in Upto(n)
    BY <2>2
  <2>4. IsFiniteSet(Upto(n)) /\ Cardinality(Upto(n)) \in Nat
        /\ Cardinality(Upto(n)) <= Cardinality(found)
    BY <1>3, <2>3, FS_Subset, FS_CardinalityType
  <2>5. Cardinality(Upto(n)) # 0
    BY <2>3, <2>4, FS_EmptySet
  <2>6. QED
    BY <1>3, <2>4, <2>5
<1>7. \A m, n \in found : Cardinality(Upto(m)) = Cardinality(Upto(n)) => m = n
  <2>1. ASSUME NEW m \in found, NEW n \in found, m < n
        PROVE  Cardinality(Upto(m)) # Cardinality(Upto(n))
    <3>1. m \in Nat /\ n \in Nat /\ found \subseteq Nat
      BY <1>3
    <3>2. \A j \in Nat : j <= m => j <= n
      BY <2>1, <3>1
    <3>3. n <= n /\ ~(n <= m)
      BY <2>1, <3>1
    <3> HIDE DEF found
    <3>4. Upto(m) \subseteq Upto(n) /\ n \in Upto(n) /\ n \notin Upto(m)
      BY <2>1, <3>1, <3>2, <3>3
    <3>5. QED
      BY <1>6, <3>4, FS_Subset
  <2> HIDE DEF found, Upto
  <2>2. \A m, n \in found : m < n \/ n < m \/ m = n
    BY <1>3
  <2>3. QED
    BY <2>1, <2>2
<1>8. \A k \in 1..Cardinality(found) :
         nth(k) \in found /\ Cardinality(Upto(nth(k))) = k
  <2> DEFINE r == [n \in found |-> Cardinality(Upto(n))]
  <2> HIDE DEF found, Upto
  <2>1. r \in [found -> 1..Cardinality(found)]
    BY <1>6
  <2>2. \A m, n \in found : r[m] = r[n] => m = n
    BY <1>7
  <2> HIDE DEF r
  <2>3. \A k \in 1..Cardinality(found) : \E n \in found : r[n] = k
    BY <1>3, <2>1, <2>2, RanksUsedUp
  <2>4. QED
    BY <2>3 DEF r
<1>9. /\ DOMAIN PickCarriers(list) = 1..Cardinality(found)
      /\ \A k \in 1..Cardinality(found) :
            PickCarriers(list)[k] = sorted[Min(of(Carriers[nth(k)]))]
  BY DEF PickCarriers
<1> DEFINE picked == PickCarriers(list)
<1>10. \A n \in found : /\ of(Carriers[n]) # {} /\ n \in DOMAIN Carriers
  OBVIOUS
<1> HIDE DEF found, of, nth, sorted, Upto, picked
<1>11. \A k \in DOMAIN picked : \E n \in DOMAIN Carriers :
          /\ of(Carriers[n]) # {} /\ n \in found /\ n = nth(k)
          /\ picked[k] = sorted[Min(of(Carriers[n]))]
  BY <1>8, <1>9, <1>10 DEF picked
<1>12. \A n \in found : \E k \in DOMAIN picked :
          picked[k] = sorted[Min(of(Carriers[n]))]
  <2>1. ASSUME NEW n \in found
        PROVE  \E k \in DOMAIN picked : picked[k] = sorted[Min(of(Carriers[n]))]
    <3>1. Cardinality(Upto(n)) \in 1..Cardinality(found)
      BY <1>6
    <3>2. nth(Cardinality(Upto(n))) = n
      BY <1>7, <1>8, <3>1
    <3>3. QED
      BY <1>9, <3>1, <3>2 DEF picked
  <2>2. QED
    BY <2>1
<1>13. ASSUME NEW k \in DOMAIN picked
       PROVE  \E i \in D : /\ picked[k] = list[i]
                           /\ picked[k].carrier \in Range(Carriers)
                           /\ \A j \in D : list[j].carrier = list[i].carrier
                                 => ~Before(list, j, i)
  <2>1. PICK n \in DOMAIN Carriers :
           of(Carriers[n]) # {} /\ picked[k] = sorted[Min(of(Carriers[n]))]
    BY <1>11
  <2> DEFINE m == Min(of(Carriers[n]))
  <2>2. m \in D /\ m \in of(Carriers[n]) /\ \A l \in of(Carriers[n]) : m <= l
    BY <1>4, <1>5, <2>1
  <2> HIDE DEF m
  <2>3. picked[k] = list[at[m]] /\ at[m] \in D /\ sorted[m].carrier = Carriers[n]
    BY <1>2, <1>4, <2>1, <2>2 DEF m
  <2>4. Carriers[n] \in Range(Carriers)
    BY DEF Range
  <2>5. ASSUME NEW j \in D, list[j].carrier = Carriers[n]
        PROVE  ~Before(list, j, at[m])
    <3>1. PICK l \in D : at[l] = j
      BY <1>2
    <3>2. l \in of(Carriers[n])
      BY <1>1, <1>2, <2>5, <3>1 DEF of
    <3>3. QED
      BY <1>2, <2>2, <3>1, <3>2
  <2>6. QED
    BY <1>2, <2>1, <2>2, <2>3, <2>4, <2>5
<1>14. ASSUME NEW n \in DOMAIN Carriers, NEW i \in D,
              list[i].carrier = Carriers[n]
       PROVE  \E k \in DOMAIN picked : picked[k].carrier = Carriers[n]
  <2>1. PICK l \in D : at[l] = i
    BY <1>2
  <2>2. l \in of(Carriers[n])
    BY <1>1, <1>2, <1>14, <2>1 DEF of
  <2>3. n \in found
    BY <2>2 DEF found
  <2>4. sorted[Min(of(Carriers[n]))].carrier = Carriers[n]
    BY <1>4, <1>5, <2>2
  <2>5. QED
    BY <1>12, <2>3, <2>4
<1>15. {s.carrier : s \in Range(picked)}
          = {s.carrier : s \in Range(list)} \cap Range(Carriers)
  BY <1>13, <1>14 DEF Range
<1>16. \A s \in Range(picked), other \in Range(list) :
          s.carrier = other.carrier /\ other.distance > 0 =>
              s.distance \in 1..other.distance
  <2>1. ASSUME NEW k \in DOMAIN picked, NEW j \in D,
               picked[k].carrier = list[j].carrier, list[j].distance > 0
        PROVE  picked[k].distance \in 1..list[j].distance
    BY <1>13, <2>1, NearnessOrders
  <2>2. QED
    BY <2>1 DEF Range
<1>17. QED
  BY <1>15, <1>16 DEF picked

-----------------------------------------------------------------------------
(***************************************************************************)
(* Checks: what a run of a tool that asks others writes down.              *)
(***************************************************************************)

(* The places of a run: the port check is asked to by its own tool only.   *)
Places ==
    /\ over \in {"no", "cancelled", "expired"}
    /\ tool = "ports" => asking \in {"address", "ports", "reverse", "nothing"}
    /\ asking = "ports" => tool = "ports"

(* Every item has its outcome, what ended its question and what was said.  *)
Sheets ==
    /\ DOMAIN outcome = DOMAIN item /\ DOMAIN ended = DOMAIN item
    /\ DOMAIN said = DOMAIN item
    /\ asking = "address" => DOMAIN item = {}
    /\ asking = "servers" /\ servers = <<>> => DOMAIN item = {}
    /\ asking \in {"ports", "reverse"} /\ tool = "ports" => 1 \in DOMAIN item

(* An item that is settled has an outcome.  The names are looked up when   *)
(* all are settled, and only what the report says was halted ends before. *)
Written ==
    /\ \A i \in DOMAIN item : item[i] = "settled" => outcome[i] # Blank
    /\ asking = "reverse" => \A i \in DOMAIN item : item[i] = "settled"
    /\ asking = "nothing" /\ halt = "none" =>
          \A i \in DOMAIN item : item[i] = "settled"

(* While the port check runs, a port that is settled answered, or its dial *)
(* failed or was cut; there is no verdict yet.                            *)
Mail ==
    tool = "ports" /\ asking # "nothing" =>
        /\ conclusion = "none"
        /\ \A i \in DOMAIN item : item[i] = "settled" =>
              ended[i] = "answer" \/ outcome[i] \in {"blocked", "error"}

(* The servers are those chosen from the list that came.                   *)
Chosen ==
    tool = "carriers" =>
        \/ servers = <<>> /\ listing = <<>>
        \/ listing \in Listings /\ servers = PickCarriers(listing)

ChecksInv ==
    Places /\ Sheets /\ Written /\ Mail /\ Chosen /\ YesIsMeasured /\ HitsAreListings

(* An item is settled, and the others stay as they are.                   *)
Settles(i) ==
    /\ DOMAIN item' = DOMAIN item /\ DOMAIN outcome' = DOMAIN outcome
    /\ DOMAIN ended' = DOMAIN ended /\ DOMAIN said' = DOMAIN said
    /\ \A j \in DOMAIN item \ {i} :
          /\ item'[j] = item[j] /\ outcome'[j] = outcome[j]
          /\ ended'[j] = ended[j] /\ said'[j] = said[j]
    /\ outcome'[i] # Blank
    /\ outcome'[i] = "listed" => "listing" \in said'[i] /\ "refusal" \notin said'[i]
    /\ asking = "ports" =>
          ended'[i] = "answer" \/ outcome'[i] \in {"blocked", "error"}

\* The answers to the questions are none of the two words the reports are
\* judged by.
LEMMA ResponsesAreReadings ==
    \A o \in Responses : o # Blank /\ o # "listed"
<1>1. "open" # Blank /\ "open" # "listed" /\ "refused" # Blank
      /\ "refused" # "listed" /\ "error" # Blank /\ "error" # "listed"
  BY DEF Blank
<1>2. "measured" # Blank /\ "measured" # "listed" /\ "failed" # Blank
      /\ "failed" # "listed" /\ "unlocked" # Blank /\ "unlocked" # "listed"
  BY DEF Blank
<1>3. "partial" # Blank /\ "partial" # "listed" /\ "blocked" # Blank
      /\ "blocked" # "listed"
  BY DEF Blank
<1>4. Responses \in {{"open", "refused", "error"}, {"measured", "failed"},
                     {"unlocked", "partial", "blocked", "failed"}, {}}
  BY DEF Responses
<1>5. QED
  BY <1>1, <1>2, <1>3, <1>4, Zenon

\* Settling an item writes down an outcome, and says nothing of the others.
LEMMA SettlingSettles ==
    ASSUME Sheets, NEW i \in DOMAIN item, NEW why, NEW response,
           Settle(i, why, response), response # Blank,
           \A j \in DOMAIN said \ {i} : said'[j] = said[j],
           DOMAIN said' = DOMAIN said,
           response = "listed" => "listing" \in said'[i] /\ "refusal" \notin said'[i],
           asking = "ports" => why = "answer" \/ response \in {"blocked", "error"}
    PROVE  Settles(i)
<1>1. /\ item' = [item EXCEPT ![i] = "settled"]
      /\ ended' = [ended EXCEPT ![i] = why]
      /\ outcome' = [outcome EXCEPT ![i] = response]
  BY DEF Settle
<1>2. /\ DOMAIN outcome = DOMAIN item /\ DOMAIN ended = DOMAIN item
      /\ DOMAIN said = DOMAIN item
  BY DEF Sheets
<1>3. /\ outcome'[i] = response /\ ended'[i] = why
      /\ DOMAIN item' = DOMAIN item /\ DOMAIN outcome' = DOMAIN outcome
      /\ DOMAIN ended' = DOMAIN ended
      /\ \A j \in DOMAIN item \ {i} :
            /\ item'[j] = item[j] /\ outcome'[j] = outcome[j]
            /\ ended'[j] = ended[j] /\ said'[j] = said[j]
  BY <1>1, <1>2
<1>4. QED
  BY <1>3 DEF Settles

\* An item is started, or it is settled; nothing else of the run moves.
LEMMA ItemMoves ==
    ASSUME Sheets, NEW i \in DOMAIN item, Ask1(i)
    PROVE  /\ UNCHANGED <<tool, asking, over, listing, servers, halt, told,
                          conclusion>>
           /\ asking \in Questions /\ item[i] # "settled"
           /\ \/ Settles(i)
              \/ /\ item' = [item EXCEPT ![i] = "running"]
                 /\ UNCHANGED <<outcome, ended, said>>
<1> DEFINE Rest == UNCHANGED <<tool, asking, over, listing, servers, halt, told,
                               conclusion>>
<1>1. CASE Start1(i)
  BY <1>1 DEF Start1
<1>2. CASE LeaveQueue(i)
  <2>1. /\ asking = "services" /\ item[i] = "pending"
        /\ item' = [item EXCEPT ![i] = "settled"]
        /\ outcome' = [outcome EXCEPT ![i] = "failed"]
        /\ UNCHANGED <<ended, said>> /\ Rest
    BY <1>2 DEF LeaveQueue
  <2>2. "services" \in Questions
    BY DEF Questions, Pooled
  <2>3. /\ DOMAIN outcome = DOMAIN item /\ DOMAIN ended = DOMAIN item
        /\ DOMAIN said = DOMAIN item
    BY DEF Sheets
  <2>4. outcome'[i] # Blank /\ outcome'[i] # "listed"
    BY <2>1, <2>3 DEF Blank
  <2>5. Settles(i)
    BY <2>1, <2>3, <2>4 DEF Settles
  <2>6. QED
    BY <2>1, <2>2, <2>5
<1>3. CASE Respond(i)
  <2>1. /\ UNCHANGED said /\ Rest
        /\ \E response \in Responses : Settle(i, "answer", response)
    BY <1>3 DEF Respond
  <2>2. PICK response \in Responses : Settle(i, "answer", response)
    BY <2>1
  <2>3. Settles(i)
    BY <2>1, <2>2, ResponsesAreReadings, SettlingSettles
  <2>4. QED
    BY <2>1, <2>2, <2>3 DEF Settle
<1>4. CASE DatabaseResponds(i)
  <2>1. /\ UNCHANGED said /\ Rest
        /\ \E response \in Kinds \cup {"unnamed", "failed"} :
              Settle(i, "answer", response)
    BY <1>4 DEF DatabaseResponds
  <2>2. PICK response \in Kinds \cup {"unnamed", "failed"} :
           Settle(i, "answer", response)
    BY <2>1
  <2>3. response # Blank /\ response # "listed"
    BY DEF Kinds, Blank
  <2>4. Settles(i)
    BY <2>1, <2>2, <2>3, SettlingSettles
  <2>5. QED
    BY <2>1, <2>2, <2>4 DEF Settle
<1>5. CASE ZoneResponds(i)
  <2>1. /\ asking = "zones" /\ Rest
        /\ \/ Settle(i, "answer", "clean") /\ UNCHANGED said
           \/ \E answers \in SUBSET Answers :
                 /\ said' = [said EXCEPT ![i] = answers]
                 /\ Settle(i, "answer", QueryZone(answers))
    BY <1>5 DEF ZoneResponds
  <2>2. CASE Settle(i, "answer", "clean") /\ UNCHANGED said
    <3>1. Settles(i)
      BY <2>2, SettlingSettles DEF Blank
    <3>2. QED
      BY <2>1, <2>2, <3>1 DEF Settle
  <2>3. CASE \E answers \in SUBSET Answers :
                /\ said' = [said EXCEPT ![i] = answers]
                /\ Settle(i, "answer", QueryZone(answers))
    <3>1. PICK answers \in SUBSET Answers :
                /\ said' = [said EXCEPT ![i] = answers]
                /\ Settle(i, "answer", QueryZone(answers))
      BY <2>3
    <3>2. said'[i] = answers /\ DOMAIN said' = DOMAIN said
          /\ \A j \in DOMAIN said \ {i} : said'[j] = said[j]
      BY <3>1 DEF Sheets
    <3>3. /\ QueryZone(answers) # Blank
          /\ QueryZone(answers) = "listed" =>
                "listing" \in answers /\ "refusal" \notin answers
      BY DEF QueryZone, Blank
    <3>4. Settles(i)
      BY <3>1, <3>2, <3>3, SettlingSettles
    <3>5. QED
      BY <2>1, <3>1, <3>4 DEF Settle
  <2>4. QED
    BY <2>1, <2>2, <2>3
<1>6. Unanswered # Blank /\ Unanswered # "listed"
  BY DEF Unanswered, Blank
<1>7. CASE TimeOut(i)
  <2>1. /\ UNCHANGED said /\ Rest
        /\ Settle(i, "deadline", IF asking = "ports" THEN "blocked"
                                 ELSE Unanswered)
    BY <1>7 DEF TimeOut
  <2>2. Settles(i)
    <3>1. CASE asking = "ports"
      BY <2>1, <3>1, SettlingSettles DEF Blank
    <3>2. CASE asking # "ports"
      BY <1>6, <2>1, <3>2, SettlingSettles
    <3>3. QED
      BY <3>1, <3>2
  <2>3. QED
    BY <2>1, <2>2 DEF Settle
<1>8. CASE Cut(i)
  <2> DEFINE response == IF asking # "ports" THEN Unanswered
                       ELSE IF over = "expired" THEN "blocked" ELSE "error"
  <2>1. UNCHANGED said /\ Rest /\ Settle(i, "cut", response)
    BY <1>8 DEF Cut
  <2>2. /\ response # Blank /\ response # "listed"
        /\ asking = "ports" => response \in {"blocked", "error"}
    BY <1>6 DEF Blank
  <2> HIDE DEF response
  <2>3. Settles(i)
    BY <2>1, <2>2, SettlingSettles
  <2>4. QED
    BY <2>1, <2>3 DEF Settle
<1>9. QED
  BY <1>1, <1>2, <1>3, <1>4, <1>5, <1>7, <1>8 DEF Ask1

-----------------------------------------------------------------------------
(***************************************************************************)
(* Checks: the invariant under each kind of step.                          *)
(***************************************************************************)

\* A step of an item keeps the invariant.
LEMMA ItemKeeps ==
    ASSUME ChecksInv, NEW i \in DOMAIN item, Ask1(i)
    PROVE  ChecksInv'
<1>1. /\ UNCHANGED <<tool, asking, over, listing, servers, halt, told,
                     conclusion>>
      /\ asking \in Questions /\ item[i] # "settled"
      /\ \/ Settles(i)
         \/ /\ item' = [item EXCEPT ![i] = "running"]
            /\ UNCHANGED <<outcome, ended, said>>
  BY ItemMoves DEF ChecksInv
<1>2. asking # "nothing" /\ asking # "reverse"
  BY <1>1 DEF Questions, Pooled
<1>3. /\ DOMAIN outcome = DOMAIN item /\ DOMAIN ended = DOMAIN item
      /\ DOMAIN said = DOMAIN item
  BY DEF ChecksInv, Sheets
<1>4. /\ DOMAIN item' = DOMAIN item /\ DOMAIN outcome' = DOMAIN item
      /\ DOMAIN ended' = DOMAIN item /\ DOMAIN said' = DOMAIN item
      /\ \A j \in DOMAIN item \ {i} :
            /\ item'[j] = item[j] /\ outcome'[j] = outcome[j]
            /\ ended'[j] = ended[j] /\ said'[j] = said[j]
  <2>1. CASE Settles(i)
    BY <1>3, <2>1 DEF Settles
  <2>2. CASE /\ item' = [item EXCEPT ![i] = "running"]
             /\ UNCHANGED <<outcome, ended, said>>
    BY <1>3, <2>2
  <2>3. QED
    BY <1>1, <2>1, <2>2
<1>5. /\ item'[i] = "settled" => outcome'[i] # Blank
      /\ outcome'[i] = "listed" =>
            "listing" \in said'[i] /\ "refusal" \notin said'[i]
      /\ asking = "ports" /\ item'[i] = "settled" =>
            ended'[i] = "answer" \/ outcome'[i] \in {"blocked", "error"}
  <2>1. CASE Settles(i)
    BY <2>1 DEF Settles
  <2>2. CASE /\ item' = [item EXCEPT ![i] = "running"]
             /\ UNCHANGED <<outcome, ended, said>>
    BY <2>2, <1>3 DEF ChecksInv, HitsAreListings
  <2>3. QED
    BY <1>1, <2>1, <2>2
<1>6. Places'
  BY <1>1 DEF ChecksInv, Places
<1>7. Sheets'
  BY <1>1, <1>4 DEF ChecksInv, Sheets
<1>8. Written'
  BY <1>1, <1>2, <1>4, <1>5 DEF ChecksInv, Written, Blank
<1>9. Mail'
  <2>1. SUFFICES ASSUME tool = "ports" PROVE Mail'
    BY <1>1 DEF Mail
  <2>2. asking = "ports"
    BY <1>1, <1>2, <2>1 DEF ChecksInv, Places, Questions, Pooled
  <2>3. QED
    BY <1>1, <1>2, <1>4, <1>5, <2>1, <2>2 DEF ChecksInv, Mail
<1>10. Chosen'
  BY <1>1 DEF ChecksInv, Chosen
<1>11. YesIsMeasured'
  BY <1>1, <1>2 DEF ChecksInv, Mail, YesIsMeasured
<1>12. HitsAreListings'
  BY <1>3, <1>4, <1>5 DEF ChecksInv, HitsAreListings
<1>13. QED
  BY <1>6, <1>7, <1>8, <1>9, <1>10, <1>11, <1>12 DEF ChecksInv

\* Fresh sheets have an item for every question, and nothing written yet.
LEMMA AsksClears ==
    ASSUME NEW n, Asks(n)
    PROVE  /\ DOMAIN item' = 1..n /\ DOMAIN outcome' = 1..n
           /\ DOMAIN ended' = 1..n /\ DOMAIN said' = 1..n
           /\ \A i \in 1..n : item'[i] = "pending" /\ outcome'[i] = Blank
<1>1. /\ item' = [i \in 1..n |-> "pending"] /\ outcome' = [i \in 1..n |-> Blank]
      /\ ended' = [i \in 1..n |-> "never"] /\ said' = [i \in 1..n |-> {}]
  BY DEF Asks
<1>2. QED
  BY <1>1

\* New sheets keep the invariant, in any course of the run but its end.
LEMMA NewSheetsKeep ==
    ASSUME ChecksInv, NEW n, Asks(n), asking # "nothing",
           UNCHANGED <<tool, over>>,
           \/ asking' = "nothing" /\ n = 0
           \/ asking' = "servers" /\ servers' # <<>>
           \/ asking' = "ports" /\ 1 \in 1..n /\ tool = "ports"
           \/ asking' \in {"databases", "zones"},
           tool = "ports" => asking' = "ports" /\ conclusion' = conclusion,
           tool = "carriers" =>
              \/ UNCHANGED <<listing, servers>>
              \/ listing' \in Listings /\ servers' = PickCarriers(listing')
    PROVE  ChecksInv'
<1>1. /\ DOMAIN item' = 1..n /\ DOMAIN outcome' = 1..n
      /\ DOMAIN ended' = 1..n /\ DOMAIN said' = 1..n
      /\ \A i \in 1..n : item'[i] = "pending" /\ outcome'[i] = Blank
  BY AsksClears
<1>2. Places'
  BY DEF ChecksInv, Places
<1>3. Sheets'
  <2>1. tool = "ports" => asking' = "ports" /\ 1 \in 1..n
    OBVIOUS
  <2>2. asking' # "address" /\ (asking' = "servers" => servers' # <<>>)
    OBVIOUS
  <2>3. QED
    BY <1>1, <2>1, <2>2 DEF Sheets
<1>4. Written'
  <2>1. asking' # "reverse" /\ (asking' = "nothing" => 1..n = {})
    OBVIOUS
  <2>2. QED
    BY <1>1, <2>1 DEF Written
<1>5. Mail'
  <2>1. "pending" # "settled"
    OBVIOUS
  <2>2. QED
    BY <1>1, <2>1 DEF ChecksInv, Mail
<1>6. Chosen'
  <2>1. ASSUME UNCHANGED <<listing, servers>>
        PROVE  Chosen'
    BY <2>1 DEF ChecksInv, Chosen
  <2>2. ASSUME tool = "carriers" =>
                  listing' \in Listings /\ servers' = PickCarriers(listing')
        PROVE  Chosen'
    BY <2>2 DEF Chosen
  <2>3. QED
    BY <2>1, <2>2 DEF Chosen
<1>7. YesIsMeasured'
  <2>1. tool = "ports" => conclusion' = "none"
    BY DEF ChecksInv, Mail
  <2>2. QED
    BY <2>1 DEF YesIsMeasured
<1>8. HitsAreListings'
  BY <1>1 DEF HitsAreListings, Blank
<1>9. QED
  BY <1>2, <1>3, <1>4, <1>5, <1>6, <1>7, <1>8 DEF ChecksInv

\* A turn from one question to the next, or to the end, that leaves the
\* sheets as they are.
LEMMA TurnKeeps ==
    ASSUME ChecksInv, asking # "nothing",
           UNCHANGED <<tool, item, outcome, ended, said, listing, servers>>,
           over' \in {"no", "cancelled", "expired"},
           \/ asking' = asking
           \/ /\ asking' = "reverse" /\ asking \notin {"address", "servers"}
              /\ tool = "ports" => asking = "ports"
           \/ asking' = "nothing",
           asking' \in {"reverse", "nothing"} /\ asking' # asking =>
              \/ \A i \in DOMAIN item : item[i] = "settled"
              \/ asking' = "nothing" /\ halt' # "none",
           asking' # "nothing" => conclusion' = conclusion \/ tool # "ports",
           YesIsMeasured'
    PROVE  ChecksInv'
<1>1. Places'
  BY DEF ChecksInv, Places
<1>2. Sheets'
  BY DEF ChecksInv, Sheets
<1>3. Written'
  BY DEF ChecksInv, Written
<1>4. Mail'
  BY DEF ChecksInv, Mail
<1>5. Chosen'
  BY DEF ChecksInv, Chosen
<1>6. HitsAreListings'
  BY DEF ChecksInv, HitsAreListings
<1>7. QED
  BY <1>1, <1>2, <1>3, <1>4, <1>5, <1>6 DEF ChecksInv

\* The start of a run of any of the tools.
LEMMA ChecksStart == ChecksInit => ChecksInv
<1> SUFFICES ASSUME ChecksInit PROVE ChecksInv
  OBVIOUS
<1> DEFINE n == IF tool = "services" THEN Cardinality(Wanted) ELSE 0
<1>1. /\ item = [i \in 1..n |-> "pending"] /\ outcome = [i \in 1..n |-> Blank]
      /\ ended = [i \in 1..n |-> "never"] /\ said = [i \in 1..n |-> {}]
      /\ servers = <<>> /\ listing = <<>> /\ over = "no" /\ conclusion = "none"
  BY DEF ChecksInit
<1>2. /\ DOMAIN item = 1..n /\ DOMAIN outcome = 1..n
      /\ DOMAIN ended = 1..n /\ DOMAIN said = 1..n
      /\ \A i \in 1..n : item[i] = "pending" /\ outcome[i] = Blank
  BY <1>1
<1>3. tool # "services" => 1..n = {}
  OBVIOUS
<1> HIDE DEF n
<1>4. \/ tool \in {"ports", "quality"} /\ asking = "address"
      \/ tool \in {"nearby", "carriers"} /\ asking = "servers"
      \/ tool = "services" /\ asking = "services"
  BY DEF ChecksInit, Tools
<1>5. /\ tool = "ports" => asking = "address"
      /\ asking \notin {"ports", "reverse", "nothing"}
      /\ asking \in {"address", "servers"} => 1..n = {}
  BY <1>3, <1>4
<1>6. Places
  BY <1>1, <1>5 DEF Places
<1>7. Sheets
  BY <1>2, <1>5 DEF Sheets
<1>8. Written
  BY <1>2, <1>5 DEF Written
<1>9. Mail
  BY <1>1, <1>2 DEF Mail
<1>10. Chosen /\ YesIsMeasured /\ HitsAreListings
  BY <1>1, <1>2 DEF Chosen, YesIsMeasured, HitsAreListings, Blank
<1>11. QED
  BY <1>6, <1>7, <1>8, <1>9, <1>10 DEF ChecksInv

\* Settling the verdict of the port check: a yes needs an answer from the
\* port and a name that resolves back.
LEMMA VerdictIsMeasured ==
    ASSUME ChecksInv, ReverseLookup, tool = "ports"
    PROVE  /\ YesIsMeasured' /\ asking' = "nothing"
           /\ UNCHANGED <<item, outcome, ended, said>>
<1>1. PICK names \in {"failed", "missing", "confirmed", "mismatch"},
           resolved \in Forwards :
         /\ (names = "confirmed") = ("matches" \in Range(resolved))
         /\ told' = resolved /\ conclusion' = MailVerdict(names)
         /\ asking = "reverse" /\ asking' = "nothing"
         /\ UNCHANGED <<item, outcome, ended, said>>
  BY DEF ReverseLookup
<1>2. /\ 1 \in DOMAIN item /\ item[1] = "settled"
      /\ ended[1] = "answer" \/ outcome[1] \in {"blocked", "error"}
  BY <1>1 DEF ChecksInv, Sheets, Written, Mail
<1>3. MailVerdict(names) = "yes" =>
         outcome[1] \notin {"blocked", "error"} /\ names = "confirmed"
  BY DEF MailVerdict
<1>4. QED
  BY <1>1, <1>2, <1>3 DEF YesIsMeasured

\* The speed test says what halted it unless it settled every server.
LEMMA SpeedSaysWhy ==
    ASSUME ChecksInv, SpeedDone
    PROVE  (\A i \in DOMAIN item : item[i] = "settled") \/ halt' # "none"
<1>1. /\ Complete \/ over # "no"
      /\ halt' = CASE ~Complete /\ over = "cancelled" -> "cancelled"
                   [] over = "expired" -> "budget"
                   [] OTHER -> "none"
  BY DEF SpeedDone
<1>2. CASE Complete
  BY <1>2 DEF Complete, Settled
<1>3. CASE ~Complete /\ over = "cancelled"
  BY <1>1, <1>3
<1>4. CASE ~Complete /\ over = "expired"
  BY <1>1, <1>4
<1>5. QED
  BY <1>1, <1>2, <1>3, <1>4 DEF ChecksInv, Places

\* Every step of a run keeps the invariant.
LEMMA ChecksSteps == ChecksInv /\ [ChecksNext]_checksVars => ChecksInv'
<1> SUFFICES ASSUME ChecksInv, [ChecksNext]_checksVars PROVE ChecksInv'
  OBVIOUS
<1>0. /\ Places /\ Mail
      /\ over \in {"no", "cancelled", "expired"}
      /\ YesIsMeasured
  BY DEF ChecksInv, Places
<1>1. CASE Interrupt
  <2>1. /\ asking # "nothing" /\ over' \in {"cancelled", "expired"}
        /\ UNCHANGED <<tool, item, outcome, ended, said, listing, servers,
                       asking, conclusion, told>>
    BY <1>1 DEF Interrupt
  <2>2. YesIsMeasured'
    BY <1>0, <2>1 DEF YesIsMeasured
  <2>3. QED
    BY <2>1, <2>2, TurnKeeps
<1>2. CASE AddressFound
  <2>1. /\ asking = "address" /\ Asks(Items)
        /\ asking' = IF tool = "ports" THEN "ports" ELSE "databases"
        /\ UNCHANGED <<tool, over, listing, servers, conclusion>>
    BY <1>2 DEF AddressFound
  <2>2. 1 \in 1..Items
    BY ItemsAssumption
  <2>3. asking # "nothing"
    BY <2>1
  <2>4. QED
    BY <2>1, <2>2, <2>3, NewSheetsKeep
<1>3. CASE AddressFails
  <2>1. /\ asking = "address"
        /\ UNCHANGED <<tool, over, listing, servers, halt, told>>
        /\ \/ UNCHANGED <<asking, item, outcome, ended, said, conclusion>>
           \/ /\ asking' = "nothing" /\ conclusion' = "unknown"
              /\ UNCHANGED <<item, outcome, ended, said>>
           \/ /\ asking' = "nothing" /\ conclusion' = "unknown"
              /\ item' = [i \in All |-> "settled"]
              /\ outcome' = [i \in All |-> "skipped"]
              /\ ended' = [i \in All |-> "never"]
              /\ said' = [i \in All |-> {}]
    BY <1>3 DEF AddressFails
  <2>2. DOMAIN item = {}
    BY <2>1 DEF ChecksInv, Sheets
  <2>3. conclusion' # "yes" \/ conclusion' = conclusion
    BY <2>1
  <2>4. CASE UNCHANGED <<asking, item, outcome, ended, said, conclusion>>
    <3>1. YesIsMeasured'
      BY <1>0, <2>1, <2>4 DEF YesIsMeasured
    <3>2. QED
      BY <1>0, <2>1, <2>4, <3>1, TurnKeeps
  <2>5. CASE /\ asking' = "nothing" /\ conclusion' = "unknown"
             /\ UNCHANGED <<item, outcome, ended, said>>
    <3>1. YesIsMeasured' /\ asking # "nothing"
      BY <2>1, <2>5 DEF YesIsMeasured
    <3>2. QED
      BY <1>0, <2>1, <2>2, <2>5, <3>1, TurnKeeps
  <2>6. CASE /\ asking' = "nothing" /\ conclusion' = "unknown"
             /\ item' = [i \in All |-> "settled"]
             /\ outcome' = [i \in All |-> "skipped"]
             /\ ended' = [i \in All |-> "never"]
             /\ said' = [i \in All |-> {}]
    <3>1. /\ DOMAIN item' = All /\ DOMAIN outcome' = All
          /\ DOMAIN ended' = All /\ DOMAIN said' = All
          /\ \A i \in All : item'[i] = "settled" /\ outcome'[i] = "skipped"
      BY <2>6
    <3>2. Places' /\ Sheets'
      BY <1>0, <2>1, <2>6, <3>1 DEF Places, Sheets
    <3>3. Written' /\ Mail'
      BY <2>6, <3>1 DEF Written, Mail, Blank
    <3>4. Chosen'
      BY <2>1 DEF ChecksInv, Chosen
    <3>5. YesIsMeasured' /\ HitsAreListings'
      BY <2>6, <3>1 DEF YesIsMeasured, HitsAreListings
    <3>6. QED
      BY <3>2, <3>3, <3>4, <3>5 DEF ChecksInv
  <2>7. QED
    BY <2>1, <2>4, <2>5, <2>6
<1>4. CASE ServersListed
  <2>1. /\ asking = "servers" /\ UNCHANGED <<tool, over, told>>
        /\ \E list \in Listings :
              /\ listing' = list /\ servers' = Pick(list)
              /\ Asks(Len(Pick(list)))
              /\ asking' = IF Pick(list) = <<>> THEN "nothing" ELSE "servers"
    BY <1>4 DEF ServersListed
  <2>2. PICK list \in Listings :
              /\ listing' = list /\ servers' = Pick(list)
              /\ Asks(Len(Pick(list)))
              /\ asking' = IF Pick(list) = <<>> THEN "nothing" ELSE "servers"
    BY <2>1
  <2>3. Pick(list) = <<>> => Len(Pick(list)) = 0
    OBVIOUS
  <2>4. tool # "ports" /\ asking # "nothing"
    BY <1>0, <2>1 DEF Places
  <2>5. tool = "carriers" => servers' = PickCarriers(listing')
    BY <2>2 DEF Pick
  <2>6. QED
    BY <2>1, <2>2, <2>3, <2>4, <2>5, NewSheetsKeep
<1>5. CASE ListingFails
  <2>1. /\ asking = "servers" /\ servers = <<>>
        /\ asking' = "nothing" /\ conclusion' = "unknown"
        /\ UNCHANGED <<tool, over, item, outcome, ended, said, listing, servers,
                       told>>
    BY <1>5 DEF ListingFails
  <2>2. DOMAIN item = {} /\ YesIsMeasured' /\ asking # "nothing"
    BY <2>1 DEF ChecksInv, Sheets, YesIsMeasured
  <2>3. QED
    BY <1>0, <2>1, <2>2, TurnKeeps
<1>6. CASE \E i \in DOMAIN item : Ask1(i)
  BY <1>6, ItemKeeps
<1>7. CASE PortsDone
  <2>1. /\ asking = "ports" /\ Complete /\ asking' = "reverse"
        /\ UNCHANGED <<tool, over, item, outcome, ended, said, listing, servers,
                       conclusion, told>>
    BY <1>7 DEF PortsDone
  <2>2. YesIsMeasured' /\ \A i \in DOMAIN item : item[i] = "settled"
    BY <1>0, <2>1 DEF YesIsMeasured, Complete, Settled
  <2>3. asking # "nothing"
    BY <2>1
  <2>4. QED
    BY <1>0, <2>1, <2>2, <2>3, TurnKeeps
<1>8. CASE DatabasesDone
  <2>1. /\ asking = "databases" /\ Complete /\ asking' = "reverse"
        /\ UNCHANGED <<tool, over, item, outcome, ended, said, listing, servers,
                       told>>
    BY <1>8 DEF DatabasesDone
  <2>2. tool # "ports" /\ asking # "nothing"
        /\ asking \notin {"address", "servers"}
    BY <1>0, <2>1 DEF Places
  <2>3. YesIsMeasured' /\ \A i \in DOMAIN item : item[i] = "settled"
    BY <2>1, <2>2 DEF YesIsMeasured, Complete, Settled
  <2>4. QED
    BY <1>0, <2>1, <2>2, <2>3, TurnKeeps
<1>9. CASE ReverseLookup
  <2>1. asking = "reverse" /\ asking # "nothing"
        /\ UNCHANGED <<tool, over, listing, servers, halt>>
    BY <1>9 DEF ReverseLookup
  <2>2. CASE tool = "ports"
    <3>1. /\ YesIsMeasured' /\ asking' = "nothing"
          /\ UNCHANGED <<item, outcome, ended, said>>
      BY <1>9, <2>2, VerdictIsMeasured
    <3>2. \A i \in DOMAIN item : item[i] = "settled"
      BY <2>1 DEF ChecksInv, Written
    <3>3. QED
      BY <1>0, <2>1, <3>1, <3>2, TurnKeeps
  <2>3. CASE tool # "ports"
    <3>1. asking' = "zones" /\ Asks(Items)
      BY <1>9, <2>3 DEF ReverseLookup
    <3>2. QED
      BY <2>1, <2>3, <3>1, NewSheetsKeep
  <2>4. QED
    BY <2>2, <2>3
<1>10. CASE CountOutcomes
  <2>1. /\ asking \in {"zones", "services"} /\ Complete /\ asking' = "nothing"
        /\ UNCHANGED <<tool, over, item, outcome, ended, said, listing, servers,
                       conclusion, told>>
    BY <1>10 DEF CountOutcomes
  <2>2. asking # "nothing" /\ \A i \in DOMAIN item : item[i] = "settled"
    BY <2>1 DEF Complete, Settled
  <2>3. YesIsMeasured'
    BY <1>0, <2>1 DEF YesIsMeasured
  <2>4. QED
    BY <1>0, <2>1, <2>2, <2>3, TurnKeeps
<1>11. CASE SpeedDone
  <2>1. /\ asking = "servers" /\ asking' = "nothing"
        /\ UNCHANGED <<tool, over, item, outcome, ended, said, listing, servers,
                       told>>
        /\ conclusion' \in {"measured", "unknown"}
    BY <1>11 DEF SpeedDone
  <2>2. (\A i \in DOMAIN item : item[i] = "settled") \/ halt' # "none"
    BY <1>11, SpeedSaysWhy
  <2>3. YesIsMeasured' /\ asking # "nothing"
    BY <2>1 DEF YesIsMeasured
  <2>4. QED
    BY <1>0, <2>1, <2>2, <2>3, TurnKeeps
<1>12. CASE UNCHANGED checksVars
  <2>1. UNCHANGED <<tool, asking, over, item, outcome, ended, said, listing,
                    servers, halt, told, conclusion>>
    BY <1>12 DEF checksVars
  <2>2. Places' /\ Sheets' /\ Written' /\ Mail'
    BY <2>1 DEF ChecksInv, Places, Sheets, Written, Mail
  <2>3. Chosen' /\ YesIsMeasured' /\ HitsAreListings'
    BY <2>1 DEF ChecksInv, Chosen, YesIsMeasured, HitsAreListings
  <2>4. QED
    BY <2>2, <2>3 DEF ChecksInv
<1>13. QED
  BY <1>1, <1>2, <1>3, <1>4, <1>5, <1>6, <1>7, <1>8, <1>9, <1>10, <1>11, <1>12
     DEF ChecksNext

\* Every question of a run that ended has an outcome, or the report names
\* what halted it, for any number of items and slots and every order of
\* answers, timeouts and interruptions.
THEOREM ReportsAreComplete == ChecksSpec => []NothingIsBlank
<1>1. ChecksInv => NothingIsBlank
  BY DEF ChecksInv, Sheets, Written, NothingIsBlank
<1>2. QED
  BY <1>1, ChecksStart, ChecksSteps, PTL DEF ChecksSpec

\* What a report claims was seen in this run: a yes of the port check, a hit
\* of a blocklist, and the choice of the servers, for any lists of them.
THEOREM ReportsAreTrue == ChecksSpec => []ReportIsMeasured
<1>1. ChecksInv => ReportIsMeasured
  <2>1. SUFFICES ASSUME ChecksInv PROVE ChosenAreNearest
    BY DEF ChecksInv, ReportIsMeasured
  <2>2. CASE tool = "carriers" /\ servers = <<>> /\ listing = <<>>
    <3>1. Range(servers) = {} /\ Range(listing) = {}
      BY <2>2 DEF Range
    <3>2. QED
      BY <3>1 DEF ChosenAreNearest
  <2>3. CASE tool = "carriers" /\ listing \in Listings
             /\ servers = PickCarriers(listing)
    <3>1. listing \in Seq(Entry)
      BY <2>3, ListsAssumption DEF Entry
    <3>2. QED
      BY <2>3, <3>1, PickedAreNearest DEF ChosenAreNearest
  <2>4. QED
    BY <2>1, <2>2, <2>3 DEF ChecksInv, Chosen, ChosenAreNearest
<1>2. QED
  BY <1>1, ChecksStart, ChecksSteps, PTL DEF ChecksSpec

-----------------------------------------------------------------------------
(***************************************************************************)
(* Pages: the account and node files.                                      *)
(***************************************************************************)
AccountRecord == [who : Nat, name : Names, token : Nat \ {0}, picks : SUBSET NodeIds]

\* No two accounts have a token or a name in common.
OneEach ==
    \A i, j \in DOMAIN accounts :
        accounts[i].token = accounts[j].token \/ accounts[i].name = accounts[j].name => i = j

AccountsOk ==
    /\ accounts \in Seq(AccountRecord) /\ issued \in Nat /\ OneEach
    /\ \A i \in DOMAIN accounts : accounts[i].token <= issued

SeenOk ==
    /\ seen \in [accounts : Seq(AccountRecord), nodes : Seq(NodeIds)]
    /\ \A i \in DOMAIN seen.accounts : seen.accounts[i].token <= issued

FileInv == AccountsOk /\ nodes \in Seq(NodeIds) /\ SeenOk

\* Whoever holds a token held it before, or it was not issued then.
Descends ==
    /\ issued <= issued'
    /\ \A k \in DOMAIN accounts' :
          \/ accounts'[k].token > issued
          \/ \E i \in DOMAIN accounts : /\ accounts[i].who = accounts'[k].who
                                        /\ accounts[i].token = accounts'[k].token

\* What is left of a list without one of its places.
LEMMA Removed ==
    ASSUME NEW S, NEW s \in Seq(S), NEW i \in DOMAIN s, NEW r, r = RemoveAt(s, i)
    PROVE  /\ r \in Seq(S)
           /\ \A k \in DOMAIN r : /\ k \in Nat
                                  /\ (IF k < i THEN k ELSE k + 1) \in DOMAIN s
                                  /\ r[k] = s[IF k < i THEN k ELSE k + 1]
<1>1. /\ SubSeq(s, 1, i - 1) \in Seq(S) /\ Len(SubSeq(s, 1, i - 1)) = i - 1
      /\ \A k \in 1..(i - 1) : SubSeq(s, 1, i - 1)[k] = s[k]
  OBVIOUS
<1>2. /\ SubSeq(s, i + 1, Len(s)) \in Seq(S) /\ Len(SubSeq(s, i + 1, Len(s))) = Len(s) - i
      /\ \A k \in 1..(Len(s) - i) : SubSeq(s, i + 1, Len(s))[k] = s[k + i]
  OBVIOUS
<1> DEFINE a == SubSeq(s, 1, i - 1)
           b == SubSeq(s, i + 1, Len(s))
<1>3. r = a \o b /\ i \in Nat \ {0} /\ Len(s) \in Nat /\ i <= Len(s)
  BY DEF RemoveAt
<1> HIDE DEF a, b
<1>4. /\ a \in Seq(S) /\ b \in Seq(S) /\ Len(a) = i - 1 /\ Len(b) = Len(s) - i
      /\ \A k \in 1..(i - 1) : a[k] = s[k]
      /\ \A k \in 1..(Len(s) - i) : b[k] = s[k + i]
  BY <1>1, <1>2 DEF a, b
<1>5. /\ r \in Seq(S) /\ Len(r) = Len(a) + Len(b)
      /\ \A k \in 1..Len(r) : r[k] = IF k <= Len(a) THEN a[k] ELSE b[k - Len(a)]
  <2>1. /\ a \o b \in Seq(S) /\ Len(a \o b) = Len(a) + Len(b)
        /\ \A k \in 1..(Len(a) + Len(b)) :
              (a \o b)[k] = IF k <= Len(a) THEN a[k] ELSE b[k - Len(a)]
    BY <1>4, ConcatProperties, Zenon
  <2>2. QED
    BY <1>3, <2>1
<1>6. ASSUME NEW k \in DOMAIN r
      PROVE  /\ k \in Nat /\ (IF k < i THEN k ELSE k + 1) \in DOMAIN s
             /\ r[k] = s[IF k < i THEN k ELSE k + 1]
  <2>1. k \in 1..(Len(s) - 1)
    BY <1>3, <1>4, <1>5
  <2>2. CASE k < i
    BY <1>3, <1>4, <1>5, <2>1, <2>2, SMTT(30)
  <2>3. CASE ~(k < i)
    <3>1. k - (i - 1) \in 1..(Len(s) - i) /\ k - (i - 1) + i = k + 1
      BY <1>3, <2>1, <2>3
    <3>2. r[k] = b[k - (i - 1)]
      BY <1>3, <1>4, <1>5, <2>1, <2>3, SMTT(30)
    <3>3. b[k - (i - 1)] = s[k - (i - 1) + i]
      BY <1>4, <3>1
    <3>4. QED
      BY <1>3, <2>1, <2>3, <3>1, <3>2, <3>3, SMTT(30)
  <2>4. QED
    BY <2>2, <2>3
<1>7. QED
  BY <1>5, <1>6

\* Tokens are numbers, and none is from the future.
LEMMA TokensKnown ==
    ASSUME AccountsOk
    PROVE  /\ issued \in Nat
           /\ \A k \in DOMAIN accounts :
                 /\ accounts[k] \in AccountRecord /\ k \in Nat
                 /\ accounts[k].token \in Nat \ {0} /\ accounts[k].token <= issued
<1>1. issued \in Nat /\ \A k \in DOMAIN accounts : accounts[k].token <= issued
  BY DEF AccountsOk
<1>2. \A k \in DOMAIN accounts : accounts[k] \in AccountRecord /\ k \in Nat
  BY DEF AccountsOk
<1>3. \A k \in DOMAIN accounts : accounts[k].token \in Nat \ {0}
  BY <1>2 DEF AccountRecord
<1>4. QED
  BY <1>1, <1>2, <1>3

LEMMA AccountRemoved ==
    ASSUME AccountsOk, NEW i \in DOMAIN accounts, accounts' = RemoveAt(accounts, i),
           issued' = issued
    PROVE  AccountsOk' /\ Descends
<1>1. /\ accounts' \in Seq(AccountRecord)
      /\ \A k \in DOMAIN accounts' :
            /\ k \in Nat /\ (IF k < i THEN k ELSE k + 1) \in DOMAIN accounts
            /\ accounts'[k] = accounts[IF k < i THEN k ELSE k + 1]
  BY Removed DEF AccountsOk
<1>2. OneEach'
  <2>1. SUFFICES ASSUME NEW j \in DOMAIN accounts', NEW k \in DOMAIN accounts',
                        \/ accounts'[j].token = accounts'[k].token
                        \/ accounts'[j].name = accounts'[k].name
                 PROVE  j = k
    BY DEF OneEach
  <2>2. (IF j < i THEN j ELSE j + 1) = (IF k < i THEN k ELSE k + 1)
    BY <1>1, <2>1 DEF AccountsOk, OneEach
  <2>3. j \in Nat /\ k \in Nat /\ i \in Nat
    BY <1>1 DEF AccountsOk
  <2>4. QED
    BY <2>2, <2>3
<1>3. Descends
  BY <1>1, TokensKnown DEF Descends
<1>4. \A k \in DOMAIN accounts' : accounts'[k].token <= issued'
  BY <1>1, TokensKnown
<1>5. QED
  BY <1>1, <1>2, <1>3, <1>4, TokensKnown DEF AccountsOk

\* Writing over one account: its token stays or is a new one, its name stays or
\* is free.
LEMMA AccountPut ==
    ASSUME AccountsOk, NEW i \in DOMAIN accounts, NEW x \in AccountRecord,
           accounts' = [accounts EXCEPT ![i] = x], x.who = accounts[i].who,
           \/ issued' = issued /\ x.token = accounts[i].token
           \/ issued' = issued + 1 /\ x.token = issued + 1,
           x.name = accounts[i].name \/ Unused(x.name)
    PROVE  AccountsOk' /\ Descends
<1>1. /\ accounts' \in Seq(AccountRecord) /\ DOMAIN accounts' = DOMAIN accounts
      /\ accounts'[i] = x /\ \A k \in DOMAIN accounts : k # i => accounts'[k] = accounts[k]
      /\ issued' \in Nat /\ issued <= issued' /\ issued \in Nat
  BY DEF AccountsOk
<1>2. \A k \in DOMAIN accounts : k # i => accounts[k].name # x.name /\ accounts[k].token # x.token
  <2>1. SUFFICES ASSUME NEW k \in DOMAIN accounts, k # i
                 PROVE  accounts[k].name # x.name /\ accounts[k].token # x.token
    OBVIOUS
  <2>2. accounts[k].token <= issued /\ accounts[k].token \in Nat
    BY TokensKnown
  <2>3. accounts[k].name # accounts[i].name /\ accounts[k].token # accounts[i].token
    BY <2>1 DEF AccountsOk, OneEach
  <2>4. QED
    BY <1>1, <2>2, <2>3 DEF Unused, WithName
<1>3. OneEach'
  BY <1>1, <1>2 DEF AccountsOk, OneEach
<1>4. \A k \in DOMAIN accounts' : accounts'[k].token <= issued'
  <2>1. \A k \in DOMAIN accounts : accounts[k].token <= issued /\ accounts[k].token \in Nat
    BY TokensKnown
  <2>2. QED
    BY <1>1, <2>1
<1>5. Descends
  BY <1>1 DEF Descends
<1>6. QED
  BY <1>1, <1>3, <1>4, <1>5 DEF AccountsOk

LEMMA AccountAdded ==
    ASSUME AccountsOk, NEW x \in AccountRecord, accounts' = Append(accounts, x),
           issued' = issued + 1, x.token = issued + 1, Unused(x.name)
    PROVE  AccountsOk' /\ Descends
<1>1. /\ accounts' \in Seq(AccountRecord) /\ issued \in Nat /\ Len(accounts) \in Nat
      /\ DOMAIN accounts' = DOMAIN accounts \cup {Len(accounts) + 1}
      /\ accounts'[Len(accounts) + 1] = x
      /\ \A k \in DOMAIN accounts : accounts'[k] = accounts[k]
  BY DEF AccountsOk
<1>2. \A k \in DOMAIN accounts : accounts[k].name # x.name /\ accounts[k].token # x.token
         /\ accounts[k].token <= issued /\ accounts[k].token \in Nat
  <2>1. \A k \in DOMAIN accounts : accounts[k].token <= issued /\ accounts[k].token \in Nat
    BY TokensKnown
  <2>2. \A k \in DOMAIN accounts : accounts[k].name # x.name
    BY DEF Unused, WithName
  <2>3. QED
    BY <1>1, <2>1, <2>2
<1>3. OneEach'
  BY <1>1, <1>2 DEF AccountsOk, OneEach
<1>4. Descends
  <2>1. issued <= issued' /\ x.token > issued
    BY <1>1
  <2>2. \A k \in DOMAIN accounts : accounts'[k] = accounts[k] /\ k \in DOMAIN accounts'
    BY <1>1
  <2>3. \A k \in DOMAIN accounts' : k \in DOMAIN accounts \/ accounts'[k] = x
    BY <1>1
  <2>4. QED
    BY <2>1, <2>2, <2>3 DEF Descends
<1>5. QED
  BY <1>1, <1>2, <1>3, <1>4 DEF AccountsOk

\* The choices of every account change together.
LEMMA PicksPut ==
    ASSUME AccountsOk, accounts' \in Seq(AccountRecord), DOMAIN accounts' = DOMAIN accounts,
           issued' = issued,
           \A k \in DOMAIN accounts : /\ accounts'[k].who = accounts[k].who
                                      /\ accounts'[k].name = accounts[k].name
                                      /\ accounts'[k].token = accounts[k].token
    PROVE  AccountsOk' /\ Descends
BY DEF AccountsOk, OneEach, Descends

\* Fields of an account written over.
LEMMA AccountMoves ==
    ASSUME NEW x \in AccountRecord
    PROVE  /\ \A n \in Names : LET y == [x EXCEPT !.name = n]
                               IN  /\ y \in AccountRecord /\ y.who = x.who /\ y.token = x.token
                                   /\ y.name = n
           /\ \A t \in Nat \ {0} : LET y == [x EXCEPT !.token = t]
                                   IN  /\ y \in AccountRecord /\ y.who = x.who /\ y.token = t
                                       /\ y.name = x.name
           /\ \A p \in SUBSET NodeIds : LET y == [x EXCEPT !.picks = p]
                                        IN  /\ y \in AccountRecord /\ y.who = x.who
                                            /\ y.token = x.token /\ y.name = x.name
BY DEF AccountRecord

-----------------------------------------------------------------------------
(***************************************************************************)
(* Pages: what is on screen.                                               *)
(***************************************************************************)
AllOps == UserOps \cup {"none", "plain", "add-user", "name-node", "add-node", "edit-node",
                        "delete-node"}
NoName == ""
Labels == Names \cup {NoName}
AskRecord == [op : AllOps, of : Nat, name : Labels, who : Nat]
Screen == [at : {"none", "runs", "over", "done"}, ask : AskRecord, to : Labels, pick : Nat]
Grid == [count : Nat, cursor : Nat]
RootIds == {"node", "domain", "subscribe", "users", "system", "bbr"}
TokenLists == {"users", "user-list"} \cup Pickers
PageIds == RootIds \cup TokenLists \cup
              {"root", "user-detail", "user-nodes", "node-list", "node-detail", "node-new-proto",
               "params", "bbr-versions"}
PageRecord == [id : PageIds, of : Nat, list : Seq(Nat)]

\* A page above the main menu: the tokens it acts by were issued, and the page
\* of an entry belongs to the entry the operator walked through.
FitsIn(p, last, entry) ==
    /\ p.id # "root"
    /\ p.id \in {"user-detail", "user-nodes"} => p.of <= last
    /\ p.id \in TokenLists => \A k \in DOMAIN p.list : p.list[k] <= last
    /\ p.id = "bbr-versions" => p.list # <<>>
    /\ p.id \in RootIds => p.id = entry
    /\ p.id = "node-list" => entry = "node"

Fits(p) == FitsIn(p, issued, entered)

StackInv ==
    /\ stack \in Seq(PageRecord) /\ stack # <<>> /\ stack[1].id = "root"
    /\ \A k \in 2..Len(stack) : Fits(stack[k])

SectionInv ==
    /\ Len(stack) > 1 => /\ stack[2].id = entered /\ entered \in RootIds
                         /\ section \in {"", entered} /\ ~system
    /\ Len(stack) = 1 => section = IF system THEN "system" ELSE ""
    /\ system \in BOOLEAN /\ (system => entered = "system")

CursorInv == index \in Nat /\ index < itemCount

PlaceInv == StackInv /\ SectionInv /\ CursorInv

\* What lies over a page keeps it where it is.
OverlayInv ==
    /\ form \in AskRecord /\ task \in Screen
    /\ form # NoForm => task = NoTask /\ Len(stack) > 1
    /\ system => form = NoForm /\ task = NoTask
    /\ form # NoForm \/ task # NoTask => Top.id \notin {"user-list", "node-list"} \/ index = 0
    /\ cards = NoCards \/ (cards \in Grid /\ cards.cursor < cards.count)

\* The account something is about is the one the operator means: by its token
\* always, by its name until another process changes the accounts.
Means(a) ==
    /\ a.of <= issued
    /\ \A i \in DOMAIN accounts :
          /\ accounts[i].token = a.of => accounts[i].who = a.who
          /\ ~moved /\ a.name # "" /\ accounts[i].name = a.name => accounts[i].who = a.who

HitInv ==
    /\ form.op \in UserOps => Means(form)
    /\ task.at = "runs" /\ task.ask.op \in UserOps => Means(task.ask)
    /\ task.at = "runs" /\ task.ask.op \in {"rename", "add-user"} => task.to \in Names
    /\ hit # NoHit => task.at \in {"over", "done"}
    /\ moved \in BOOLEAN /\ ActsOnItsAccount

PagesInv == FileInv /\ PlaceInv /\ OverlayInv /\ HitInv

-----------------------------------------------------------------------------
\* The files after a task.
LEMMA UserChanges ==
    ASSUME PagesInv, task.at = "runs", NEW i \in DOMAIN accounts, ChangeUser(i)
    PROVE  AccountsOk' /\ issued <= issued'
<1>1. /\ accounts[i] \in AccountRecord /\ accounts \in Seq(AccountRecord)
      /\ AccountsOk /\ nodes \in Seq(NodeIds) /\ issued \in Nat
  BY TokensKnown DEF PagesInv, FileInv, AccountsOk
<1>2. ASSUME NEW x \in AccountRecord, accounts' = [accounts EXCEPT ![i] = x],
             x.who = accounts[i].who,
             \/ issued' = issued /\ x.token = accounts[i].token
             \/ issued' = issued + 1 /\ x.token = issued + 1,
             x.name = accounts[i].name \/ Unused(x.name)
      PROVE  AccountsOk' /\ issued <= issued'
  <2>1. AccountsOk' /\ Descends
    BY <1>1, <1>2, AccountPut
  <2>2. QED
    BY <2>1 DEF Descends
<1>3. CASE task.ask.op = "rename"
  <2> DEFINE x == [accounts[i] EXCEPT !.name = task.to]
  <2>1. /\ task.to = accounts[i].name \/ Unused(task.to)
        /\ accounts' = [accounts EXCEPT ![i].name = task.to] /\ UNCHANGED issued
    BY <1>3 DEF ChangeUser
  <2>2. task.to \in Names
    BY <1>3 DEF PagesInv, HitInv
  <2>3. /\ x \in AccountRecord /\ x.who = accounts[i].who /\ x.token = accounts[i].token
        /\ x.name = task.to
    BY <1>1, <2>2, AccountMoves, Zenon
  <2>4. accounts' = [accounts EXCEPT ![i] = x]
    BY <2>1
  <2> HIDE DEF x
  <2>5. QED
    BY <1>2, <2>1, <2>3, <2>4
<1>4. CASE task.ask.op = "delete"
  <2>1. accounts' = RemoveAt(accounts, i) /\ UNCHANGED issued
    BY <1>4 DEF ChangeUser
  <2>2. QED
    BY <1>1, <2>1, AccountRemoved
<1>5. CASE task.ask.op = "rotate"
  <2> DEFINE x == [accounts[i] EXCEPT !.token = issued + 1]
  <2>1. accounts' = [accounts EXCEPT ![i].token = issued + 1] /\ issued' = issued + 1
    BY <1>5 DEF ChangeUser
  <2>2. issued + 1 \in Nat \ {0}
    BY <1>1
  <2>3. /\ x \in AccountRecord /\ x.who = accounts[i].who /\ x.token = issued + 1
        /\ x.name = accounts[i].name
    BY <1>1, <2>2, AccountMoves, Zenon
  <2>4. accounts' = [accounts EXCEPT ![i] = x]
    BY <2>1
  <2> HIDE DEF x
  <2>5. QED
    BY <1>2, <2>1, <2>3, <2>4
<1>6. CASE task.ask.op = "pick"
  <2>1. PICK p : /\ accounts' = [accounts EXCEPT ![i].picks = p] /\ UNCHANGED issued
                 /\ task.pick \in ToSet(nodes)
                 /\ p \in {accounts[i].picks \ {task.pick}, accounts[i].picks \cup {task.pick}}
    BY <1>6 DEF ChangeUser
  <2>2. p \in SUBSET NodeIds
    <3>1. task.pick \in NodeIds
      BY <1>1, <2>1 DEF ToSet
    <3>2. accounts[i].picks \in SUBSET NodeIds
      BY <1>1 DEF AccountRecord
    <3>3. QED
      BY <2>1, <3>1, <3>2
  <2> DEFINE x == [accounts[i] EXCEPT !.picks = p]
  <2>3. /\ x \in AccountRecord /\ x.who = accounts[i].who /\ x.token = accounts[i].token
        /\ x.name = accounts[i].name
    BY <1>1, <2>2, AccountMoves, Zenon
  <2>4. accounts' = [accounts EXCEPT ![i] = x]
    BY <2>1
  <2> HIDE DEF x
  <2>5. QED
    BY <1>2, <2>1, <2>3, <2>4
<1>7. CASE task.ask.op \notin {"rename", "delete", "rotate", "pick"}
  <2>1. UNCHANGED <<accounts, issued>>
    BY <1>7 DEF ChangeUser
  <2>2. QED
    BY <1>1, <2>1 DEF AccountsOk, OneEach
<1>8. QED
  BY <1>3, <1>4, <1>5, <1>6, <1>7

\* A new account has a new token and a free name.
LEMMA NewAccount ==
    ASSUME AccountsOk, NEW name \in Names, NEW picks \in SUBSET NodeIds, Unused(name),
           issued' = issued + 1, accounts' = Append(accounts, Account(issued', name, picks))
    PROVE  AccountsOk' /\ Descends
<1> DEFINE x == Account(issued + 1, name, picks)
<1>1. issued + 1 \in Nat \ {0}
  BY TokensKnown
<1>2. x \in AccountRecord /\ x.token = issued + 1 /\ x.name = name
  BY <1>1 DEF Account, AccountRecord
<1>3. accounts' = Append(accounts, x)
  OBVIOUS
<1> HIDE DEF x
<1>4. QED
  BY <1>2, <1>3, AccountAdded

\* A list of nodes that grows or loses one.
LEMMA NodesMove ==
    ASSUME nodes \in Seq(NodeIds),
           \/ \E n \in NodeIds : nodes' = Append(nodes, n)
           \/ \E i \in DOMAIN nodes : nodes' = RemoveAt(nodes, i)
    PROVE  nodes' \in Seq(NodeIds)
<1>1. CASE \E n \in NodeIds : nodes' = Append(nodes, n)
  BY <1>1
<1>2. CASE \E i \in DOMAIN nodes : nodes' = RemoveAt(nodes, i)
  BY <1>2, Removed
<1>3. QED
  BY <1>1, <1>2

LEMMA SeenTokens ==
    ASSUME SeenOk
    PROVE  \A i \in DOMAIN seen.accounts : seen.accounts[i].token \in Nat
<1>1. seen.accounts \in Seq(AccountRecord)
  BY DEF SeenOk
<1>2. \A i \in DOMAIN seen.accounts : seen.accounts[i] \in AccountRecord
  BY <1>1
<1>3. QED
  BY <1>2 DEF AccountRecord

LEMMA RunFiles ==
    ASSUME PagesInv, Run
    PROVE  FileInv' /\ issued <= issued'
<1>1. task.at = "runs" /\ UNCHANGED seen
  BY DEF Run
<1>2. /\ AccountsOk /\ nodes \in Seq(NodeIds) /\ SeenOk /\ issued \in Nat
      /\ accounts \in Seq(AccountRecord)
  BY TokensKnown DEF PagesInv, FileInv, AccountsOk
<1>3. AccountsOk' /\ nodes' \in Seq(NodeIds) /\ issued <= issued'
  <2>1. ASSUME NEW i \in DOMAIN accounts, ChangeUser(i), UNCHANGED nodes
        PROVE  AccountsOk' /\ nodes' \in Seq(NodeIds) /\ issued <= issued'
    BY <1>1, <1>2, <2>1, UserChanges
  <2>2. CASE AddUser /\ UNCHANGED nodes
    <3>1. /\ task.to \in Names /\ Unused(task.to) /\ issued' = issued + 1
          /\ accounts' = Append(accounts, Account(issued', task.to, ToSet(nodes)))
      BY <1>1, <2>2 DEF AddUser, PagesInv, HitInv
    <3>2. ToSet(nodes) \in SUBSET NodeIds
      BY <1>2 DEF ToSet
    <3>3. AccountsOk' /\ Descends
      BY <1>2, <3>1, <3>2, NewAccount
    <3>4. QED
      BY <1>2, <2>2, <3>3 DEF Descends
  <2>3. CASE ChangeNode /\ UNCHANGED issued
    <3>1. nodes' \in Seq(NodeIds)
      BY <1>2, <2>3, NodesMove DEF ChangeNode
    <3>2. CASE UNCHANGED accounts
      BY <1>2, <2>3, <3>1, <3>2 DEF AccountsOk, OneEach
    <3>3. CASE accounts' = [i \in DOMAIN accounts |->
                               [accounts[i] EXCEPT !.picks = @ \ {task.ask.of}]]
      <4> DEFINE y(i) == [accounts[i] EXCEPT !.picks = accounts[i].picks \ {task.ask.of}]
      <4>1. ASSUME NEW i \in DOMAIN accounts
            PROVE  /\ y(i) \in AccountRecord /\ y(i).who = accounts[i].who
                   /\ y(i).token = accounts[i].token /\ y(i).name = accounts[i].name
        <5>1. accounts[i] \in AccountRecord
          BY <1>2
        <5>2. accounts[i].picks \ {task.ask.of} \in SUBSET NodeIds
          BY <5>1 DEF AccountRecord
        <5>3. QED
          BY <5>1, <5>2, AccountMoves, Zenon
      <4>2. accounts' = [i \in DOMAIN accounts |-> y(i)]
        BY <3>3
      <4> HIDE DEF y
      <4>3. /\ accounts' \in Seq(AccountRecord) /\ DOMAIN accounts' = DOMAIN accounts
            /\ \A i \in DOMAIN accounts : accounts'[i] = y(i)
        BY <1>2, <4>1, <4>2
      <4>4. AccountsOk' /\ Descends
        BY <1>2, <2>3, <4>1, <4>3, PicksPut
      <4>5. QED
        BY <3>1, <4>4 DEF Descends
    <3>4. QED
      BY <2>3, <3>2, <3>3 DEF ChangeNode
  <2>4. CASE UNCHANGED <<accounts, nodes, issued>>
    BY <1>2, <2>4 DEF AccountsOk, OneEach
  <2>5. QED
    BY <2>1, <2>2, <2>3, <2>4 DEF Run
<1>4. SeenOk'
  <2>1. \A i \in DOMAIN seen.accounts : seen.accounts[i].token \in Nat
    BY <1>2, SeenTokens
  <2>2. issued' \in Nat
    BY <1>3 DEF AccountsOk
  <2>3. QED
    BY <1>1, <1>2, <1>3, <2>1, <2>2 DEF SeenOk
<1>5. QED
  BY <1>3, <1>4 DEF FileInv

LEMMA OtherFiles ==
    ASSUME PagesInv, OtherAccounts \/ OtherNodes
    PROVE  FileInv' /\ Descends /\ (moved' = TRUE \/ UNCHANGED <<accounts, moved>>)
<1>1. UNCHANGED seen
  BY DEF OtherAccounts, OtherNodes, Other
<1>2. /\ AccountsOk /\ nodes \in Seq(NodeIds) /\ SeenOk /\ issued \in Nat
      /\ accounts \in Seq(AccountRecord)
  BY TokensKnown DEF PagesInv, FileInv, AccountsOk
<1>3. AccountsOk' /\ nodes' \in Seq(NodeIds) /\ Descends
  <2>1. CASE OtherNodes
    <3>1. UNCHANGED <<accounts, issued>> /\ nodes' \in Seq(NodeIds)
      BY <1>2, <2>1, NodesMove DEF OtherNodes
    <3>2. QED
      BY <1>2, <3>1 DEF AccountsOk, OneEach, Descends
  <2>2. ASSUME NEW i \in DOMAIN accounts, NEW n \in Names, Unused(n), UNCHANGED issued,
               accounts' = [accounts EXCEPT ![i].name = n]
        PROVE  AccountsOk' /\ Descends
    <3> DEFINE x == [accounts[i] EXCEPT !.name = n]
    <3>1. accounts[i] \in AccountRecord
      BY <1>2
    <3>2. /\ x \in AccountRecord /\ x.who = accounts[i].who /\ x.token = accounts[i].token
          /\ x.name = n
      BY <3>1, AccountMoves, Zenon
    <3>3. accounts' = [accounts EXCEPT ![i] = x]
      BY <2>2
    <3> HIDE DEF x
    <3>4. QED
      BY <1>2, <2>2, <3>2, <3>3, AccountPut
  <2>3. ASSUME NEW i \in DOMAIN accounts, issued' = issued + 1,
               accounts' = [accounts EXCEPT ![i].token = issued']
        PROVE  AccountsOk' /\ Descends
    <3> DEFINE x == [accounts[i] EXCEPT !.token = issued + 1]
    <3>1. accounts[i] \in AccountRecord /\ issued + 1 \in Nat \ {0}
      BY <1>2
    <3>2. /\ x \in AccountRecord /\ x.who = accounts[i].who /\ x.token = issued + 1
          /\ x.name = accounts[i].name
      BY <3>1, AccountMoves, Zenon
    <3>3. accounts' = [accounts EXCEPT ![i] = x]
      BY <2>3
    <3> HIDE DEF x
    <3>4. QED
      BY <1>2, <2>3, <3>2, <3>3, AccountPut
  <2>4. CASE OtherAccounts
    <3>1. UNCHANGED nodes
      BY <2>4 DEF OtherAccounts
    <3>2. \/ \E i \in DOMAIN accounts : \E n \in Names :
                Unused(n) /\ accounts' = [accounts EXCEPT ![i].name = n] /\ UNCHANGED issued
          \/ \E i \in DOMAIN accounts : accounts' = RemoveAt(accounts, i) /\ UNCHANGED issued
          \/ \E i \in DOMAIN accounts :
                issued' = issued + 1 /\ accounts' = [accounts EXCEPT ![i].token = issued']
          \/ issued' = issued + 1 /\ \E n \in Names :
                Unused(n) /\ accounts' = Append(accounts, Account(issued', n, {}))
      BY <2>4, Zenon DEF OtherAccounts
    <3>3. CASE issued' = issued + 1 /\ \E n \in Names :
                  Unused(n) /\ accounts' = Append(accounts, Account(issued', n, {}))
      <4>1. PICK picks \in SUBSET NodeIds : picks = {}
        OBVIOUS
      <4>2. QED
        <5>1. PICK n \in Names :
                Unused(n) /\ accounts' = Append(accounts, Account(issued', n, picks))
          BY <3>3, <4>1
        <5>2. QED
          BY <1>2, <3>1, <3>3, <5>1, NewAccount
    <3>4. AccountsOk' /\ Descends
      BY <1>2, <2>2, <2>3, <3>2, <3>3, AccountRemoved, Zenon
    <3>5. QED
      BY <1>2, <3>1, <3>4
  <2>5. QED
    BY <2>1, <2>4
<1>4. SeenOk'
  <2>1. \A i \in DOMAIN seen.accounts : seen.accounts[i].token \in Nat
    BY <1>2, SeenTokens
  <2>2. issued' \in Nat /\ issued <= issued'
    BY <1>3 DEF AccountsOk, Descends
  <2>3. QED
    BY <1>1, <1>2, <2>1, <2>2 DEF SeenOk
<1>5. moved' = TRUE \/ UNCHANGED <<accounts, moved>>
  BY DEF OtherAccounts, OtherNodes
<1>6. QED
  BY <1>3, <1>4, <1>5 DEF FileInv

\* The snapshot is taken from the files.
LEMMA SnapshotTaken ==
    ASSUME FileInv, UNCHANGED <<accounts, nodes, issued>>,
           \/ UNCHANGED seen
           \/ seen' = [accounts |-> accounts, nodes |-> nodes]
           \/ seen' = [seen EXCEPT !.nodes = nodes]
           \/ seen' = [seen EXCEPT !.accounts = accounts]
    PROVE  FileInv'
<1>1. AccountsOk'
  BY DEF FileInv, AccountsOk, OneEach
<1>2. /\ seen'.accounts = seen.accounts \/ seen'.accounts = accounts
      /\ seen' \in [accounts : Seq(AccountRecord), nodes : Seq(NodeIds)]
  BY DEF FileInv, SeenOk, AccountsOk
<1>3. SeenOk'
  BY <1>2 DEF FileInv, SeenOk, AccountsOk
<1>4. QED
  BY <1>1, <1>3 DEF FileInv

-----------------------------------------------------------------------------
\* A page has rows.
LEMMA CountIsPositive ==
    ASSUME NEW p \in PageRecord, p.id = "bbr-versions" => p.list # <<>>
    PROVE  /\ Count(p) \in Nat \ {0}
           /\ p.id \in Lists \cup {"bbr-versions"} /\ p.list # <<>> =>
                 \A i \in 0..(Count(p) - 1) : i + 1 \in DOMAIN p.list
<1>1. p.list \in Seq(Nat) /\ Len(p.list) \in Nat /\ (p.list # <<>> => Len(p.list) > 0)
  BY DEF PageRecord
<1>2. p.id \in Lists => Count(p) = IF p.list = <<>> THEN 1 ELSE Len(p.list)
  BY DEF Count, Lists, Pickers
<1>3. p.id = "bbr-versions" => Count(p) = Len(p.list)
  BY DEF Count, Lists, Pickers
<1>4. p.id \notin Lists \cup {"bbr-versions"} => Count(p) \in {Len(Root), 7, 3, 2, 1}
  BY DEF Count
<1>5. Len(Root) = 6
  BY DEF Root
<1>6. Count(p) \in Nat \ {0}
  BY <1>1, <1>2, <1>3, <1>4, <1>5
<1>7. p.id \in Lists \cup {"bbr-versions"} /\ p.list # <<>> => Count(p) = Len(p.list)
  BY <1>2, <1>3
<1>8. QED
  BY <1>1, <1>6, <1>7

LEMMA TopKnown ==
    ASSUME StackInv
    PROVE  /\ Top \in PageRecord /\ Len(stack) \in Nat \ {0} /\ Top = stack[Len(stack)]
           /\ (Len(stack) > 1 <=> Top.id # "root") /\ (Len(stack) > 1 => Fits(Top))
           /\ Count(Top) \in Nat \ {0} /\ itemCount \in Nat \ {0}
           /\ Top.of \in Nat /\ Top.list \in Seq(Nat)
<1>1. Len(stack) \in Nat \ {0} /\ Top \in PageRecord /\ Top = stack[Len(stack)]
  BY DEF StackInv, Top
<1>2. Len(stack) > 1 => Fits(Top) /\ Top.id # "root"
  BY <1>1 DEF StackInv, Fits, FitsIn
<1>3. Len(stack) = 1 => Top.id = "root"
  BY <1>1 DEF StackInv
<1>4. Top.id = "bbr-versions" => Top.list # <<>>
  BY <1>1, <1>2, <1>3, SMTT(30) DEF Fits, FitsIn
<1>5. Count(Top) \in Nat \ {0}
  BY <1>1, <1>4, CountIsPositive
<1>6. itemCount \in Nat \ {0}
  BY <1>5 DEF itemCount
<1>7. Top.of \in Nat /\ Top.list \in Seq(Nat)
  BY <1>1 DEF PageRecord
<1>8. Len(stack) > 1 <=> Top.id # "root"
  <2>1. Len(stack) > 1 \/ Len(stack) = 1
    BY <1>1
  <2>2. CASE Len(stack) > 1
    BY <1>2, <2>2
  <2>3. CASE Len(stack) = 1
    BY <1>3, <2>3
  <2>4. QED
    BY <2>1, <2>2, <2>3
<1>9. QED
  BY <1>1, <1>2, <1>5, <1>6, <1>7, <1>8

\* The row under the cursor is one of the page.
LEMMA RowListed ==
    ASSUME StackInv, CursorInv, ~onNavRow
    PROVE  /\ index \in 0..(Count(Top) - 1)
           /\ Top.id \in Lists \cup {"bbr-versions"} /\ Top.list # <<>> =>
                 index + 1 \in DOMAIN Top.list /\ Listed \in Nat
<1>1. Count(Top) \in Nat \ {0} /\ Top \in PageRecord /\ Top.list \in Seq(Nat)
  BY TopKnown
<1>2. index \in 0..(Count(Top) - 1)
  BY <1>1 DEF CursorInv, onNavRow, itemCount, hasNavRow
<1>3. Top.id = "bbr-versions" => Top.list # <<>>
  BY TopKnown DEF Fits, FitsIn
<1>4. Top.id \in Lists \cup {"bbr-versions"} /\ Top.list # <<>> => index + 1 \in DOMAIN Top.list
  BY <1>1, <1>2, <1>3, CountIsPositive
<1>5. QED
  BY <1>1, <1>2, <1>4 DEF Listed

\* A page that fits goes on top.
LEMMA PagePushed ==
    ASSUME StackInv, NEW p \in PageRecord, Push(p), Fits(p)', issued \in Nat, issued' \in Nat,
           issued <= issued', Len(stack) > 1 => entered' = entered
    PROVE  /\ StackInv' /\ CursorInv' /\ Len(stack') = Len(stack) + 1 /\ Top' = p
           /\ index' = 0 /\ stack'[2] = IF Len(stack) > 1 THEN stack[2] ELSE p
<1>1. stack \in Seq(PageRecord) /\ Len(stack) \in Nat \ {0} /\ stack' = Append(stack, p)
  BY TopKnown DEF StackInv, Push
<1>2. /\ stack' \in Seq(PageRecord) /\ Len(stack') = Len(stack) + 1
      /\ stack'[Len(stack) + 1] = p /\ \A k \in 1..Len(stack) : stack'[k] = stack[k]
  BY <1>1
<1>3. ASSUME NEW k \in 2..Len(stack), Len(stack) > 1
      PROVE  Fits(stack[k])'
  <2>1. Fits(stack[k]) /\ stack[k] \in PageRecord /\ stack'[k] = stack[k] /\ entered' = entered
    BY <1>1, <1>2, <1>3 DEF StackInv
  <2>2. stack[k].of \in Nat /\ stack[k].list \in Seq(Nat)
    BY <2>1 DEF PageRecord
  <2>3. QED
    BY <2>1, <2>2 DEF Fits, FitsIn
<1>4. StackInv'
  <2>1. stack' # <<>> /\ stack'[1].id = "root"
    BY <1>1, <1>2 DEF StackInv
  <2>2. ASSUME NEW k \in 2..Len(stack')
        PROVE  Fits(stack[k])'
    <3>1. CASE k = Len(stack) + 1
      BY <1>1, <1>2, <3>1 DEF Fits, FitsIn
    <3>2. CASE k \in 2..Len(stack)
      BY <1>1, <1>3, <3>2
    <3>3. QED
      BY <1>1, <1>2, <3>1, <3>2
  <2>3. QED
    BY <1>2, <2>1, <2>2 DEF StackInv
<1>5. Top' = p
  BY <1>1, <1>2 DEF Top
<1>6. CursorInv'
  <2>1. (StackInv => itemCount \in Nat \ {0})'
    BY TopKnown, PTL
  <2>2. QED
    BY <1>4, <2>1 DEF CursorInv, Push
<1>7. QED
  BY <1>1, <1>2, <1>4, <1>5, <1>6 DEF Push

\* Steps that leave the page, the cursor and the section as they are.
LEMMA PlaceKept ==
    ASSUME PlaceInv, UNCHANGED <<stack, index, section, system, entered>>,
           issued \in Nat, issued' \in Nat, issued <= issued'
    PROVE  PlaceInv'
<1>1. ASSUME NEW k \in 2..Len(stack)
      PROVE  Fits(stack[k])'
  <2>1. Fits(stack[k]) /\ stack[k] \in PageRecord
    BY DEF PlaceInv, StackInv
  <2>2. stack[k].of \in Nat /\ stack[k].list \in Seq(Nat)
    BY <2>1 DEF PageRecord
  <2>3. QED
    BY <2>1, <2>2 DEF Fits, FitsIn
<1>2. StackInv'
  BY <1>1 DEF PlaceInv, StackInv
<1>3. SectionInv' /\ CursorInv'
  BY DEF PlaceInv, SectionInv, CursorInv, itemCount, Top, hasNavRow
<1>4. QED
  BY <1>2, <1>3 DEF PlaceInv

\* The cursor moves on a page.
LEMMA CursorMoves ==
    ASSUME PlaceInv, moveRows \/ moveColumn \/ Digit
    PROVE  index' \in Nat /\ index' < itemCount
<1>1. /\ Count(Top) \in Nat \ {0} /\ itemCount \in Nat \ {0} /\ index \in Nat
      /\ index < itemCount /\ itemCount = Count(Top) + (IF hasNavRow THEN 1 ELSE 0)
  BY TopKnown DEF PlaceInv, CursorInv, itemCount
<1> DEFINE n == itemCount
<1>2. PICK h \in Nat : h = colHalf /\ h > 0 /\ h <= n /\ (n > 1 => h < n)
  <2> HIDE DEF n
  <2>1. n \in Nat \ {0} /\ colHalf = (n + 1) \div 2
    BY <1>1 DEF colHalf, n
  <2>2. QED
    BY <2>1
<1>3. CASE moveRows
  <2>1. PICK wide \in BOOLEAN, d \in {-1, 1} : index' = Moved(wide, d)
    BY <1>3 DEF moveRows
  <2>2. CASE menuColumns(wide) < 2
    <3>1. index' = (index + d + n) % n
      BY <2>1, <2>2 DEF Moved
    <3> HIDE DEF n
    <3>2. n \in Nat \ {0} /\ index + d + n \in Nat
      BY <1>1 DEF n
    <3>3. index' \in Nat /\ index' < n
      BY <3>1, <3>2
    <3>4. QED
      BY <3>3 DEF n
  <2>3. CASE ~(menuColumns(wide) < 2)
    <3>1. PICK start \in Nat, height \in Nat \ {0} :
             /\ start = columnStart /\ height = columnHeight /\ start + height <= n
             /\ start <= index /\ index < start + height
      BY <1>1, <1>2 DEF columnStart, columnHeight
    <3>2. index' = start + ((index - start + d + height) % height)
      BY <2>1, <2>3, <3>1 DEF Moved
    <3> HIDE DEF n
    <3>3. index - start + d + height \in Nat
      BY <1>1, <3>1
    <3>4. (index - start + d + height) % height \in 0..(height - 1)
      BY <3>1, <3>3
    <3>5. n \in Nat
      BY <1>1 DEF n
    <3>6. index' \in Nat /\ index' < n
      BY <3>1, <3>2, <3>4, <3>5
    <3>7. QED
      BY <3>6 DEF n
  <2>4. QED
    BY <2>2, <2>3
<1>4. CASE moveColumn
  <2>1. PICK d \in {-1, 1} : index' = MovedAside(d)
    BY <1>4 DEF moveColumn
  <2>2. n > 1
    <3>1. CASE hasNavRow
      BY <1>1, <3>1
    <3>2. CASE ~hasNavRow
      <4>1. Top.id = "root"
        BY <3>2, TopKnown DEF PlaceInv, hasNavRow
      <4>2. Count(Top) = Len(Root)
        BY <4>1 DEF Count, Lists, Pickers
      <4>3. Len(Root) = 6
        BY DEF Root
      <4>4. QED
        BY <1>1, <3>2, <4>2, <4>3
    <3>3. QED
      BY <3>1, <3>2
  <2>3. QED
    BY <1>1, <1>2, <2>1, <2>2 DEF MovedAside, LesserOf
<1>5. CASE Digit
  <2>1. CASE hasNavRow /\ index' = Count(Top)
    BY <1>1, <2>1
  <2>2. CASE \E k \in 1..LesserOf(9, Count(Top)) : index' = k - 1
    BY <1>1, <2>2 DEF LesserOf
  <2>3. QED
    BY <1>5, <2>1, <2>2 DEF Digit
<1>6. QED
  BY <1>3, <1>4, <1>5

\* The tokens of a list of accounts.
LEMMA TokensListed ==
    ASSUME NEW s, s.accounts \in Seq(AccountRecord), NEW last \in Nat,
           \A i \in DOMAIN s.accounts : s.accounts[i].token <= last
    PROVE  /\ TokensOf(s.accounts) \in Seq(Nat)
           /\ \A k \in DOMAIN TokensOf(s.accounts) : TokensOf(s.accounts)[k] <= last
<1>1. \A i \in DOMAIN s.accounts : s.accounts[i].token \in Nat
  <2>1. \A i \in DOMAIN s.accounts : s.accounts[i] \in AccountRecord
    OBVIOUS
  <2>2. QED
    BY <2>1 DEF AccountRecord
<1>2. QED
  BY <1>1 DEF TokensOf

\* The pages built from a snapshot.
LEMMA MenusFit ==
    ASSUME NEW s, s.accounts \in Seq(AccountRecord), s.nodes \in Seq(NodeIds), NEW last \in Nat, NEW entry,
           \A i \in DOMAIN s.accounts : s.accounts[i].token <= last
    PROVE  /\ usersMenu(s) \in PageRecord /\ usersMenu(s).id = "users"
           /\ entry = "users" => FitsIn(usersMenu(s), last, entry)
           /\ userListMenu(usersMenu(s).list) \in PageRecord
           /\ userListMenu(usersMenu(s).list).id = "user-list"
           /\ FitsIn(userListMenu(usersMenu(s).list), last, entry)
           /\ \A act \in Pickers : accountPicker(s, act) \in PageRecord /\ FitsIn(accountPicker(s, act), last, entry)
           /\ nodeMenu(s) \in PageRecord /\ nodeMenu(s).id = "node"
           /\ nodeListMenu(nodeMenu(s).list) \in PageRecord
           /\ nodeListMenu(nodeMenu(s).list).id = "node-list"
           /\ entry = "node" => FitsIn(nodeMenu(s), last, entry) /\ FitsIn(nodeListMenu(nodeMenu(s).list), last, entry)
<1> DEFINE t == TokensOf(s.accounts)
<1>1. t \in Seq(Nat) /\ \A k \in DOMAIN t : t[k] <= last
  BY TokensListed
<1>2. s.nodes \in Seq(Nat)
  <2>1. NodeIds \subseteq Nat
    BY PagesAssumption
  <2>2. ASSUME NEW x \in Seq(NodeIds)
        PROVE  x \in Seq(Nat)
    <3>1. Len(x) \in Nat /\ x = [i \in 1..Len(x) |-> x[i]] /\ \A i \in 1..Len(x) : x[i] \in Nat
      BY <2>1
    <3>2. QED
      BY <3>1
  <2>3. QED
    BY <2>2
<1>3. /\ usersMenu(s) = Page("users", 0, t) /\ nodeMenu(s) = Page("node", 0, s.nodes)
      /\ \A act \in Pickers : accountPicker(s, act) = Page(act, 0, t)
  BY DEF usersMenu, nodeMenu, accountPicker
<1> HIDE DEF t
<1>4. /\ \A act \in {"users", "user-list"} \cup Pickers :
            /\ Page(act, 0, t) \in PageRecord
            /\ Page(act, 0, t).id = act /\ Page(act, 0, t).list = t
      /\ \A act \in {"node", "node-list"} :
            /\ Page(act, 0, s.nodes) \in PageRecord
            /\ Page(act, 0, s.nodes).id = act /\ Page(act, 0, s.nodes).list = s.nodes
  <2>1. ASSUME NEW act \in PageIds, NEW list \in Seq(Nat)
        PROVE  /\ Page(act, 0, list) \in PageRecord
               /\ Page(act, 0, list).id = act /\ Page(act, 0, list).list = list
    BY DEF Page, PageRecord
  <2>2. /\ \A act \in {"users", "user-list"} \cup Pickers : act \in PageIds
        /\ \A act \in {"node", "node-list"} : act \in PageIds
    BY DEF PageIds, TokenLists, RootIds
  <2>3. QED
    BY <1>1, <1>2, <2>1, <2>2
<1>5. /\ userListMenu(usersMenu(s).list) = Page("user-list", 0, t)
      /\ nodeListMenu(nodeMenu(s).list) = Page("node-list", 0, s.nodes)
  BY <1>3, <1>4 DEF userListMenu, nodeListMenu
<1>6. /\ entry = "users" => FitsIn(Page("users", 0, t), last, entry)
      /\ FitsIn(Page("user-list", 0, t), last, entry)
      /\ \A act \in Pickers : FitsIn(Page(act, 0, t), last, entry)
  BY <1>1, <1>4 DEF FitsIn, Pickers, TokenLists, RootIds
<1>7. entry = "node" => FitsIn(Page("node", 0, s.nodes), last, entry) /\ FitsIn(Page("node-list", 0, s.nodes), last, entry)
  BY <1>4 DEF FitsIn, Pickers, TokenLists, RootIds
<1>8. QED
  BY <1>3, <1>4, <1>5, <1>6, <1>7

\* A page on top of one that is not the main menu.
LEMMA PageEntered ==
    ASSUME PlaceInv, Len(stack) > 1, NEW p \in PageRecord, Push(p), Fits(p)',
           issued \in Nat, UNCHANGED <<issued, section, system, entered>>
    PROVE  PlaceInv'
<1>1. /\ StackInv' /\ CursorInv' /\ Len(stack') = Len(stack) + 1
      /\ stack'[2] = stack[2]
  BY PagePushed DEF PlaceInv
<1>2. Len(stack) \in Nat
  BY TopKnown DEF PlaceInv
<1>3. /\ stack[2].id = entered /\ entered \in RootIds /\ section \in {"", entered}
      /\ ~system /\ system \in BOOLEAN /\ entered' = entered /\ section' = section /\ system' = system
  BY DEF PlaceInv, SectionInv
<1>4. ~(Len(stack') = 1)
  BY <1>1, <1>2
<1>5. /\ stack'[2].id = entered' /\ entered' \in RootIds /\ section' \in {"", entered'}
      /\ ~system' /\ system' \in BOOLEAN
  <2>1. stack'[2].id = entered'
    BY <1>1, <1>3, Zenon
  <2>2. entered' \in RootIds
    BY <1>3, Zenon
  <2>3. section' \in {"", entered'}
    BY <1>3, Zenon
  <2>4. system = FALSE
    BY <1>3
  <2>5. system' = FALSE
    BY <1>3, <2>4
  <2>6. QED
    BY <2>1, <2>2, <2>3, <2>5
<1>6. SectionInv'
  BY <1>4, <1>5 DEF SectionInv
<1>7. QED
  BY <1>1, <1>6 DEF PlaceInv

\* An entry of the main menu opens its page.
LEMMA RootLeft ==
    ASSUME PlaceInv, FileInv, EnterRoot
    PROVE  PlaceInv'
<1>1. /\ Top.id = "root" /\ form = NoForm /\ task = NoTask /\ ~system /\ system = FALSE
      /\ entered' = Root[index + 1] /\ UNCHANGED <<accounts, nodes, issued>>
  BY DEF EnterRoot, AtPage, PlaceInv, SectionInv
<1>2. /\ Len(stack) = 1 /\ ~(Len(stack) > 1) /\ stack \in Seq(PageRecord) /\ StackInv
      /\ Len(stack) \in Nat
  <2>1. ~(Len(stack) > 1)
    BY <1>1, TopKnown DEF PlaceInv
  <2>2. Len(stack) \in Nat \ {0}
    BY TopKnown DEF PlaceInv
  <2>3. Len(stack) = 1
    <3> DEFINE n == Len(stack)
    <3>1. n \in Nat \ {0} /\ ~(n > 1)
      BY <2>1, <2>2
    <3> HIDE DEF n
    <3>2. n = 1
      BY <3>1
    <3>3. QED
      BY <3>2 DEF n
  <2>4. QED
    BY <2>1, <2>2, <2>3 DEF PlaceInv, StackInv
<1>3. section = ""
  BY <1>1, <1>2 DEF PlaceInv, SectionInv
<1>4. Count(Top) = 6 /\ itemCount = 6
  <2>1. Count(Top) = Len(Root)
    BY <1>1 DEF Count, Lists, Pickers
  <2>2. Len(Root) = 6
    BY DEF Root
  <2>3. QED
    BY <1>2, <2>1, <2>2 DEF itemCount, hasNavRow
<1>5. entered' \in RootIds
  <2>1. index \in 0..5
    BY <1>4 DEF PlaceInv, CursorInv
  <2>2. QED
    BY <1>1, <2>1 DEF Root, RootIds
<1>6. issued \in Nat /\ issued' = issued
  BY <1>1 DEF FileInv, AccountsOk
<1>7. ASSUME NEW p \in PageRecord, Push(p), p.id = entered', Fits(p)', system' = FALSE,
             section' \in {"", entered'}
      PROVE  PlaceInv'
  <2>1. /\ StackInv' /\ CursorInv' /\ Len(stack') = Len(stack) + 1 /\ stack'[2] = p
    <3>1. issued <= issued' /\ issued' \in Nat
      BY <1>6
    <3>2. QED
      BY <1>2, <1>6, <1>7, <3>1, PagePushed
  <2>2. SectionInv'
    <3>1. Len(stack') > 1 /\ ~(Len(stack') = 1) /\ stack'[2].id = entered'
      <4>1. Len(stack') = 2
        BY <1>2, <2>1
      <4>2. Len(stack') > 1 /\ ~(Len(stack') = 1)
        BY <4>1
      <4>3. stack'[2].id = entered'
        BY <1>7, <2>1, Zenon
      <4>4. QED
        BY <4>2, <4>3
    <3>2. QED
      BY <1>5, <1>7, <3>1 DEF SectionInv
  <2>3. QED
    BY <2>1, <2>2 DEF PlaceInv
<1>8. CASE /\ entered' \in Sections
           /\ section' = entered' /\ Push(Page(entered', 0, <<>>))
           /\ UNCHANGED <<seen, system>>
  <2>0. PICK p : p = Page(entered', 0, <<>>)
    OBVIOUS
  <2>1. p \in PageRecord /\ p.id = entered' /\ p.list = <<>> /\ p.of = 0
    <3>1. entered' \in PageIds
      BY <1>5 DEF PageIds
    <3>2. QED
      BY <2>0, <3>1 DEF Page, PageRecord
  <2>2. Fits(p)'
    BY <1>8, <2>1 DEF Fits, FitsIn, TokenLists, Pickers, Sections
  <2>3. system' = FALSE
    BY <1>1, <1>8
  <2>4. Push(p)
    BY <1>8, <2>0
  <2>5. QED
    BY <1>7, <1>8, <2>1, <2>2, <2>3, <2>4
<1>9. CASE /\ entered' = "users"
           /\ seen' = [accounts |-> accounts, nodes |-> nodes] /\ Push(usersMenu(seen'))
           /\ UNCHANGED <<section, system>>
  <2>1. PICK s : s = seen'
    OBVIOUS
  <2>2. /\ s.accounts \in Seq(AccountRecord) /\ s.nodes \in Seq(NodeIds)
        /\ \A i \in DOMAIN s.accounts : s.accounts[i].token <= issued
    BY <1>9, <2>1 DEF FileInv, AccountsOk
  <2>3. /\ usersMenu(s) \in PageRecord /\ usersMenu(s).id = "users"
        /\ FitsIn(usersMenu(s), issued', entered')
    BY <1>6, <1>9, <2>2, MenusFit
  <2>4. system' = FALSE /\ section' = ""
    BY <1>1, <1>3, <1>9
  <2>5. Push(usersMenu(s))
    BY <1>9, <2>1
  <2>6. QED
    BY <1>7, <1>9, <2>3, <2>4, <2>5 DEF Fits
<1>10. CASE /\ entered' = "node"
            /\ seen' = [seen EXCEPT !.nodes = nodes] /\ Push(nodeMenu(seen'))
            /\ UNCHANGED <<section, system>>
  <2>1. PICK s : s = seen'
    OBVIOUS
  <2>2. /\ s.accounts \in Seq(AccountRecord) /\ s.nodes \in Seq(NodeIds)
        /\ \A i \in DOMAIN s.accounts : s.accounts[i].token <= issued
    BY <1>10, <2>1 DEF FileInv, SeenOk
  <2>3. /\ nodeMenu(s) \in PageRecord /\ nodeMenu(s).id = "node"
        /\ FitsIn(nodeMenu(s), issued', entered')
    BY <1>6, <1>10, <2>2, MenusFit
  <2>4. system' = FALSE /\ section' = ""
    BY <1>1, <1>3, <1>10
  <2>5. Push(nodeMenu(s))
    BY <1>10, <2>1
  <2>6. QED
    BY <1>7, <1>10, <2>3, <2>4, <2>5 DEF Fits
<1>11. CASE /\ entered' = "system"
            /\ section' = "system" /\ system' = TRUE
            /\ UNCHANGED <<seen, stack, index>>
  <2>1. StackInv' /\ CursorInv'
    <3>1. \A k \in 2..Len(stack') : FALSE
      <4>1. Len(stack') = 1
        BY <1>2, <1>11
      <4>2. QED
        BY <4>1
    <3>2. StackInv'
      BY <1>2, <1>11, <3>1 DEF StackInv
    <3>3. CursorInv'
      BY <1>11 DEF PlaceInv, CursorInv, itemCount, Top, hasNavRow
    <3>4. QED
      BY <3>2, <3>3
  <2>2. SectionInv'
    BY <1>2, <1>11 DEF SectionInv
  <2>3. QED
    BY <2>1, <2>2 DEF PlaceInv
<1>12. QED
  BY <1>8, <1>9, <1>10, <1>11 DEF EnterRoot

\* A row that opens a page captured or built from the snapshot.
LEMMA RowOpens ==
    ASSUME PlaceInv, FileInv, EnterPage
    PROVE  PlaceInv'
<1>1. /\ issued \in Nat /\ issued' = issued /\ UNCHANGED <<issued, section, system, entered>>
      /\ Top.id # "root" /\ ~onNavRow
  <2>1. issued \in Nat
    BY DEF FileInv, AccountsOk
  <2>2. UNCHANGED <<issued, section, system, entered>>
    BY DEF EnterPage, history
  <2>3. Top.id # "root" /\ ~onNavRow
    BY DEF EnterPage, EnterOn
  <2>4. QED
    BY <2>1, <2>2, <2>3
<1>2. /\ Len(stack) > 1 /\ Top \in PageRecord /\ Fits(Top) /\ StackInv /\ CursorInv
      /\ Top.of \in Nat /\ Top.list \in Seq(Nat)
  BY <1>1, TopKnown DEF PlaceInv
<1>3. ASSUME NEW p \in PageRecord, Push(p), FitsIn(p, issued, entered)
      PROVE  PlaceInv'
  BY <1>1, <1>2, <1>3, PageEntered DEF Fits
<1>4. ASSUME NEW id \in PageIds, NEW of \in Nat, NEW list \in Seq(Nat)
      PROVE  /\ Page(id, of, list) \in PageRecord /\ Page(id, of, list).id = id
             /\ Page(id, of, list).of = of /\ Page(id, of, list).list = list
  BY DEF Page, PageRecord
<1>ids. {"user-list", "user-detail", "user-nodes", "node-list", "params", "node-detail"}
           \subseteq PageIds
  BY DEF PageIds, TokenLists
<1>none. PICK none \in Seq(Nat) : none = <<>>
  <2>1. <<>> \in Seq(Nat)
    OBVIOUS
  <2>2. QED
    BY <2>1, Zenon
<1>5. seen.accounts \in Seq(AccountRecord) /\ seen.nodes \in Seq(NodeIds)
      /\ \A i \in DOMAIN seen.accounts : seen.accounts[i].token <= issued
  BY DEF FileInv, SeenOk
<1>6. seen.nodes \in Seq(Nat)
  <2>1. NodeIds \subseteq Nat
    BY PagesAssumption
  <2>2. ASSUME NEW x \in Seq(NodeIds)
        PROVE  x \in Seq(Nat)
    <3>1. Len(x) \in Nat /\ x = [i \in 1..Len(x) |-> x[i]] /\ \A i \in 1..Len(x) : x[i] \in Nat
      BY <2>1
    <3>2. QED
      BY <3>1
  <2>3. QED
    BY <1>5, <2>2
<1>7. Top.id \in Lists /\ Top.list # <<>> => index + 1 \in DOMAIN Top.list /\ Listed \in Nat
  BY <1>1, <1>2, RowListed
<1>8. CASE EnterOn("users", 1) /\ Push(userListMenu(Top.list))
  <2> DEFINE p == Page("user-list", 0, Top.list)
  <2>1. Top.id = "users" /\ Push(p)
    BY <1>8 DEF EnterOn, userListMenu
  <2>2. p \in PageRecord /\ p.id = "user-list" /\ p.list = Top.list
    BY <1>2, <1>4, <1>ids
  <2> HIDE DEF p
  <2>3. FitsIn(p, issued, entered)
    BY <1>2, <2>1, <2>2 DEF Fits, FitsIn, TokenLists, RootIds
  <2>4. QED
    BY <1>3, <2>1, <2>2, <2>3
<1>9. CASE EnterOn("user-list", index + 1) /\ Top.list # <<>> /\ Push(userMenu(Listed))
  <2> DEFINE p == Page("user-detail", Listed, seen.nodes)
  <2>1. Top.id = "user-list" /\ Push(p) /\ index + 1 \in DOMAIN Top.list /\ Listed \in Nat
    BY <1>7, <1>9 DEF EnterOn, userMenu, Lists
  <2>2. p \in PageRecord /\ p.id = "user-detail" /\ p.of = Listed
    BY <1>4, <1>6, <1>ids, <2>1
  <2> HIDE DEF p
  <2>3. Listed <= issued
    BY <1>2, <2>1 DEF Fits, FitsIn, TokenLists, Listed
  <2>4. FitsIn(p, issued, entered)
    BY <2>2, <2>3 DEF FitsIn, TokenLists, RootIds, Pickers
  <2>5. QED
    BY <1>3, <2>1, <2>2, <2>4
<1>10. CASE EnterOn("user-detail", 4) /\ Push(userNodesMenu(Top.of, Top.list))
  <2> DEFINE p == Page("user-nodes", Top.of, Top.list)
  <2>1. Top.id = "user-detail" /\ Push(p)
    BY <1>10 DEF EnterOn, userNodesMenu
  <2>2. p \in PageRecord /\ p.id = "user-nodes" /\ p.of = Top.of
    BY <1>2, <1>4, <1>ids
  <2> HIDE DEF p
  <2>3. FitsIn(p, issued, entered)
    BY <1>2, <2>1, <2>2 DEF Fits, FitsIn, TokenLists, RootIds, Pickers
  <2>4. QED
    BY <1>3, <2>1, <2>2, <2>3
<1>11. CASE EnterOn("node", 1) /\ Push(nodeListMenu(Top.list))
  <2> DEFINE p == Page("node-list", 0, Top.list)
  <2>1. Top.id = "node" /\ Push(p)
    BY <1>11 DEF EnterOn, nodeListMenu
  <2>2. p \in PageRecord /\ p.id = "node-list"
    BY <1>2, <1>4, <1>ids
  <2> HIDE DEF p
  <2>3. FitsIn(p, issued, entered)
    BY <1>2, <2>1, <2>2 DEF Fits, FitsIn, TokenLists, RootIds, Pickers
  <2>4. QED
    BY <1>3, <2>1, <2>2, <2>3
<1>12. CASE EnterOn("node", 3) /\ Push(Page("params", 0, <<>>))
  <2> DEFINE p == Page("params", 0, none)
  <2>1. p \in PageRecord /\ p.id = "params"
    BY <1>4, <1>ids
  <2>2. Push(p)
    BY <1>12, <1>none
  <2> HIDE DEF p
  <2>3. FitsIn(p, issued, entered)
    BY <2>1 DEF FitsIn, TokenLists, RootIds, Pickers
  <2>4. QED
    BY <1>3, <2>1, <2>2, <2>3
<1>13. CASE EnterOn("node-list", index + 1) /\ Top.list # <<>> /\ Push(nodeDetailMenu(Listed))
  <2>1. Top.id = "node-list" /\ Listed \in Nat
    BY <1>7, <1>13 DEF EnterOn, Lists
  <2>2. entered = "node"
    BY <1>2, <2>1 DEF Fits, FitsIn
  <2>3. CASE Push(nodeMenu(seen))
    BY <1>1, <1>3, <1>5, <2>2, <2>3, MenusFit
  <2>4. CASE Push(Page("node-detail", Listed, <<>>))
    <3> DEFINE p == Page("node-detail", Listed, none)
    <3>1. p \in PageRecord /\ p.id = "node-detail"
      BY <1>4, <1>ids, <2>1
    <3>2. Push(p)
      BY <2>4, <1>none
    <3> HIDE DEF p
    <3>3. FitsIn(p, issued, entered)
      BY <3>1 DEF FitsIn, TokenLists, RootIds, Pickers
    <3>4. QED
      BY <1>3, <3>1, <3>2, <3>3
  <2>5. QED
    BY <1>13, <2>3, <2>4 DEF nodeDetailMenu
<1>14. CASE /\ EnterOn("subscribe", index + 1) /\ index < 2
            /\ seen' = [seen EXCEPT !.accounts = accounts]
            /\ Push(accountPicker(seen', IF index = 0 THEN "pick-cards" ELSE "pick-task"))
  <2>1. PICK s : s = seen'
    OBVIOUS
  <2>2. PICK act \in Pickers : Push(accountPicker(s, act))
    BY <1>14, <2>1 DEF Pickers
  <2>3. /\ s.accounts \in Seq(AccountRecord) /\ s.nodes \in Seq(NodeIds)
        /\ \A i \in DOMAIN s.accounts : s.accounts[i].token <= issued
    BY <1>14, <2>1 DEF FileInv, SeenOk, AccountsOk
  <2>4. accountPicker(s, act) \in PageRecord /\ FitsIn(accountPicker(s, act), issued, entered)
    BY <1>1, <2>3, MenusFit
  <2>5. QED
    BY <1>3, <2>2, <2>4
<1>15. QED
  BY <1>8, <1>9, <1>10, <1>11, <1>12, <1>13, <1>14 DEF EnterPage

\* The page of kernels, and the choice of a protocol after the name of a node.
LEMMA PlainPageOpens ==
    ASSUME PlaceInv, FileInv, OverlayInv, EnterVersions \/ SubmitName
    PROVE  PlaceInv'
<1>1. issued \in Nat /\ UNCHANGED <<issued, section, system, entered>>
  <2>1. issued \in Nat
    BY DEF FileInv, AccountsOk
  <2>2. UNCHANGED <<issued, section, system, entered>>
    BY DEF EnterVersions, SubmitName, history, files
  <2>3. QED
    BY <2>1, <2>2
<1>2. CASE EnterVersions
  <2>1. PICK list \in Seq(Nat) : list = <<0>>
    <3>1. <<0>> \in Seq(Nat)
      OBVIOUS
    <3>2. QED
      BY <3>1, Zenon
  <2> DEFINE p == Page("bbr-versions", 0, list)
  <2>2. p \in PageRecord /\ p.id = "bbr-versions" /\ p.list = <<0>>
    BY <2>1 DEF Page, PageRecord, PageIds
  <2>3. Push(p)
    BY <1>2, <2>1 DEF EnterVersions, bbrVersionsMenu
  <2> HIDE DEF p
  <2>4. Top.id = "bbr"
    BY <1>2 DEF EnterVersions, EnterOn
  <2>5. Len(stack) > 1
    BY <2>4, TopKnown DEF PlaceInv
  <2>6. p.list # <<>>
    BY <2>2
  <2>7. Fits(p)'
    BY <2>2, <2>6 DEF Fits, FitsIn, TokenLists, RootIds, Pickers
  <2>8. QED
    BY <1>1, <2>2, <2>3, <2>5, <2>7, PageEntered
<1>3. CASE SubmitName
  <2>1. PICK list \in Seq(Nat) : list = <<>>
    <3>1. <<>> \in Seq(Nat)
      OBVIOUS
    <3>2. QED
      BY <3>1, Zenon
  <2> DEFINE p == Page("node-new-proto", 0, list)
  <2>2. p \in PageRecord /\ p.id = "node-new-proto"
    BY <2>1 DEF Page, PageRecord, PageIds
  <2>3. Push(p)
    BY <1>3, <2>1 DEF SubmitName
  <2> HIDE DEF p
  <2>4. form # NoForm
    <3>1. form.op = "name-node" /\ NoForm.op = "none"
      BY <1>3 DEF SubmitName, NoForm
    <3>2. QED
      BY <3>1
  <2>5. Len(stack) > 1
    BY <2>4 DEF OverlayInv
  <2>6. Fits(p)'
    BY <2>2 DEF Fits, FitsIn, TokenLists, RootIds, Pickers
  <2>7. QED
    BY <1>1, <2>2, <2>3, <2>5, <2>6, PageEntered
<1>4. QED
  BY <1>2, <1>3

\* The way back, one page at a time.
LEMMA PageLeft ==
    ASSUME PlaceInv, FileInv, Back
    PROVE  PlaceInv'
<1>1. /\ Len(stack) > 1 /\ stack' = Front(stack) /\ index' = 0 /\ issued' = issued
      /\ section' = (IF Len(stack) = 2 THEN "" ELSE section)
      /\ entered' = entered /\ system' = system
  BY DEF Back, Pop, files, history
<1>2. stack \in Seq(PageRecord) /\ Len(stack) \in Nat /\ StackInv
  BY TopKnown DEF PlaceInv, StackInv
<1>3. /\ stack' \in Seq(PageRecord) /\ Len(stack') = Len(stack) - 1
      /\ \A k \in 1..(Len(stack) - 1) : stack'[k] = stack[k]
  <2>1. ASSUME NEW s \in Seq(PageRecord), Len(s) > 1
        PROVE  /\ SubSeq(s, 1, Len(s) - 1) \in Seq(PageRecord)
               /\ Len(SubSeq(s, 1, Len(s) - 1)) = Len(s) - 1
               /\ \A k \in 1..(Len(s) - 1) : SubSeq(s, 1, Len(s) - 1)[k] = s[k]
    BY <2>1
  <2>2. stack' = SubSeq(stack, 1, Len(stack) - 1)
    BY <1>1 DEF Front
  <2>3. QED
    BY <1>1, <1>2, <2>1, <2>2
<1> DEFINE n == Len(stack)
<1>n. n \in Nat /\ n > 1 /\ Len(stack') = n - 1
  BY <1>1, <1>2, <1>3
<1>4. StackInv'
  <2>1. stack' # <<>> /\ stack'[1].id = "root"
    <3>1. Len(stack') > 0 /\ 1 \in 1..(n - 1)
      <4> HIDE DEF n
      <4>1. QED
        BY <1>n
    <3>2. stack[1].id = "root"
      BY <1>2 DEF StackInv
    <3>3. QED
      BY <1>3, <3>1, <3>2
  <2>2. ASSUME NEW k \in 2..Len(stack')
        PROVE  Fits(stack[k])'
    <3>1. k \in 1..(n - 1) /\ k \in 2..n
      <4> HIDE DEF n
      <4>1. QED
        BY <1>n
    <3>2. Fits(stack[k]) /\ stack'[k] = stack[k]
      BY <1>2, <1>3, <3>1 DEF StackInv
    <3>3. QED
      BY <1>1, <3>2 DEF Fits
  <2>3. QED
    BY <1>3, <2>1, <2>2 DEF StackInv
<1>5. CursorInv'
  <2>1. (StackInv => itemCount \in Nat \ {0})'
    BY TopKnown, PTL
  <2>2. index' = 0
    BY <1>1
  <2>3. QED
    BY <1>4, <2>1, <2>2 DEF CursorInv
<1>6. SectionInv'
  <2>1. system = FALSE /\ stack[2].id = entered /\ entered \in RootIds /\ section \in {"", entered}
    BY <1>1 DEF PlaceInv, SectionInv
  <2>2. system' = FALSE
    BY <1>1, <2>1
  <2>3. CASE Len(stack) = 2
    <3>1. Len(stack') = 1
      BY <1>3, <2>3
    <3>2. section' = ""
      BY <1>1, <2>3
    <3>3. ~(Len(stack') > 1)
      BY <3>1
    <3>4. QED
      BY <2>2, <3>2, <3>3 DEF SectionInv
  <2>4. CASE Len(stack) # 2
    <3>1. Len(stack') > 1 /\ Len(stack') # 1 /\ 2 \in 1..(n - 1)
      <4>1. n # 2
        BY <2>4
      <4> HIDE DEF n
      <4>2. QED
        BY <1>n, <4>1
    <3>2. stack'[2] = stack[2] /\ section' = section
      BY <1>1, <1>3, <2>4, <3>1
    <3>3. stack'[2].id = entered' /\ entered' \in RootIds /\ section' \in {"", entered'}
      BY <1>1, <2>1, <3>2
    <3>4. QED
      BY <2>2, <3>1, <3>3 DEF SectionInv
  <2>5. QED
    BY <2>3, <2>4
<1>7. QED
  BY <1>4, <1>5, <1>6 DEF PlaceInv

LEMMA SystemLeft ==
    ASSUME PlaceInv, FileInv, CloseSystem
    PROVE  PlaceInv'
<1>1. /\ system /\ system' = FALSE /\ section' = "" /\ stack' = stack /\ index' = index
      /\ issued' = issued /\ entered' = entered
  BY DEF CloseSystem, files, history
<1>2. StackInv' /\ CursorInv'
  BY <1>1 DEF PlaceInv, StackInv, CursorInv, Fits, itemCount, Top, hasNavRow
<1>3. ~(Len(stack') > 1)
  BY <1>1 DEF PlaceInv, SectionInv
<1>4. SectionInv'
  BY <1>1, <1>3 DEF SectionInv
<1>5. QED
  BY <1>2, <1>4 DEF PlaceInv

\* The pages of a rebuilt stack: as before, or the new page of the same kind.
LEMMA StackRebuilt ==
    ASSUME NEW s \in Seq(PageRecord), NEW id, NEW list, NEW page \in PageRecord,
           NEW listPage \in PageRecord, NEW r, r = Rebuilt(s, id, page, list, listPage)
    PROVE  /\ r \in Seq(PageRecord) /\ Len(r) = Len(s) /\ DOMAIN r = DOMAIN s
           /\ \A k \in DOMAIN s : \/ r[k] = s[k]
                                  \/ r[k] = page /\ s[k].id = id
                                  \/ r[k] = listPage /\ s[k].id = list
<1> DEFINE at == {i \in DOMAIN s : s[i].id = id /\ \A j \in 1..(i - 1) : s[j].id # id}
           f(i) == IF i \in at THEN page
                   ELSE IF i = Len(s) /\ s[i].id = list THEN listPage ELSE s[i]
<1>1. r = [i \in DOMAIN s |-> f(i)]
  BY DEF Rebuilt
<1>2. \A i \in DOMAIN s : f(i) \in PageRecord
  OBVIOUS
<1>3. \A k \in DOMAIN s : \/ f(k) = s[k]
                          \/ f(k) = page /\ s[k].id = id
                          \/ f(k) = listPage /\ s[k].id = list
  OBVIOUS
<1> HIDE DEF f
<1>4. r \in Seq(PageRecord) /\ Len(r) = Len(s) /\ DOMAIN r = DOMAIN s
  BY <1>1, <1>2
<1>5. QED
  BY <1>1, <1>3, <1>4

\* A finished task rebuilds the menus under the cursor.
LEMMA MenusRebuilt ==
    ASSUME PlaceInv, FileInv, OverlayInv, Done
    PROVE  PlaceInv' /\ Top'.id = Top.id /\ Len(stack') = Len(stack)
<1>1. /\ task # NoTask /\ issued' = issued /\ index' = index /\ section' = section
      /\ system' = system /\ entered' = entered /\ issued \in Nat
  <2>1. task.at = "over" /\ NoTask.at = "none"
    BY DEF Done, NoTask
  <2>2. task # NoTask
    BY <2>1
  <2>3. QED
    BY <2>2 DEF Done, history, FileInv, AccountsOk
<1>2. PICK s : s = [accounts |-> accounts, nodes |-> nodes]
  OBVIOUS
<1> DEFINE users == usersMenu(s)
           listed == userListMenu(users.list)
           node == nodeMenu(s)
           nodesListed == nodeListMenu(node.list)
           first == Rebuilt(stack, "users", users, "user-list", listed)
<1>3. /\ s.accounts \in Seq(AccountRecord) /\ s.nodes \in Seq(NodeIds)
      /\ \A i \in DOMAIN s.accounts : s.accounts[i].token <= issued
  BY <1>2 DEF FileInv, AccountsOk
<1>4. /\ users \in PageRecord /\ users.id = "users"
      /\ (entered = "users" => FitsIn(users, issued, entered))
      /\ listed \in PageRecord /\ listed.id = "user-list" /\ FitsIn(listed, issued, entered)
      /\ node \in PageRecord /\ node.id = "node"
      /\ (entered = "node" => FitsIn(node, issued, entered))
      /\ nodesListed \in PageRecord /\ nodesListed.id = "node-list"
      /\ (entered = "node" => FitsIn(nodesListed, issued, entered))
  BY <1>1, <1>3, MenusFit
<1>5. stack' = Rebuilt(first, "node", node, "node-list", nodesListed)
  BY <1>2 DEF Done
<1> HIDE DEF users, listed, node, nodesListed
<1>6. /\ stack \in Seq(PageRecord) /\ Len(stack) \in Nat \ {0} /\ StackInv
      /\ DOMAIN stack = 1..Len(stack)
  BY TopKnown DEF PlaceInv, StackInv
<1>7. /\ first \in Seq(PageRecord) /\ Len(first) = Len(stack) /\ DOMAIN first = DOMAIN stack
      /\ \A k \in DOMAIN stack : \/ first[k] = stack[k]
                                 \/ first[k] = users /\ stack[k].id = "users"
                                 \/ first[k] = listed /\ stack[k].id = "user-list"
  BY <1>4, <1>6, StackRebuilt
<1> HIDE DEF first
<1>8. /\ stack' \in Seq(PageRecord) /\ Len(stack') = Len(first) /\ DOMAIN stack' = DOMAIN first
      /\ \A k \in DOMAIN first : \/ stack'[k] = first[k]
                                 \/ stack'[k] = node /\ first[k].id = "node"
                                 \/ stack'[k] = nodesListed /\ first[k].id = "node-list"
  BY <1>4, <1>5, <1>7, StackRebuilt
<1>9. ASSUME NEW k \in DOMAIN stack
      PROVE  /\ stack'[k].id = stack[k].id
             /\ \/ stack'[k] = stack[k]
                \/ /\ stack'[k] \in {users, listed, node, nodesListed}
                   /\ stack[k].id \in {"users", "user-list", "node", "node-list"}
  BY <1>4, <1>7, <1>8
<1>10. ASSUME NEW k \in 2..Len(stack)
       PROVE  FitsIn(stack'[k], issued, entered)
  <2>1. k \in DOMAIN stack /\ FitsIn(stack[k], issued, entered)
    BY <1>6 DEF StackInv, Fits
  <2>2. /\ stack[k].id = "users" => entered = "users"
        /\ stack[k].id \in {"node", "node-list"} => entered = "node"
    BY <2>1 DEF FitsIn, RootIds
  <2>3. QED
    BY <1>4, <1>9, <2>1, <2>2
<1>11. StackInv'
  <2>1. stack' # <<>> /\ 1 \in DOMAIN stack
    BY <1>6, <1>7, <1>8
  <2>2. stack'[1].id = "root"
    BY <1>6, <1>9, <2>1 DEF StackInv
  <2>3. \A k \in 2..Len(stack') : Fits(stack[k])'
    BY <1>1, <1>7, <1>8, <1>10 DEF Fits
  <2>4. QED
    BY <1>8, <2>1, <2>2, <2>3 DEF StackInv
<1>12. /\ Len(stack) \in DOMAIN stack /\ Top = stack[Len(stack)]
       /\ Top' = stack'[Len(stack)] /\ Len(stack') = Len(stack)
  BY <1>6, <1>7, <1>8 DEF Top
<1>13. Top'.id = Top.id
  BY <1>9, <1>12
<1>14. CursorInv'
  <2>1. (StackInv => itemCount \in Nat \ {0})'
    BY TopKnown, PTL
  <2>2. itemCount' \in Nat \ {0}
    BY <1>11, <2>1
  <2>3. CASE index = 0
    BY <1>1, <2>2, <2>3 DEF CursorInv
  <2>4. CASE index # 0
    <3>1. Top.id \notin {"user-list", "node-list"}
      BY <1>1, <2>4 DEF OverlayInv
    <3>2. Count(Top)' = Count(Top)
      <4>1. CASE Top' = Top
        BY <4>1 DEF Count
      <4>2. CASE Top.id = "users"
        BY <1>13, <4>2 DEF Count, Lists, Pickers
      <4>3. CASE Top.id = "node"
        BY <1>13, <4>3 DEF Count, Lists, Pickers
      <4>4. QED
        BY <1>9, <1>12, <3>1, <4>1, <4>2, <4>3
    <3>3. itemCount' = itemCount
      BY <1>12, <3>2 DEF itemCount, hasNavRow
    <3>4. QED
      BY <1>1, <3>3 DEF PlaceInv, CursorInv
  <2>5. QED
    BY <2>3, <2>4
<1>15. SectionInv'
  <2>1. Len(stack) > 1 => stack'[2].id = stack[2].id
    BY <1>6, <1>9
  <2>2. QED
    BY <1>1, <1>12, <2>1 DEF PlaceInv, SectionInv
<1>16. QED
  BY <1>11, <1>12, <1>13, <1>14, <1>15 DEF PlaceInv

\* A list of kernels lands on the page it was fetched for, if that is on top.
LEMMA ListLands ==
    ASSUME PlaceInv, FileInv, FetchLands
    PROVE  PlaceInv' /\ Top'.id = Top.id /\ Len(stack') = Len(stack)
           /\ (Top.id # "bbr-versions" => UNCHANGED <<stack, index>>)
<1>1. /\ issued' = issued /\ section' = section /\ system' = system /\ entered' = entered
      /\ issued \in Nat
  BY DEF FetchLands, files, history, FileInv, AccountsOk
<1>2. CASE Top.id # "bbr-versions"
  <2>1. UNCHANGED <<stack, index, section, system, entered>>
    BY <1>1, <1>2 DEF FetchLands
  <2>2. PlaceInv'
    BY <1>1, <2>1, PlaceKept
  <2>3. QED
    BY <1>2, <2>1, <2>2 DEF Top
<1>3. CASE Top.id = "bbr-versions"
  <2>1. PICK rows \in Seq(Nat) : Land(rows) /\ Len(rows) > 0
    <3>1. PICK n \in 0..Published : Land(IF n = 0 THEN <<0>> ELSE [i \in 1..n |-> i])
      BY <1>3 DEF FetchLands
    <3>2. CASE n = 0
      <4>1. <<0>> \in Seq(Nat) /\ Len(<<0>>) > 0
        OBVIOUS
      <4>2. QED
        BY <3>1, <3>2, <4>1, Zenon
    <3>3. CASE n # 0
      <4>1. Published \in Nat
        BY PagesAssumption
      <4>2. n \in Nat \ {0}
        BY <3>3, <4>1
      <4>3. [i \in 1..n |-> i] \in Seq(Nat) /\ Len([i \in 1..n |-> i]) > 0
        BY <4>2
      <4>4. Land([i \in 1..n |-> i])
        BY <3>1, <3>3
      <4>5. QED
        BY <4>3, <4>4, Zenon
    <3>4. QED
      BY <3>2, <3>3
  <2>2. /\ StackInv /\ Len(stack) \in Nat \ {0} /\ Top \in PageRecord /\ Top = stack[Len(stack)]
        /\ stack \in Seq(PageRecord) /\ Len(stack) > 1 /\ Fits(Top)
    BY <1>3, TopKnown DEF PlaceInv, StackInv
  <2> DEFINE p == [Top EXCEPT !.list = rows]
  <2>3. /\ p \in PageRecord /\ p.id = "bbr-versions" /\ p.list = rows
    BY <1>3, <2>2 DEF PageRecord
  <2>4. /\ stack' = [stack EXCEPT ![Len(stack)] = p]
        /\ index' = IF index >= Len(rows) THEN 0 ELSE index
    BY <2>1, <2>2 DEF Land
  <2> HIDE DEF p
  <2>5. /\ stack' \in Seq(PageRecord) /\ Len(stack') = Len(stack) /\ stack'[Len(stack)] = p
        /\ \A k \in 1..Len(stack) : k # Len(stack) => stack'[k] = stack[k]
    <3> DEFINE n == Len(stack)
    <3>1. n \in DOMAIN stack
      BY <2>2
    <3>2. QED
      BY <2>2, <2>3, <2>4, <3>1
  <2>6. FitsIn(p, issued, entered)
    <3>1. p.list # <<>>
      BY <2>1, <2>3
    <3>2. QED
      BY <2>3, <3>1 DEF FitsIn, TokenLists, RootIds, Pickers
  <2>7. StackInv'
    <3>1. stack' # <<>> /\ 1 \in 1..Len(stack) /\ 1 # Len(stack)
      <4> DEFINE n == Len(stack)
      <4>1. n \in Nat /\ n > 1 /\ Len(stack') = n
        BY <2>2, <2>5
      <4>2. stack' # <<>>
        <5>1. Len(stack') # 0 /\ Len(<<>>) = 0
          BY <4>1
        <5>2. QED
          BY <5>1
      <4> HIDE DEF n
      <4>3. 1 \in 1..n /\ 1 # n
        BY <4>1
      <4>4. QED
        BY <4>2, <4>3 DEF n
    <3>2. stack'[1].id = "root"
      BY <2>2, <2>5, <3>1 DEF StackInv
    <3>3. ASSUME NEW k \in 2..Len(stack')
          PROVE  Fits(stack[k])'
      <4>1. CASE k = Len(stack)
        BY <1>1, <2>5, <2>6, <4>1 DEF Fits
      <4>2. CASE k # Len(stack)
        <5>1. k \in 1..Len(stack) /\ k \in 2..Len(stack)
          BY <2>2, <2>5
        <5>2. Fits(stack[k]) /\ stack'[k] = stack[k]
          BY <2>2, <2>5, <4>2, <5>1 DEF StackInv
        <5>3. QED
          BY <1>1, <5>2 DEF Fits
      <4>3. QED
        BY <4>1, <4>2
    <3>4. QED
      BY <2>5, <3>1, <3>2, <3>3 DEF StackInv
  <2>8. Top' = p
    BY <2>5 DEF Top
  <2>9. Top'.id = Top.id
    BY <1>3, <2>3, <2>8
  <2>10. CursorInv'
    <3>1. Count(Top)' = Len(rows)
      <4>1. Top'.id = "bbr-versions" /\ Top'.list = rows
        BY <2>3, <2>8
      <4>2. QED
        BY <4>1 DEF Count, Lists, Pickers
    <3>2. itemCount' = Len(rows) + 1
      BY <2>2, <2>5, <3>1 DEF itemCount, hasNavRow
    <3>3. index \in Nat /\ Len(rows) \in Nat
      BY <2>1 DEF PlaceInv, CursorInv
    <3>4. QED
      BY <2>1, <2>4, <3>2, <3>3 DEF CursorInv
  <2>11. SectionInv'
    <3>1. stack'[2].id = stack[2].id
      <4>1. CASE Len(stack) = 2
        BY <2>5, <2>8, <2>9, <4>1 DEF Top
      <4>2. CASE Len(stack) # 2
        BY <2>2, <2>5, <4>2
      <4>3. QED
        BY <4>1, <4>2
    <3>2. QED
      BY <1>1, <2>5, <3>1 DEF PlaceInv, SectionInv
  <2>12. QED
    BY <1>3, <2>5, <2>7, <2>9, <2>10, <2>11 DEF PlaceInv
<1>4. QED
  BY <1>2, <1>3

-----------------------------------------------------------------------------
\* Every step keeps the files.
LEMMA FileStep ==
    ASSUME PagesInv, [Next]_vars
    PROVE  FileInv' /\ issued <= issued' /\ issued \in Nat /\ issued' \in Nat
<1>1. issued \in Nat /\ FileInv
  BY DEF PagesInv, FileInv, AccountsOk
<1>2. FileInv' => issued' \in Nat
  BY DEF FileInv, AccountsOk
<1>3. CASE Run
  BY <1>1, <1>2, <1>3, RunFiles
<1>4. CASE OtherAccounts \/ OtherNodes
  BY <1>1, <1>2, <1>4, OtherFiles DEF Descends
<1>5. ASSUME UNCHANGED <<accounts, nodes, issued>>,
             \/ UNCHANGED seen
             \/ seen' = [accounts |-> accounts, nodes |-> nodes]
             \/ seen' = [seen EXCEPT !.nodes = nodes]
             \/ seen' = [seen EXCEPT !.accounts = accounts]
      PROVE  FileInv' /\ issued <= issued'
  BY <1>1, <1>5, SnapshotTaken
<1>6. CASE EnterRoot
  BY <1>1, <1>2, <1>5, <1>6 DEF EnterRoot
<1>7. CASE EnterPage
  BY <1>1, <1>2, <1>5, <1>7 DEF EnterPage
<1>8. CASE Done
  BY <1>1, <1>2, <1>5, <1>8 DEF Done
<1>9. CASE UNCHANGED files
  BY <1>1, <1>2, <1>5, <1>9 DEF files
<1>10. CASE Move
  BY <1>9, <1>10 DEF Move, moveRows, moveColumn, Digit, Back
<1>11. CASE EnterVersions \/ EnterCards
  BY <1>9, <1>11 DEF EnterVersions, EnterCards, ShowCards
<1>12. CASE EnterForm
  BY <1>9, <1>12 DEF EnterForm, OpenForm, UserForm, NodeForm, Begin
<1>13. CASE EnterTask
  BY <1>9, <1>13 DEF EnterTask, UserTask, StartTask, Begin
<1>14. CASE Overlay
  BY <1>9, <1>14 DEF Overlay, CloseSystem, MoveCards, DropForm, SubmitName, SubmitForm
<1>15. CASE LeaveTask \/ FetchLands
  BY <1>9, <1>15 DEF LeaveTask, FetchLands
<1>16. CASE UNCHANGED vars
  BY <1>9, <1>16 DEF vars
<1>17. QED
  BY <1>3, <1>4, <1>6, <1>7, <1>8, <1>10, <1>11, <1>12, <1>13, <1>14, <1>15, <1>16
     DEF Next, Enter, Background

\* Every step leaves a page with its cursor on a row.
LEMMA PlaceStep ==
    ASSUME PagesInv, [Next]_vars
    PROVE  PlaceInv'
<1>1. PlaceInv /\ FileInv /\ OverlayInv
  BY DEF PagesInv
<1>2. issued \in Nat /\ issued' \in Nat /\ issued <= issued'
  BY FileStep
<1>3. ASSUME UNCHANGED <<stack, index, section, system, entered>>
      PROVE  PlaceInv'
  BY <1>1, <1>2, <1>3, PlaceKept
<1>4. CASE moveRows \/ moveColumn \/ Digit
  <2>1. index' \in Nat /\ index' < itemCount
    BY <1>1, <1>4, CursorMoves
  <2>2. /\ stack' = stack /\ section' = section /\ system' = system /\ entered' = entered
        /\ issued' = issued
    BY <1>4 DEF moveRows, moveColumn, Digit, files, history
  <2>3. StackInv'
    BY <1>1, <2>2 DEF PlaceInv, StackInv, Fits
  <2>4. SectionInv'
    BY <1>1, <2>2 DEF PlaceInv, SectionInv
  <2>5. CursorInv'
    BY <2>1, <2>2 DEF CursorInv, itemCount, hasNavRow, Top
  <2>6. QED
    BY <2>3, <2>4, <2>5 DEF PlaceInv
<1>5. CASE Back
  BY <1>1, <1>5, PageLeft
<1>6. CASE EnterRoot
  BY <1>1, <1>6, RootLeft
<1>7. CASE EnterPage
  BY <1>1, <1>7, RowOpens
<1>8. CASE EnterVersions \/ SubmitName
  BY <1>1, <1>8, PlainPageOpens
<1>9. CASE CloseSystem
  BY <1>1, <1>9, SystemLeft
<1>10. CASE Done
  BY <1>1, <1>10, MenusRebuilt
<1>11. CASE FetchLands
  BY <1>1, <1>11, ListLands
<1>12. CASE EnterCards \/ MoveCards \/ DropForm \/ SubmitForm
  BY <1>3, <1>12 DEF EnterCards, ShowCards, MoveCards, DropForm, SubmitForm, place, history
<1>13. CASE EnterForm
  BY <1>3, <1>13 DEF EnterForm, OpenForm, UserForm, NodeForm, Begin, place
<1>14. CASE EnterTask
  BY <1>3, <1>14 DEF EnterTask, UserTask, StartTask, Begin, place
<1>15. CASE Run \/ LeaveTask
  BY <1>3, <1>15 DEF Run, LeaveTask, place
<1>16. CASE OtherAccounts \/ OtherNodes
  BY <1>3, <1>16 DEF OtherAccounts, OtherNodes, Other, place
<1>17. CASE UNCHANGED vars
  BY <1>3, <1>17 DEF vars, place, history
<1>18. QED
  BY <1>4, <1>5, <1>6, <1>7, <1>8, <1>9, <1>10, <1>11, <1>12, <1>13, <1>14, <1>15, <1>16, <1>17
     DEF Next, Move, Enter, Overlay, Background

\* What a prompt or a task is about.
LEMMA AboutKnown ==
    ASSUME AccountsOk, NEW op \in AllOps, NEW of \in Nat, NEW name \in Labels,
           NEW a, a = About(op, of, name)
    PROVE  /\ a \in AskRecord /\ a.op = op /\ a.of = of /\ a.name = name
           /\ \A i \in DOMAIN accounts : accounts[i].token = of => accounts[i].who = a.who
<1>1. PICK w : w = IF Holder(of) = {} THEN 0 ELSE CHOOSE v \in Holder(of) : TRUE
  OBVIOUS
<1>2. \A i \in DOMAIN accounts : accounts[i].who \in Nat
  <2>1. \A i \in DOMAIN accounts : accounts[i] \in AccountRecord
    BY TokensKnown
  <2>2. QED
    BY <2>1 DEF AccountRecord
<1>3. w \in Nat
  <2>1. Holder(of) # {} => w \in Holder(of)
    BY <1>1
  <2>2. Holder(of) \subseteq Nat
    BY <1>2 DEF Holder, WithToken
  <2>3. QED
    BY <1>1, <2>1, <2>2
<1>4. ASSUME NEW i \in DOMAIN accounts, accounts[i].token = of
      PROVE  accounts[i].who = w
  <2>1. \A k \in DOMAIN accounts : accounts[k].token = of => k = i
    BY <1>4 DEF AccountsOk, OneEach
  <2>2. Holder(of) = {accounts[i].who}
    BY <1>4, <2>1 DEF Holder, WithToken
  <2>3. QED
    BY <1>1, <2>2
<1>5. About(op, of, name) = [op |-> op, of |-> of, name |-> name, who |-> w]
  BY <1>1 DEF About
<1>6. a = [op |-> op, of |-> of, name |-> name, who |-> w]
  BY <1>5
<1>7. a \in AskRecord /\ a.op = op /\ a.of = of /\ a.name = name /\ a.who = w
  <2>1. a.op = op /\ a.of = of /\ a.name = name /\ a.who = w
    BY <1>6
  <2>2. w \in Nat /\ op \in AllOps /\ of \in Nat /\ name \in Labels
    BY <1>3
  <2>3. a \in [op : AllOps, of : Nat, name : Labels, who : Nat]
    BY <1>6, <2>2
  <2>4. QED
    BY <2>1, <2>3 DEF AskRecord
<1>8. QED
  BY <1>4, <1>7

\* The name something is about, if any, is that of the account with the token.
NamedBy(of, name) ==
    name = "" \/ \E i \in DOMAIN accounts : accounts[i].token = of /\ accounts[i].name = name

\* A prompt or a task that begins means the account its page or the file tells.
LEMMA AboutMeans ==
    ASSUME AccountsOk, NEW op \in AllOps, NEW of \in Nat, NEW name \in Labels,
           of <= issued, UNCHANGED <<accounts, issued>>, NamedBy(of, name)
    PROVE  Means(About(op, of, name))'
<1>1. PICK a : a = About(op, of, name)
  OBVIOUS
<1>2. /\ a.of = of /\ a.name = name
      /\ \A i \in DOMAIN accounts : accounts[i].token = of => accounts[i].who = a.who
  BY <1>1, AboutKnown
<1>3. ASSUME NEW i \in DOMAIN accounts, name # "", accounts[i].name = name
      PROVE  accounts[i].who = a.who
  <2>1. PICK k \in DOMAIN accounts : accounts[k].token = of /\ accounts[k].name = name
    BY <1>3 DEF NamedBy
  <2>2. i = k
    BY <1>3, <2>1 DEF AccountsOk, OneEach
  <2>3. QED
    BY <1>2, <2>1, <2>2
<1>4. About(op, of, name)' = a
  BY <1>1 DEF About, Holder, WithToken
<1>5. /\ a.of <= issued'
      /\ \A i \in DOMAIN accounts' :
            /\ accounts'[i].token = a.of => accounts'[i].who = a.who
            /\ a.name # "" /\ accounts'[i].name = a.name => accounts'[i].who = a.who
  BY <1>2, <1>3
<1>6. QED
  BY <1>4, <1>5 DEF Means

\* It means that account as long as it is open.
LEMMA MeansKept ==
    ASSUME FileInv, NEW a \in AskRecord, Means(a), Descends, issued \in Nat,
           FileInv', moved' = TRUE \/ UNCHANGED <<accounts, moved>>
    PROVE  /\ a.of <= issued'
           /\ \A i \in DOMAIN accounts' :
                 /\ accounts'[i].token = a.of => accounts'[i].who = a.who
                 /\ ~moved' /\ a.name # "" /\ accounts'[i].name = a.name
                       => accounts'[i].who = a.who
<1>1. a.of \in Nat /\ a.of <= issued /\ issued <= issued' /\ issued' \in Nat
  BY DEF AskRecord, Means, Descends, FileInv, AccountsOk
<1>2. ASSUME NEW i \in DOMAIN accounts', accounts'[i].token = a.of
      PROVE  accounts'[i].who = a.who
  <2>1. ~(accounts'[i].token > issued)
    BY <1>1, <1>2
  <2>2. PICK k \in DOMAIN accounts : /\ accounts[k].who = accounts'[i].who
                                     /\ accounts[k].token = accounts'[i].token
    BY <2>1 DEF Descends
  <2>3. QED
    BY <1>2, <2>2 DEF Means
<1>3. ASSUME NEW i \in DOMAIN accounts', ~moved', a.name # "", accounts'[i].name = a.name
      PROVE  accounts'[i].who = a.who
  <2>1. accounts' = accounts /\ moved' = moved
    BY <1>3
  <2>2. ~moved
    BY <1>3, <2>1
  <2>3. QED
    BY <1>3, <2>1, <2>2 DEF Means
<1>4. a.of <= issued'
  BY <1>1
<1>5. QED
  BY <1>2, <1>3, <1>4

LEMMA NoneKnown ==
    /\ NoForm \in AskRecord /\ NoForm.op = "none" /\ NoTask \in Screen /\ NoTask.at = "none"
    /\ "" \in Labels /\ NoName \in Labels
<1>1. "" \in Labels /\ NoName \in Labels
  BY DEF Labels, NoName
<1>2. NoForm \in AskRecord /\ NoForm.op = "none"
  BY <1>1 DEF AskRecord, AllOps, NoForm
<1>3. NoTask \in Screen /\ NoTask.at = "none"
  BY <1>1, <1>2 DEF Screen, NoTask
<1>4. QED
  BY <1>1, <1>2, <1>3

\* What is open above a page while the page takes input: nothing.
LEMMA PageIsFree ==
    ASSUME PagesInv, AtPage
    PROVE  /\ form = NoForm /\ task = NoTask /\ system = FALSE /\ hit = NoHit
           /\ form.op \notin UserOps /\ task.at = "none"
<1>1. form = NoForm /\ task = NoTask /\ system = FALSE
  BY DEF AtPage, PagesInv, PlaceInv, SectionInv
<1>2. form.op = "none" /\ task.at = "none"
  BY <1>1, NoneKnown
<1>3. hit = NoHit
  BY <1>2 DEF PagesInv, HitInv
<1>4. QED
  BY <1>1, <1>2, <1>3 DEF UserOps

\* A prompt opens.
LEMMA FormOpened ==
    ASSUME PagesInv, AtPage, Len(stack) > 1, Top.id \notin {"user-list", "node-list"} \/ index = 0,
           NEW op \in AllOps \ {"none"}, NEW of \in Nat, NEW name \in Labels,
           op \in UserOps => of <= issued /\ NamedBy(of, name), OpenForm(op, of, name)
    PROVE  OverlayInv' /\ HitInv'
<1>1. /\ form = NoForm /\ task = NoTask /\ system = FALSE /\ hit = NoHit /\ task.at = "none"
  BY PageIsFree
<1>2. /\ form' = About(op, of, name) /\ task' = task /\ moved' = FALSE /\ hit' = hit
      /\ cards' = cards /\ stack' = stack /\ index' = index /\ section' = section
      /\ system' = system /\ accounts' = accounts /\ issued' = issued
  BY DEF OpenForm, Begin, files, place
<1>3. AccountsOk /\ OverlayInv
  BY DEF PagesInv, FileInv
<1>4. form' \in AskRecord /\ form'.op = op
  BY <1>2, <1>3, AboutKnown
<1>5. OverlayInv'
  <2>1. task' \in Screen /\ task' = NoTask /\ system' = FALSE
    BY <1>1, <1>2, NoneKnown
  <2>2. Len(stack') > 1 /\ (Top'.id \notin {"user-list", "node-list"} \/ index' = 0)
    BY <1>2 DEF Top
  <2>3. cards' = NoCards \/ (cards' \in Grid /\ cards'.cursor < cards'.count)
    BY <1>2, <1>3 DEF OverlayInv
  <2>4. QED
    BY <1>4, <2>1, <2>2, <2>3 DEF OverlayInv
<1>6. HitInv'
  <2>1. op \in UserOps => Means(About(op, of, name))'
    BY <1>2, <1>3, AboutMeans
  <2>2. About(op, of, name)' = form'
    BY <1>2 DEF About, Holder, WithToken
  <2>3. op \in UserOps => Means(form)'
    BY <2>1, <2>2 DEF Means
  <2>4. task'.at = "none" /\ hit' = NoHit /\ moved' \in BOOLEAN
    BY <1>1, <1>2
  <2>5. QED
    BY <1>4, <2>3, <2>4 DEF HitInv, ActsOnItsAccount
<1>7. QED
  BY <1>5, <1>6

\* A task starts from a page.
LEMMA TaskStarted ==
    ASSUME PagesInv, AtPage, Top.id \notin {"user-list", "node-list"},
           NEW op \in AllOps \ {"rename", "add-user"}, NEW of \in Nat, of <= issued,
           NEW n \in Nat, StartTask(About(op, of, NoName), n)
    PROVE  OverlayInv' /\ HitInv'
<1>1. /\ form = NoForm /\ task = NoTask /\ system = FALSE /\ hit = NoHit /\ task.at = "none"
  BY PageIsFree
<1>2. PICK a : a = About(op, of, NoName)
  OBVIOUS
<1>3. /\ task' = [at |-> "runs", ask |-> a, to |-> "", pick |-> n] /\ form' = form
      /\ moved' = FALSE /\ hit' = hit
      /\ cards' = cards /\ stack' = stack /\ index' = index /\ section' = section
      /\ system' = system /\ accounts' = accounts /\ issued' = issued
  BY <1>2 DEF StartTask, Begin, files, place
<1>4. AccountsOk /\ OverlayInv
  BY DEF PagesInv, FileInv
<1>5. a \in AskRecord /\ a.op = op
  <2>1. NoName \in Labels
    BY NoneKnown
  <2>2. QED
    BY <1>2, <1>4, <2>1, AboutKnown
<1>6. task' \in Screen /\ task'.ask = a /\ task'.at = "runs" /\ task'.to = ""
  BY <1>3, <1>5, NoneKnown DEF Screen
<1>7. OverlayInv'
  <2>1. form' = NoForm /\ form' \in AskRecord /\ system' = FALSE
    BY <1>1, <1>3, NoneKnown
  <2>2. Top'.id \notin {"user-list", "node-list"}
    BY <1>3 DEF Top
  <2>3. cards' = NoCards \/ (cards' \in Grid /\ cards'.cursor < cards'.count)
    BY <1>3, <1>4 DEF OverlayInv
  <2>4. QED
    BY <1>6, <2>1, <2>2, <2>3 DEF OverlayInv
<1>8. HitInv'
  <2>1. Means(About(op, of, NoName))'
    BY <1>3, <1>4, AboutMeans, NoneKnown DEF NamedBy, NoName
  <2>2. About(op, of, NoName)' = a
    BY <1>2, <1>3, ZenonT(60) DEF About, Holder, WithToken
  <2>3. Means(task.ask)'
    BY <1>6, <2>1, <2>2 DEF Means
  <2>4. hit' = NoHit /\ moved' \in BOOLEAN /\ form'.op = "none"
    BY <1>1, <1>3, NoneKnown
  <2>5. QED
    BY <1>5, <1>6, <2>3, <2>4 DEF HitInv, ActsOnItsAccount, UserOps
<1>9. QED
  BY <1>7, <1>8

\* Steps after which nothing is open above the page but, perhaps, the grid.
LEMMA PageIsFreed ==
    ASSUME form' = NoForm, task' = NoTask, hit' = NoHit, moved' \in BOOLEAN,
           cards' = NoCards \/ (cards' \in Grid /\ cards'.cursor < cards'.count)
    PROVE  OverlayInv' /\ HitInv'
<1>1. /\ form' \in AskRecord /\ task' \in Screen /\ form'.op = "none" /\ task'.at = "none"
  BY NoneKnown
<1>2. OverlayInv'
  BY <1>1 DEF OverlayInv
<1>3. HitInv'
  BY <1>1 DEF HitInv, ActsOnItsAccount, UserOps
<1>4. QED
  BY <1>2, <1>3

\* The grid of links keeps its cursor.
LEMMA GridMoves ==
    ASSUME PagesInv, MoveCards
    PROVE  cards' = NoCards \/ (cards' \in Grid /\ cards'.cursor < cards'.count)
<1>1. cards \in Grid /\ cards.cursor < cards.count /\ cards.count \in Nat /\ cards.cursor \in Nat
  BY DEF PagesInv, OverlayInv, MoveCards, Grid
<1>2. ASSUME NEW c \in Nat, c < cards.count, cards' = [cards EXCEPT !.cursor = c]
      PROVE  cards' \in Grid /\ cards'.cursor < cards'.count
  BY <1>1, <1>2 DEF Grid
<1>3. CASE \E d \in {-3, -2, -1, 1, 2, 3} :
              LET to == cards.cursor + d
              IN  cards' = [cards EXCEPT !.cursor =
                              IF to < 0 THEN 0 ELSE LesserOf(to, cards.count - 1)]
  <2>1. PICK d \in {-3, -2, -1, 1, 2, 3} :
           cards' = [cards EXCEPT !.cursor =
                       IF cards.cursor + d < 0 THEN 0
                       ELSE LesserOf(cards.cursor + d, cards.count - 1)]
    BY <1>3
  <2>2. PICK c : c = IF cards.cursor + d < 0 THEN 0
                     ELSE LesserOf(cards.cursor + d, cards.count - 1)
    OBVIOUS
  <2>3. c \in Nat /\ c < cards.count
    BY <1>1, <2>2 DEF LesserOf
  <2>4. cards' = [cards EXCEPT !.cursor = c]
    BY <2>1, <2>2
  <2>5. QED
    BY <1>2, <2>3, <2>4
<1>4. CASE \E n \in 1..cards.count : cards' = [cards EXCEPT !.cursor = n - 1]
  <2>1. PICK n \in 1..cards.count : cards' = [cards EXCEPT !.cursor = n - 1]
    BY <1>4
  <2>2. n - 1 \in Nat /\ n - 1 < cards.count
    BY <1>1
  <2>3. QED
    BY <1>2, <2>1, <2>2
<1>5. QED
  BY <1>3, <1>4 DEF MoveCards

\* The rows that open a prompt.
LEMMA FormStep ==
    ASSUME PagesInv, EnterForm
    PROVE  OverlayInv' /\ HitInv'
<1>1. PlaceInv /\ AccountsOk /\ StackInv /\ issued \in Nat
  BY DEF PagesInv, PlaceInv, FileInv, AccountsOk
<1>2. AtPage /\ Top.id # "root" /\ (Top.id \notin {"user-list", "node-list"} \/ index = 0)
  <2>1. \A id, row : EnterOn(id, row) => AtPage /\ Top.id = id /\ index + 1 = row
    BY DEF EnterOn
  <2>2. ASSUME EnterNone({"user-list"} \cup Pickers) \/ EnterNone({"user-nodes", "node-list"})
        PROVE  AtPage /\ Top.id # "root" /\ index = 0
    <3>1. PICK id \in {"user-list", "user-nodes", "node-list"} \cup Pickers : EnterOn(id, 1)
      BY <2>2 DEF EnterNone
    <3>2. AtPage /\ Top.id = id /\ index + 1 = 1
      BY <2>1, <3>1
    <3>3. index = 0
      BY <1>1, <3>2 DEF PlaceInv, CursorInv
    <3>4. QED
      BY <3>2, <3>3 DEF Pickers
  <2>3. \/ EnterNone({"user-list"} \cup Pickers) \/ EnterNone({"user-nodes", "node-list"})
        \/ \E id \in {"users", "user-detail", "node", "node-new-proto", "node-detail"}, row \in Nat :
              EnterOn(id, row)
    BY DEF EnterForm
  <2>4. ASSUME NEW id \in {"users", "user-detail", "node", "node-new-proto", "node-detail"},
               NEW row \in Nat, EnterOn(id, row)
        PROVE  AtPage /\ Top.id # "root" /\ Top.id \notin {"user-list", "node-list"}
    BY <2>1, <2>4
  <2>5. QED
    BY <2>2, <2>3, <2>4
<1>3. Len(stack) > 1 /\ Fits(Top) /\ Top.of \in Nat
  BY <1>1, <1>2, TopKnown
<1>4. NoName \in Labels
  BY NoneKnown
<1>5. ASSUME NEW op \in {"add-user", "name-node", "add-node"}, OpenForm(op, 0, "")
      PROVE  OverlayInv' /\ HitInv'
  <2>1. OpenForm(op, 0, NoName)
    BY <1>5 DEF NoName
  <2>2. op \in AllOps \ {"none"} /\ op \notin UserOps
    BY DEF AllOps, UserOps
  <2>3. QED
    BY <1>2, <1>3, <1>4, <2>1, <2>2, FormOpened
<1>6. ASSUME NEW op \in {"edit-node", "delete-node"}, NodeForm(op, Top.of)
      PROVE  OverlayInv' /\ HitInv'
  <2>1. OpenForm(op, Top.of, NoName)
    BY <1>6 DEF NoName, NodeForm
  <2>2. op \in AllOps \ {"none"} /\ op \notin UserOps
    BY DEF AllOps, UserOps
  <2>3. QED
    BY <1>2, <1>3, <1>4, <2>1, <2>2, FormOpened
<1>7. ASSUME NEW op \in {"rename", "edit", "delete"}, UserForm(op, Top.of),
             Top.id = "user-detail"
      PROVE  OverlayInv' /\ HitInv'
  <2>1. PICK i \in DOMAIN accounts : /\ accounts[i].token = Top.of
                                     /\ OpenForm(op, Top.of, accounts[i].name)
    BY <1>7 DEF UserForm, WithToken
  <2>2. Top.of <= issued
    BY <1>3, <1>7 DEF Fits, FitsIn
  <2>3. accounts[i].name \in Labels
    <3>1. accounts[i] \in AccountRecord
      BY <1>1, TokensKnown
    <3>2. QED
      BY <3>1 DEF AccountRecord, Labels
  <2>4. NamedBy(Top.of, accounts[i].name)
    BY <2>1 DEF NamedBy
  <2>5. op \in AllOps \ {"none"}
    BY DEF AllOps, UserOps
  <2>6. QED
    BY <1>2, <1>3, <2>1, <2>2, <2>3, <2>4, <2>5, FormOpened
<1>8. QED
  BY <1>5, <1>6, <1>7 DEF EnterForm, EnterOn

\* The rows that start a task.
LEMMA TaskStep ==
    ASSUME PagesInv, EnterTask
    PROVE  OverlayInv' /\ HitInv'
<1>1. PlaceInv /\ AccountsOk /\ StackInv /\ CursorInv /\ issued \in Nat
  BY DEF PagesInv, PlaceInv, FileInv, AccountsOk
<1>2. Top.of \in Nat /\ (Top.id \in {"user-detail", "user-nodes"} => Top.of <= issued)
  BY <1>1, TopKnown DEF Fits, FitsIn
<1>3. CASE PlainRow /\ StartTask(About("plain", 0, ""), 0)
  <2>1. AtPage /\ Top.id \notin {"user-list", "node-list"}
    BY <1>3 DEF PlainRow, EnterOn
  <2>2. StartTask(About("plain", 0, NoName), 0)
    BY <1>3 DEF NoName
  <2>3. "plain" \in AllOps \ {"rename", "add-user"}
    BY DEF AllOps
  <2>4. 0 <= issued
    BY <1>1
  <2>5. QED
    BY <2>1, <2>2, <2>3, <2>4, TaskStarted
<1>4. ASSUME NEW op \in {"switch", "rotate"}, NEW row \in {5, 6}, EnterOn("user-detail", row),
             UserTask(op, Top.of, 0)
      PROVE  OverlayInv' /\ HitInv'
  <2>1. AtPage /\ Top.id = "user-detail"
    BY <1>4 DEF EnterOn
  <2>2. StartTask(About(op, Top.of, NoName), 0)
    BY <1>4 DEF NoName, UserTask
  <2>3. op \in AllOps \ {"rename", "add-user"}
    BY DEF AllOps, UserOps
  <2>4. QED
    BY <1>2, <2>1, <2>2, <2>3, TaskStarted
<1>5. CASE EnterOn("user-nodes", index + 1) /\ Top.list # <<>> /\ UserTask("pick", Top.of, Listed)
  <2>1. AtPage /\ Top.id = "user-nodes" /\ ~onNavRow
    BY <1>5 DEF EnterOn
  <2>2. StartTask(About("pick", Top.of, NoName), Listed)
    BY <1>5 DEF NoName, UserTask
  <2>3. "pick" \in AllOps \ {"rename", "add-user"}
    BY DEF AllOps, UserOps
  <2>4. Listed \in Nat
    <3>1. Top.id \in Lists
      BY <2>1 DEF Lists
    <3>2. QED
      BY <1>1, <1>5, <2>1, <3>1, RowListed
  <2>5. QED
    BY <1>2, <2>1, <2>2, <2>3, <2>4, TaskStarted
<1>6. CASE EnterOn("node-detail", 1) /\ StartTask(About("edit-node", 0, ""), Top.of)
  <2>1. AtPage /\ Top.id = "node-detail"
    BY <1>6 DEF EnterOn
  <2>2. StartTask(About("edit-node", 0, NoName), Top.of)
    BY <1>6 DEF NoName
  <2>3. "edit-node" \in AllOps \ {"rename", "add-user"}
    BY DEF AllOps
  <2>4. 0 <= issued
    BY <1>1
  <2>5. QED
    BY <1>2, <2>1, <2>2, <2>3, <2>4, TaskStarted
<1>7. QED
  BY <1>3, <1>4, <1>5, <1>6 DEF EnterTask

\* A task that runs changes the account it means.
LEMMA RunStep ==
    ASSUME PagesInv, Run
    PROVE  OverlayInv' /\ HitInv'
<1>1. /\ task.at = "runs" /\ task' = [task EXCEPT !.at = "over"] /\ moved' = moved
      /\ form' = form /\ cards' = cards /\ stack' = stack /\ index' = index /\ system' = system
  BY DEF Run, place
<1>2. /\ task \in Screen /\ form \in AskRecord /\ OverlayInv /\ HitInv /\ AccountsOk
  BY DEF PagesInv, OverlayInv, FileInv
<1>3. task # NoTask /\ form = NoForm /\ form.op = "none" /\ hit = NoHit
  <2>1. task # NoTask
    BY <1>1, NoneKnown
  <2>2. form = NoForm /\ hit = NoHit
    BY <1>1, <1>2, <2>1 DEF OverlayInv, HitInv
  <2>3. QED
    BY <2>1, <2>2, NoneKnown
<1>4. task' \in Screen /\ task'.at = "over"
  BY <1>1, <1>2 DEF Screen
<1>5. OverlayInv'
  <2>1. Top' = Top
    BY <1>1 DEF Top
  <2>2. system = FALSE
    BY <1>2, <1>3 DEF OverlayInv, PagesInv, PlaceInv, SectionInv
  <2>3. system' = FALSE /\ form' = NoForm /\ form' \in AskRecord
    BY <1>1, <1>2, <1>3, <2>2
  <2>4. QED
    BY <1>1, <1>2, <1>3, <1>4, <2>1, <2>3 DEF OverlayInv
<1>6. ActsOnItsAccount'
  <2>1. CASE hit' = hit
    BY <1>3, <2>1 DEF ActsOnItsAccount
  <2>2. CASE \E i \in DOMAIN accounts : ChangeUser(i)
    <3>1. PICK i \in DOMAIN accounts : ChangeUser(i)
      BY <2>2
    <3>2. /\ task.ask.op \in UserOps /\ i \in Subject(task)
          /\ hit' = [meant |-> task.ask.who, got |-> accounts[i].who,
                     byName |-> task.ask.name # ""]
      BY <3>1 DEF ChangeUser
    <3>3. Means(task.ask)
      BY <1>1, <1>2, <3>2 DEF HitInv
    <3>4. CASE task.ask.name = ""
      <4>1. accounts[i].token = task.ask.of
        BY <3>2, <3>4 DEF Subject, WithToken
      <4>2. accounts[i].who = task.ask.who
        BY <3>3, <4>1 DEF Means
      <4>3. hit'.got = hit'.meant
        BY <3>2, <4>2
      <4>4. QED
        BY <4>3 DEF ActsOnItsAccount
    <3>5. CASE task.ask.name # "" /\ ~moved
      <4>1. accounts[i].name = task.ask.name
        BY <3>2, <3>5 DEF Subject, WithName
      <4>2. accounts[i].who = task.ask.who
        BY <3>3, <3>5, <4>1 DEF Means
      <4>3. hit'.got = hit'.meant
        BY <3>2, <4>2
      <4>4. QED
        BY <4>3 DEF ActsOnItsAccount
    <3>6. CASE task.ask.name # "" /\ moved
      <4>1. hit'.byName = TRUE
        BY <3>2, <3>6
      <4>2. moved = TRUE
        BY <1>2, <3>6 DEF HitInv
      <4>3. moved' = TRUE
        BY <1>1, <4>2
      <4>4. QED
        BY <4>1, <4>3 DEF ActsOnItsAccount
    <3>7. QED
      BY <3>4, <3>5, <3>6
  <2>3. QED
    BY <2>1, <2>2 DEF Run
<1>7. HitInv'
  <2>1. moved' \in BOOLEAN
    BY <1>1, <1>2 DEF HitInv
  <2>2. form'.op = "none"
    BY <1>1, <1>3
  <2>3. QED
    BY <1>4, <1>6, <2>1, <2>2 DEF HitInv, UserOps
<1>8. QED
  BY <1>5, <1>7

\* An accepted prompt becomes a task about the same account.
LEMMA SubmitStep ==
    ASSUME PagesInv, SubmitForm
    PROVE  OverlayInv' /\ HitInv'
<1>1. /\ form # NoForm /\ form' = NoForm /\ cards' = cards /\ stack' = stack /\ index' = index
      /\ system' = system /\ hit' = hit /\ moved' = moved /\ accounts' = accounts
      /\ issued' = issued
  BY DEF SubmitForm, files, place, history
<1>2. /\ form \in AskRecord /\ OverlayInv /\ HitInv
  BY DEF PagesInv, OverlayInv
<1>3. PICK to \in (IF form.op \in {"add-user", "rename"} THEN Names ELSE {NoName}) :
         task' = [at |-> "runs", ask |-> form, to |-> to, pick |-> 0]
  BY DEF SubmitForm, NoName
<1>4. to \in Labels /\ (form.op \in {"add-user", "rename"} => to \in Names)
  BY <1>3 DEF Labels
<1>5. task' \in Screen /\ task'.at = "runs" /\ task'.ask = form /\ task'.to = to
  BY <1>2, <1>3, <1>4 DEF Screen
<1>6. task = NoTask /\ hit = NoHit /\ system = FALSE
  <2>1. task = NoTask
    BY <1>1, <1>2 DEF OverlayInv
  <2>2. hit = NoHit
    BY <1>2, <2>1, NoneKnown DEF HitInv
  <2>3. system = FALSE
    BY <1>1, <1>2 DEF OverlayInv, PagesInv, PlaceInv, SectionInv
  <2>4. QED
    BY <2>1, <2>2, <2>3
<1>7. OverlayInv'
  <2>1. Top' = Top
    BY <1>1 DEF Top
  <2>2. system' = FALSE /\ form' = NoForm /\ form' \in AskRecord
    BY <1>1, <1>6, NoneKnown
  <2>3. QED
    BY <1>1, <1>2, <1>5, <2>1, <2>2 DEF OverlayInv
<1>8. HitInv'
  <2>1. hit' = NoHit /\ moved' \in BOOLEAN /\ form'.op = "none"
    BY <1>1, <1>2, <1>6, NoneKnown DEF HitInv
  <2>2. form.op \in UserOps => Means(task.ask)'
    BY <1>1, <1>2, <1>5 DEF HitInv, Means
  <2>3. QED
    BY <1>4, <1>5, <2>1, <2>2 DEF HitInv, ActsOnItsAccount, UserOps
<1>9. QED
  BY <1>7, <1>8

\* The rebuilt menus, and a list of kernels that lands, leave what is open alone.
LEMMA ScreenStep ==
    ASSUME PagesInv, Done \/ FetchLands
    PROVE  OverlayInv' /\ HitInv'
<1>1. /\ PlaceInv /\ FileInv /\ OverlayInv /\ HitInv /\ task \in Screen
      /\ system \in BOOLEAN
  BY DEF PagesInv, OverlayInv, PlaceInv, SectionInv
<1>2. /\ Top'.id = Top.id /\ Len(stack') = Len(stack)
      /\ Top.id \in {"user-list", "node-list"} => index' = index
  <2>1. CASE Done
    BY <1>1, <2>1, MenusRebuilt DEF Done
  <2>2. CASE FetchLands
    BY <1>1, <2>2, ListLands
  <2>3. QED
    BY <2>1, <2>2
<1>3. /\ form' = form /\ cards' = cards /\ system' = system /\ hit' = hit /\ moved' = moved
      /\ accounts' = accounts /\ issued' = issued
  BY DEF Done, FetchLands, files, history, overlays
<1>4. CASE Done
  <2>1. task.at = "over" /\ task' = [task EXCEPT !.at = "done"]
    BY <1>4 DEF Done
  <2>2. task' \in Screen /\ task'.at = "done" /\ task # NoTask
    BY <1>1, <2>1, NoneKnown DEF Screen
  <2>3. form = NoForm /\ system = FALSE
    BY <1>1, <2>2 DEF OverlayInv
  <2>4. form' = NoForm /\ system' = FALSE
    BY <1>3, <2>3
  <2>5. Top'.id \notin {"user-list", "node-list"} \/ index' = 0
    BY <1>1, <1>2, <2>2 DEF OverlayInv
  <2>6. OverlayInv'
    BY <1>1, <1>3, <2>2, <2>4, <2>5 DEF OverlayInv
  <2>7. ActsOnItsAccount' /\ moved' \in BOOLEAN
    BY <1>1, <1>3 DEF HitInv, ActsOnItsAccount
  <2>8. form'.op = "none"
    BY <2>4, NoneKnown
  <2>9. HitInv'
    BY <2>2, <2>7, <2>8 DEF HitInv, UserOps
  <2>10. QED
    BY <2>6, <2>9
<1>5. CASE FetchLands
  <2>1. task' = task
    BY <1>5 DEF FetchLands, overlays
  <2>2. OverlayInv'
    <3>1. form' # NoForm => task' = NoTask /\ Len(stack') > 1
      BY <1>1, <1>2, <1>3, <2>1 DEF OverlayInv
    <3>2. system' => form' = NoForm /\ task' = NoTask
      BY <1>1, <1>3, <2>1, Zenon DEF OverlayInv
    <3>3. form' # NoForm \/ task' # NoTask
             => Top'.id \notin {"user-list", "node-list"} \/ index' = 0
      BY <1>1, <1>2, <1>3, <2>1 DEF OverlayInv
    <3>4. QED
      BY <1>1, <1>3, <2>1, <3>1, <3>2, <3>3 DEF OverlayInv
  <2>3. HitInv'
    BY <1>1, <1>3, <2>1 DEF HitInv, ActsOnItsAccount, Means
  <2>4. QED
    BY <2>2, <2>3
<1>6. QED
  BY <1>4, <1>5

\* Another process may move the account something is about, not take its token.
LEMMA OtherStep ==
    ASSUME PagesInv, OtherAccounts \/ OtherNodes
    PROVE  OverlayInv' /\ HitInv'
<1>1. /\ form' = form /\ task' = task /\ cards' = cards /\ stack' = stack /\ index' = index
      /\ system' = system /\ hit' = hit
  BY DEF OtherAccounts, OtherNodes, Other, overlays, place
<1>2. /\ FileInv /\ FileInv' /\ Descends /\ (moved' = TRUE \/ UNCHANGED <<accounts, moved>>)
      /\ OverlayInv /\ HitInv /\ issued \in Nat /\ form \in AskRecord /\ task \in Screen
  BY OtherFiles DEF PagesInv, FileInv, AccountsOk, OverlayInv
<1>3. OverlayInv'
  BY <1>1, <1>2 DEF OverlayInv, Top
<1>4. ASSUME NEW a \in AskRecord, Means(a)
      PROVE  /\ a.of <= issued'
             /\ \A i \in DOMAIN accounts' :
                   /\ accounts'[i].token = a.of => accounts'[i].who = a.who
                   /\ ~moved' /\ a.name # "" /\ accounts'[i].name = a.name
                         => accounts'[i].who = a.who
  BY <1>2, <1>4, MeansKept
<1>5. form.op \in UserOps => Means(form)'
  BY <1>1, <1>2, <1>4 DEF HitInv, Means
<1>6. task.at = "runs" /\ task.ask.op \in UserOps => Means(task.ask)'
  <2>1. task.ask \in AskRecord
    BY <1>2 DEF Screen
  <2>2. QED
    BY <1>1, <1>2, <1>4, <2>1 DEF HitInv, Means
<1>7. moved' \in BOOLEAN /\ (moved' = TRUE \/ moved' = moved)
  BY <1>2 DEF HitInv
<1>8. ActsOnItsAccount'
  <2>1. CASE moved' = TRUE
    BY <1>1, <1>2, <2>1 DEF HitInv, ActsOnItsAccount
  <2>2. CASE moved' = moved
    BY <1>1, <1>2, <2>2 DEF HitInv, ActsOnItsAccount
  <2>3. QED
    BY <1>7, <2>1, <2>2
<1>9. HitInv'
  BY <1>1, <1>2, <1>5, <1>6, <1>7, <1>8 DEF HitInv
<1>10. QED
  BY <1>3, <1>9

LEMMA OverlayStep ==
    ASSUME PagesInv, [Next]_vars
    PROVE  OverlayInv' /\ HitInv'
<1>1. OverlayInv /\ HitInv /\ moved \in BOOLEAN
  BY DEF PagesInv, HitInv
<1>2. ASSUME AtPage, form' = form, task' = task, hit' = hit, moved' = moved,
             cards' = cards \/ (cards' \in Grid /\ cards'.cursor < cards'.count)
      PROVE  OverlayInv' /\ HitInv'
  <2>1. form' = NoForm /\ task' = NoTask /\ hit' = NoHit /\ cards = NoCards
    BY <1>2, PageIsFree DEF AtPage
  <2>2. moved' \in BOOLEAN
    BY <1>1, <1>2
  <2>3. QED
    BY <1>2, <2>1, <2>2, PageIsFreed
<1>3. CASE Move
  <2>1. AtPage /\ UNCHANGED <<overlays, history>>
    BY <1>3 DEF Move, moveRows, moveColumn, Digit, Back
  <2>2. QED
    BY <1>2, <2>1 DEF overlays, history
<1>4. CASE EnterRoot \/ EnterPage \/ EnterVersions
  <2>1. AtPage /\ form' = form /\ task' = task /\ cards' = cards /\ hit' = hit /\ moved' = moved
    BY <1>4 DEF EnterRoot, EnterPage, EnterVersions, EnterOn, overlays, history
  <2>2. QED
    BY <1>2, <2>1
<1>5. CASE EnterCards
  <2>1. AtPage /\ form' = form /\ task' = task /\ hit' = hit /\ moved' = moved
    BY <1>5 DEF EnterCards, EnterOn, ShowCards, history
  <2>2. PICK n \in 1..3 : cards' = [count |-> n, cursor |-> 0]
    BY <1>5 DEF EnterCards, ShowCards
  <2>3. cards' \in Grid /\ cards'.cursor < cards'.count
    BY <2>2 DEF Grid
  <2>4. QED
    BY <1>2, <2>1, <2>3
<1>6. CASE CloseSystem
  <2>1. system /\ UNCHANGED <<overlays, history>>
    BY <1>6 DEF CloseSystem
  <2>2. form = NoForm /\ task = NoTask
    BY <1>1, <2>1 DEF OverlayInv
  <2>3. hit = NoHit
    BY <1>1, <2>2, NoneKnown DEF HitInv
  <2>4. form' = NoForm /\ task' = NoTask /\ hit' = NoHit /\ moved' = moved /\ cards' = cards
    BY <2>1, <2>2, <2>3 DEF overlays, history
  <2>5. cards' = NoCards \/ (cards' \in Grid /\ cards'.cursor < cards'.count)
    BY <1>1, <2>4 DEF OverlayInv
  <2>6. QED
    BY <1>1, <2>4, <2>5, PageIsFreed
<1>7. CASE MoveCards
  <2>1. /\ form' = form /\ task' = task /\ stack' = stack /\ index' = index /\ system' = system
        /\ hit' = hit /\ moved' = moved /\ accounts' = accounts /\ issued' = issued
    BY <1>7 DEF MoveCards, files, place, history
  <2>2. cards' = NoCards \/ (cards' \in Grid /\ cards'.cursor < cards'.count)
    BY <1>7, GridMoves
  <2>3. OverlayInv'
    BY <1>1, <2>1, <2>2 DEF OverlayInv, Top
  <2>4. HitInv'
    BY <1>1, <2>1 DEF HitInv, ActsOnItsAccount, Means
  <2>5. QED
    BY <2>3, <2>4
<1>8. CASE DropForm \/ SubmitName
  <2>1. /\ form # NoForm /\ form' = NoForm /\ task' = task /\ cards' = cards
        /\ hit' = hit /\ moved' = moved
    <3>1. SubmitName => form # NoForm
      <4>1. SubmitName => form.op = "name-node"
        BY DEF SubmitName
      <4>2. QED
        BY <4>1, NoneKnown
    <3>2. QED
      BY <1>8, <3>1 DEF DropForm, SubmitName, history
  <2>2. task = NoTask
    BY <1>1, <2>1 DEF OverlayInv
  <2>3. hit = NoHit
    BY <1>1, <2>2, NoneKnown DEF HitInv
  <2>4. cards' = NoCards \/ (cards' \in Grid /\ cards'.cursor < cards'.count)
    BY <1>1, <2>1 DEF OverlayInv
  <2>5. task' = NoTask /\ hit' = NoHit /\ moved' \in BOOLEAN
    BY <1>1, <2>1, <2>2, <2>3
  <2>6. QED
    BY <2>1, <2>4, <2>5, PageIsFreed
<1>9. CASE LeaveTask
  <2>1. /\ task.at = "done" /\ task' = NoTask /\ hit' = NoHit /\ form' = form /\ cards' = cards
        /\ moved' = moved
    BY <1>9 DEF LeaveTask
  <2>2. task # NoTask
    BY <2>1, NoneKnown
  <2>3. form' = NoForm
    BY <1>1, <2>1, <2>2 DEF OverlayInv
  <2>4. cards' = NoCards \/ (cards' \in Grid /\ cards'.cursor < cards'.count)
    BY <1>1, <2>1 DEF OverlayInv
  <2>5. moved' \in BOOLEAN
    BY <1>1, <2>1
  <2>6. QED
    BY <2>1, <2>3, <2>4, <2>5, PageIsFreed
<1>10. CASE UNCHANGED vars
  <2>1. /\ form' = form /\ task' = task /\ cards' = cards /\ stack' = stack /\ index' = index
        /\ system' = system /\ hit' = hit /\ moved' = moved /\ accounts' = accounts
        /\ issued' = issued
    BY <1>10 DEF vars, files, place, overlays, history
  <2>2. OverlayInv'
    BY <1>1, <2>1 DEF OverlayInv, Top
  <2>3. HitInv'
    BY <1>1, <2>1 DEF HitInv, ActsOnItsAccount, Means
  <2>4. QED
    BY <2>2, <2>3
<1>11. QED
  BY <1>3, <1>4, <1>5, <1>6, <1>7, <1>8, <1>9, <1>10, FormStep, TaskStep, RunStep, SubmitStep,
     ScreenStep, OtherStep
     DEF Next, Enter, Overlay, Background

-----------------------------------------------------------------------------
LEMMA PagesBegin ==
    ASSUME Init
    PROVE  PagesInv
<1>1. PICK s \in [1..2 -> Names] : /\ s[1] # s[2]
                                   /\ accounts = [i \in 1..2 |-> Account(i, s[i], {})]
  BY DEF Init
<1>2. ASSUME NEW i \in 1..2
      PROVE  /\ accounts[i] \in AccountRecord /\ accounts[i].token = i /\ accounts[i].name = s[i]
  BY <1>1 DEF Account, AccountRecord
<1>3. accounts \in Seq(AccountRecord) /\ DOMAIN accounts = 1..2
  BY <1>1, <1>2
<1>4. issued = 2 /\ nodes \in Seq(NodeIds) /\ seen = [accounts |-> <<>>, nodes |-> <<>>]
  <2>1. nodes = <<>> \/ \E n \in NodeIds : nodes = <<n>>
    BY DEF Init
  <2>2. issued = 2 /\ seen = [accounts |-> <<>>, nodes |-> <<>>]
    BY DEF Init
  <2>3. \A n \in NodeIds : <<n>> \in Seq(NodeIds)
    OBVIOUS
  <2>4. <<>> \in Seq(NodeIds)
    OBVIOUS
  <2>5. nodes \in Seq(NodeIds)
    BY <2>1, <2>3, <2>4, Zenon
  <2>6. QED
    BY <2>2, <2>5
<1>5. AccountsOk
  BY <1>1, <1>2, <1>3, <1>4 DEF AccountsOk, OneEach
<1>6. SeenOk
  BY <1>4 DEF SeenOk
<1>7. /\ stack = <<Page("root", 0, <<>>)>> /\ index = 0 /\ section = "" /\ system = FALSE
      /\ form = NoForm /\ task = NoTask /\ cards = NoCards /\ hit = NoHit /\ moved = FALSE
  BY DEF Init
<1>8. StackInv
  <2>1. Page("root", 0, <<>>) \in PageRecord /\ Page("root", 0, <<>>).id = "root"
    BY DEF Page, PageRecord, PageIds
  <2>2. PICK p \in PageRecord : p = Page("root", 0, <<>>) /\ p.id = "root"
    BY <2>1
  <2>3. stack = <<p>>
    BY <1>7, <2>2
  <2>4. stack \in Seq(PageRecord) /\ Len(stack) = 1 /\ stack[1] = p /\ stack # <<>>
    BY <2>3
  <2>5. \A k \in 2..Len(stack) : FALSE
    BY <2>4
  <2>6. QED
    BY <2>2, <2>4, <2>5 DEF StackInv
<1>9. SectionInv
  <2>1. ~(Len(stack) > 1)
    <3>1. PICK p : p = Page("root", 0, <<>>)
      OBVIOUS
    <3>2. stack = <<p>>
      BY <1>7, <3>1
    <3>3. QED
      BY <3>2
  <2>2. QED
    BY <1>7, <2>1 DEF SectionInv
<1>10. CursorInv
  <2>1. itemCount \in Nat \ {0}
    BY <1>8, TopKnown
  <2>2. index = 0
    BY <1>7
  <2>3. QED
    BY <2>1, <2>2 DEF CursorInv
<1>11. OverlayInv
  BY <1>7, NoneKnown DEF OverlayInv
<1>12. HitInv
  BY <1>7, NoneKnown DEF HitInv, ActsOnItsAccount, UserOps
<1>13. QED
  BY <1>4, <1>5, <1>6, <1>8, <1>9, <1>10, <1>11, <1>12 DEF PagesInv, FileInv, PlaceInv

LEMMA PagesInvariant == Spec => []PagesInv
<1>1. Init => PagesInv
  BY PagesBegin
<1>2. PagesInv /\ [Next]_vars => PagesInv'
  BY FileStep, PlaceStep, OverlayStep DEF PagesInv
<1>3. QED
  BY <1>1, <1>2, PTL DEF Spec

\* A task changes the account whose page it was started from, whatever other
\* processes did to the files meanwhile and however many accounts, nodes and pages
\* there are (users.go, nodes.go): a menu acts by token, and tokens are not reused.
THEOREM ActsOnlyOnItsAccount == Spec => []ActsOnItsAccount
<1>1. PagesInv => ActsOnItsAccount
  BY DEF PagesInv, HitInv
<1>2. QED
  BY <1>1, PagesInvariant, PTL

\* The cursor is on a row of the page, or of the grid, after every move, list that
\* lands and menu rebuilt under it (app.go, bbr.go).
THEOREM CursorStaysOnRow == Spec => []CursorOnRow
<1>1. PagesInv => CursorOnRow
  <2>1. SUFFICES ASSUME PagesInv
                 PROVE  CursorOnRow
    OBVIOUS
  <2>2. index \in Nat /\ index < itemCount /\ itemCount \in Nat
    <3>1. StackInv /\ CursorInv
      BY <2>1 DEF PagesInv, PlaceInv
    <3>2. itemCount \in Nat \ {0}
      BY <3>1, TopKnown
    <3>3. QED
      BY <3>1, <3>2 DEF CursorInv
  <2>3. cards # NoCards => cards.cursor \in 0..(cards.count - 1)
    <3>1. SUFFICES ASSUME cards # NoCards
                   PROVE  cards.cursor \in 0..(cards.count - 1)
      OBVIOUS
    <3>2. cards \in Grid /\ cards.cursor < cards.count
      BY <2>1, <3>1 DEF PagesInv, OverlayInv
    <3>3. cards.cursor \in Nat /\ cards.count \in Nat
      BY <3>2 DEF Grid
    <3>4. QED
      BY <3>2, <3>3
  <2>4. index \in 0..(itemCount - 1)
    <3> DEFINE n == itemCount
    <3>1. index \in Nat /\ index < n /\ n \in Nat
      BY <2>2
    <3> HIDE DEF n
    <3>2. index \in 0..(n - 1)
      BY <3>1
    <3>3. QED
      BY <3>2 DEF n
  <2>5. QED
    BY <2>3, <2>4 DEF CursorOnRow
<1>2. QED
  BY <1>1, PagesInvariant, PTL

\* The frame of a page is that of the entry of the main menu that led there, and
\* the main menu has none (nav.go, app.go).
THEOREM SectionStaysEntered == Spec => []SectionIsEntered
<1>1. PagesInv => SectionIsEntered
  <2>1. SUFFICES ASSUME PagesInv
                 PROVE  SectionIsEntered
    OBVIOUS
  <2>2. /\ Len(stack) \in Nat \ {0} /\ SectionInv /\ StackInv
    <3>1. SectionInv /\ StackInv
      BY <2>1 DEF PagesInv, PlaceInv
    <3>2. QED
      BY <3>1, TopKnown
  <2>size. /\ Len(stack) = 1 \/ Len(stack) > 1
           /\ Len(stack) > 1 => Len(stack) # 1
    <3> DEFINE n == Len(stack)
    <3>1. n \in Nat \ {0}
      BY <2>2
    <3> HIDE DEF n
    <3>2. (n = 1 \/ n > 1) /\ (n > 1 => n # 1)
      BY <3>1
    <3>3. QED
      BY <3>2 DEF n
  <2>3. CASE Len(stack) = 1
    <3>1. ~(Len(stack) > 1) /\ FirstInside = {}
      BY <2>3 DEF FirstInside, Inside
    <3>2. CASE system
      BY <2>2, <2>3, <3>2 DEF SectionIsEntered, SectionInv, sectionID
    <3>3. CASE ~system
      BY <2>2, <2>3, <3>1, <3>3 DEF SectionIsEntered, SectionInv, sectionID
    <3>4. QED
      BY <3>2, <3>3
  <2>4. CASE Len(stack) > 1
    <3>1. /\ stack[2].id = entered /\ entered \in RootIds /\ section \in {"", entered}
          /\ Len(stack) # 1
      <4>1. Len(stack) # 1
        BY <2>size, <2>4, Zenon
      <4>2. QED
        BY <2>2, <2>4, <4>1 DEF SectionInv
    <3>2. CASE section # ""
      BY <3>1, <3>2 DEF SectionIsEntered, sectionID
    <3>3. CASE section = ""
      <4>1. PICK e \in DOMAIN Root : Root[e] = entered
        <5>1. /\ Root[1] = "node" /\ Root[2] = "domain" /\ Root[3] = "subscribe"
              /\ Root[4] = "users" /\ Root[5] = "system" /\ Root[6] = "bbr"
              /\ 1..6 = DOMAIN Root
          BY DEF Root
        <5>2. \A k \in {1, 2, 3, 4, 5, 6} : k \in 1..6
          OBVIOUS
        <5>3. \E k \in {1, 2, 3, 4, 5, 6} : Root[k] = entered
          BY <3>1, <5>1 DEF RootIds
        <5>4. QED
          BY <5>1, <5>2, <5>3
      <4>2. \A k, m \in DOMAIN Root : Root[k] = Root[m] => k = m
        BY DEF Root
      <4>3. \A k \in DOMAIN Root : Root[k] \in RootIds
        BY DEF Root, RootIds
      <4>4. \A i \in 2..Len(stack) : stack[i].id \in RootIds => stack[i].id = entered
        BY <2>2 DEF StackInv, Fits, FitsIn
      <4>5. \A k \in DOMAIN Root : Inside(k) <=> k = e
        <5>1. 2 \in 2..Len(stack)
          BY <2>2, <2>4
        <5>2. QED
          BY <3>1, <4>1, <4>2, <4>3, <4>4, <5>1 DEF Inside
      <4>6. DOMAIN Root = 1..6
        BY DEF Root
      <4>7. FirstInside = {e}
        BY <4>1, <4>5, <4>6 DEF FirstInside
      <4>8. sectionID = entered
        BY <3>3, <4>1, <4>7 DEF sectionID
      <4>9. QED
        BY <3>1, <4>8 DEF SectionIsEntered
    <3>4. QED
      BY <3>2, <3>3
  <2>5. QED
    BY <2>size, <2>3, <2>4, Zenon
<1>2. QED
  BY <1>1, PagesInvariant, PTL

-----------------------------------------------------------------------------
(***************************************************************************)
(* Unlock: what a reply shows of the service, and what a verdict rests on. *)
(***************************************************************************)

(* Every reply was lost or is one the service, or somebody in its place,   *)
(* sends in this world.                                                    *)
Sourced ==
    /\ service \in Catalogue /\ world \in Worlds(service)
    /\ DOMAIN source = DOMAIN got
    /\ \A q \in DOMAIN got :
          got[q] = NoReply \/ <<got[q], source[q]>> \in Replies(q)

(* The verdict is what the rules give for the replies there are. *)
Decision == result # "none" => result = Probe

UnlockInv == Sourced /\ Decision

\* What a service sends does not change while it is probed.
LEMMA SameService ==
    ASSUME service' = service, world' = world
    PROVE  Worlds(service)' = Worlds(service) /\ \A r : Replies(r)' = Replies(r)
<1>1. Refusing' = Refusing
  BY DEF Refusing
<1>2. \A r : Pages(r)' = Pages(r)
  BY <1>1 DEF Pages
<1>3. \A r : Replies(r)' = Replies(r)
  BY <1>2 DEF Replies
<1>4. QED
  BY <1>3 DEF Worlds

LEMMA SameReplies ==
    ASSUME UNCHANGED <<service, got, spent>>
    PROVE  Probe' = Probe
<1>1. \A q, m : /\ Asked(q)' = Asked(q) /\ Lost(q)' = Lost(q)
               /\ OK(q)' = OK(q) /\ Status(q, m)' = Status(q, m)
               /\ Has(q, m)' = Has(q, m)
  BY DEF Asked, Lost, OK, Status, Has, Answered
<1>2. Located' = Located /\ \A q : Tells(q)' = Tells(q)
               /\ NetflixRefused(q)' = NetflixRefused(q) /\ NetflixPage(q)' = NetflixPage(q)
  BY <1>1 DEF Located, Tells, NetflixRefused, NetflixPage
<1>3. /\ Netflix' = Netflix /\ Disney' = Disney
      /\ YouTubePremium' = YouTubePremium /\ PrimeVideo' = PrimeVideo
      /\ DAZN' = DAZN /\ TVBAnywhere' = TVBAnywhere
  BY <1>1, <1>2 DEF Netflix, Disney, YouTubePremium, PrimeVideo, DAZN,
     TVBAnywhere, Get, GetOK, Home, HomeAgain
<1>4. /\ Spotify' = Spotify /\ Reddit' = Reddit /\ TikTok' = TikTok
      /\ ChatGPT' = ChatGPT /\ Gemini' = Gemini /\ Claude' = Claude
  BY <1>1, <1>2 DEF Spotify, Reddit, TikTok, ChatGPT, Gemini, Claude, Get,
     GetOK, Trace2, Surface
<1>5. Steam' = Steam /\ Bilibili' = Bilibili /\ Bahamut' = Bahamut
  BY <1>1, <1>2 DEF Steam, Bilibili, Bahamut, Get, GetOK
<1>6. QED
  BY <1>3, <1>4, <1>5 DEF Probe

LEMMA UnlockStarts == UnlockInit => UnlockInv
  BY ServicesAreKnown DEF UnlockInit, UnlockInv, Sourced, Decision

LEMMA ReceivesKeeps ==
    ASSUME UnlockInv, NEW q, NEW reply, NEW from, result = "none",
           reply = NoReply \/ <<reply, from>> \in Replies(q),
           Receives(q, reply, from)
    PROVE  UnlockInv'
<1>1. DOMAIN got' = DOMAIN got \cup {q} /\ DOMAIN source' = DOMAIN source \cup {q}
  BY DEF Receives, With, UnlockInv, Sourced
<1>2. \A r \in DOMAIN got' :
          \/ r \in DOMAIN got /\ got'[r] = got[r] /\ source'[r] = source[r]
          \/ r = q /\ got'[r] = reply /\ source'[r] = from
  BY <1>1 DEF UnlockInv, Sourced, Receives, With
<1>3. service' = service /\ world' = world /\ result' = result
  BY DEF Receives
<1>4. Worlds(service)' = Worlds(service) /\ \A r : Replies(r)' = Replies(r)
  BY <1>3, SameService
<1>5. QED
  BY <1>1, <1>2, <1>3, <1>4 DEF UnlockInv, Sourced, Decision

LEMMA UnlockSteps == UnlockInv /\ [UnlockNext]_unlockVars => UnlockInv'
<1> SUFFICES ASSUME UnlockInv, [UnlockNext]_unlockVars PROVE UnlockInv'
  OBVIOUS
<1>1. CASE Request
  <2>1. PICK r \in Replies(Probe) : Receives(Probe, r[1], r[2])
    BY <1>1 DEF Request
  <2>2. \E a, b : r = <<a, b>>
    BY DEF Replies, ReadUntil
  <2>3. QED
    BY <1>1, <2>1, <2>2, ReceivesKeeps DEF Request
<1>2. CASE RequestFails
  BY <1>2, ReceivesKeeps DEF RequestFails
<1>3. CASE Spend
  <2>1. Worlds(service)' = Worlds(service) /\ \A r : Replies(r)' = Replies(r)
    BY <1>3, SameService DEF Spend
  <2>2. QED
    BY <1>3, <2>1 DEF Spend, UnlockInv, Sourced, Decision
<1>4. CASE Rule
  <2>1. Worlds(service)' = Worlds(service) /\ \A r : Replies(r)' = Replies(r)
    BY <1>4, SameService DEF Rule
  <2>2. Probe' = Probe
    BY <1>4, SameReplies DEF Rule
  <2>3. QED
    BY <1>4, <2>1, <2>2 DEF Rule, UnlockInv, Sourced, Decision
<1>5. CASE UNCHANGED unlockVars
  <2>1. Worlds(service)' = Worlds(service) /\ \A r : Replies(r)' = Replies(r)
    BY <1>5, SameService DEF unlockVars
  <2>2. Probe' = Probe
    BY <1>5, SameReplies DEF unlockVars
  <2>3. QED
    BY <1>5, <2>1, <2>2 DEF unlockVars, UnlockInv, Sourced, Decision
<1>6. QED
  BY <1>1, <1>2, <1>3, <1>4, <1>5 DEF UnlockNext

-----------------------------------------------------------------------------
(* The first n marks of a page were read.  What was not read was behind a  *)
(* marker, or behind the cap of a long page in which no marker was read.   *)
ReadUpTo(q, page, n) ==
    /\ n \in 0..Len(page.marks)
    /\ got[q] = Reply(page, n)
    /\ n < Len(page.marks) =>
          \/ source[q] = "stopped" /\ \E i \in 1..n : page.marks[i] \in Markers(q)
          \/ /\ source[q] = "capped" /\ q \in Long
             /\ \A i \in 1..n : page.marks[i] \notin Markers(q)

(* A page somebody else sends in the place of the service. *)
Replaced(q) ==
    /\ source[q] = "strange" /\ got[q].marks = {}
    /\ got[q].status \in {"ok", "403", "404", "451", "503"}

Queries ==
    NetflixTitles \cup {"home1", "home2", "home3"} \cup {"bare", "browser"}
      \cup {"trace1", "trace2"} \cup {"compliance", "ios"}
      \cup {"devices", "token", "graph", "premium", "startup", "geoip", "store"}
      \cup {"signup", "front", "device", "ticket", "landing", "playurl"}
      \cup {"app", "claude"}

\* The marks of a page come in the order of the document.
LEMMA PagesAreDocuments ==
    ASSUME NEW q \in Queries, NEW page \in Pages(q)
    PROVE  Len(page.marks) \in Nat /\ DOMAIN page.marks = 1..Len(page.marks)
<1>1. CASE q \in NetflixTitles
  BY <1>1 DEF Pages, Document, Plain, NetflixTitles
<1>2. CASE q \in {"home1", "home2", "home3"}
  BY <1>2 DEF Pages, Document, Plain, NetflixTitles
<1>3. CASE q \in {"bare", "browser"}
  BY <1>3 DEF Pages, Document, Plain, NetflixTitles
<1>4. CASE q \in {"trace1", "trace2"}
  BY <1>4 DEF Pages, Document, Plain, NetflixTitles
<1>5. CASE q \in {"compliance", "ios"}
  BY <1>5 DEF Pages, Document, Plain, NetflixTitles
<1>6. CASE q \in {"devices", "token", "graph", "premium", "startup", "geoip", "store"}
  BY <1>6 DEF Pages, Document, Plain, NetflixTitles
<1>7. CASE q \in {"signup", "front", "device", "ticket", "landing", "playurl"}
  BY <1>7 DEF Pages, Document, Plain, NetflixTitles
<1>8. CASE q \in {"app", "claude"}
  BY <1>8 DEF Pages, Document, Plain, NetflixTitles
<1>9. QED
  BY <1>1, <1>2, <1>3, <1>4, <1>5, <1>6, <1>7, <1>8 DEF Queries

\* What is read of a page.
LEMMA ReadIsPrefix ==
    ASSUME NEW q \in Queries, NEW page \in Pages(q), NEW r \in ReadUntil(q, page),
           got[q] = r[1], source[q] = r[2]
    PROVE  \E n \in Nat : ReadUpTo(q, page, n)
<1>1. Len(page.marks) \in Nat /\ DOMAIN page.marks = 1..Len(page.marks)
  BY PagesAreDocuments
<1> DEFINE len == Len(page.marks)
           stops == Stops(q, page)
           first == CHOOSE i \in stops : \A j \in stops : i <= j
           to == IF stops = {} THEN len ELSE first
<1>2. len \in Nat /\ stops \subseteq 1..len
  BY <1>1 DEF Stops
<1>3. stops # {} => first \in stops /\ \A j \in stops : first <= j
  <2>1. ASSUME stops # {} PROVE Min(stops) \in stops /\ \A j \in stops : Min(stops) <= j
    BY <1>2, <2>1, MinIsLeast
  <2>2. QED
    BY <2>1
<1>4. to \in 0..len /\ (to < len => to \in stops)
  BY <1>2, <1>3
<1>5. \/ \E n \in to..len : r = <<Reply(page, n), IF n < len THEN "stopped" ELSE "own">>
      \/ q \in Long /\ \E n \in 0..(to - 1) : r = <<Reply(page, n), "capped">>
  BY DEF ReadUntil
<1> HIDE DEF len, stops, first, to
<1>6. CASE \E n \in to..len : r = <<Reply(page, n), IF n < len THEN "stopped" ELSE "own">>
  <2>1. PICK n \in to..len : r = <<Reply(page, n), IF n < len THEN "stopped" ELSE "own">>
    BY <1>6
  <2>2. n \in 0..len /\ to <= n /\ got[q] = Reply(page, n)
        /\ source[q] = IF n < len THEN "stopped" ELSE "own"
    BY <2>1, <1>4, <1>2
  <2>3. ASSUME n < len
        PROVE  source[q] = "stopped" /\ \E i \in 1..n : page.marks[i] \in Markers(q)
    <3>1. to \in stops /\ to \in 1..n
      <4>1. to \in stops
        BY <2>2, <2>3, <1>4, <1>2
      <4>2. to \in 1..len
        BY <4>1, <1>2
      <4>3. QED
        BY <4>1, <4>2, <2>2
    <3>2. page.marks[to] \in Markers(q)
      BY <3>1 DEF stops, Stops
    <3>3. QED
      BY <2>2, <2>3, <3>1, <3>2
  <2>4. QED
    BY <2>2, <2>3 DEF ReadUpTo, len
<1>7. CASE q \in Long /\ \E n \in 0..(to - 1) : r = <<Reply(page, n), "capped">>
  <2>1. PICK n \in 0..(to - 1) : r = <<Reply(page, n), "capped">>
    BY <1>7
  <2>2. n \in 0..len
    BY <2>1, <1>4, <1>2
  <2>3. got[q] = Reply(page, n) /\ source[q] = "capped"
    BY <2>1
  <2>4. \A i \in 1..n : i \notin stops
    BY <2>1, <1>2, <1>3, <1>4 DEF to
  <2>5. \A i \in 1..n : i \in 1..len
    BY <2>2, <1>2
  <2>6. \A i \in 1..n : page.marks[i] \notin Markers(q)
    BY <2>4, <2>5, <1>1 DEF stops, Stops, len
  <2>7. QED
    BY <2>2, <2>3, <2>6, <1>7 DEF ReadUpTo, len
<1>8. QED
  BY <1>5, <1>6, <1>7

\* An answer is a page of the service, read to the end or so far, or one in
\* its place.
LEMMA AnswerIsRead ==
    ASSUME Sourced, NEW q \in Queries, Answered(q)
    PROVE  Replaced(q) \/ \E page \in Pages(q), n \in Nat : ReadUpTo(q, page, n)
<1>1. q \in DOMAIN got /\ <<got[q], source[q]>> \in Replies(q)
  BY DEF Sourced, Answered, Asked, NoReply
<1>2. CASE \E page \in Pages(q) : <<got[q], source[q]>> \in ReadUntil(q, page)
  <2>1. PICK page \in Pages(q) : <<got[q], source[q]>> \in ReadUntil(q, page)
    BY <1>2
  <2>2. <<got[q], source[q]>>[1] = got[q] /\ <<got[q], source[q]>>[2] = source[q]
    OBVIOUS
  <2>3. QED
    BY <2>1, <2>2, ReadIsPrefix
<1>3. CASE \E page \in StrangePages : <<got[q], source[q]>> = <<Reply(page, 0), "strange">>
  <2>1. PICK page \in StrangePages : <<got[q], source[q]>> = <<Reply(page, 0), "strange">>
    BY <1>3
  <2>2. Prefix(page.marks, 0) = {}
    BY DEF Prefix
  <2>3. QED
    BY <2>1, <2>2 DEF Replaced, Reply, StrangePages, Plain, Document
<1>4. QED
  BY <1>1, <1>2, <1>3 DEF Replies
(* The service sends the mark in one of its pages. *)
Sends(q, m) ==
    \E page \in Pages(q) : \E i \in 1..Len(page.marks) : page.marks[i] = m

\* A mark that was read was sent.
LEMMA MarksAreSent ==
    ASSUME Sourced, NEW q \in Queries, NEW m, Has(q, m)
    PROVE  Sends(q, m)
<1>1. PICK page \in Pages(q), n \in Nat : ReadUpTo(q, page, n)
  BY AnswerIsRead DEF Has, Replaced
<1>2. m \in Prefix(page.marks, n) /\ n \in 0..Len(page.marks)
  BY <1>1 DEF Has, ReadUpTo, Reply
<1>3. PICK i \in 1..n : page.marks[i] = m
  BY <1>2 DEF Prefix
<1>4. i \in 1..Len(page.marks)
  BY <1>2, PagesAreDocuments
<1>5. QED
  BY <1>3, <1>4 DEF Sends

\* The marks that only a service that refuses this address sends.
LEMMA MarksOfRefusal ==
    /\ Sends("devices", "403-ERROR") => Refusing
    /\ Sends("token", "forbidden") => Refusing
    /\ Sends("graph", "unsupported") => Refusing
    /\ Sends("premium", "google.cn") => Refusing
    /\ Sends("premium", "not-available") => Refusing
    /\ \A q \in {"home1", "home2", "home3"} : Sends(q, "restricted") => Refusing
    /\ Sends("startup", "breached") => Refusing
    /\ Sends("startup", "disallowed") => Refusing
    /\ Sends("geoip", "disallowed") => Refusing
    /\ Sends("signup", "320") => Refusing
    /\ Sends("signup", "unlaunched") => Refusing
    /\ Sends("playurl", "code-10403") => Refusing
    /\ Sends("claude", "redirected") => Refusing
    /\ Sends("compliance", "refusal") => world \notin {"served", "web"}
    /\ Sends("ios", "refusal") => world \notin {"served", "app"}
  BY DEF Sends, Pages, Plain, Document, NetflixTitles

\* The marks that only a service that serves it sends.
LEMMA MarksOfService ==
    /\ Sends("graph", "supported") => ~Refusing
    /\ Sends("startup", "allowed") => ~Refusing
    /\ Sends("geoip", "allowed") => ~Refusing
    /\ Sends("bare", "country") => ~Refusing
    /\ Sends("browser", "country") => ~Refusing
    /\ Sends("front", "reddit") => ~Refusing
    /\ Sends("ticket", "animeSn") => ~Refusing
    /\ Sends("playurl", "code0") => ~Refusing
    /\ Sends("app", "offered") => ~Refusing
  BY DEF Sends, Pages, Plain, Document, NetflixTitles

\* A title page without a mark of refusal, of a service that refuses it, was
\* cut at the cap.
LEMMA TitleWasCut ==
    ASSUME Sourced, NEW q \in NetflixTitles, OK(q), Has(q, "netflix"),
           ~NetflixRefused(q), Refusing
    PROVE  source[q] = "capped"
<1>1. PICK page \in Pages(q), n \in Nat : ReadUpTo(q, page, n)
  BY AnswerIsRead DEF Has, Replaced, Queries
<1>2. page \in {Document("404", <<>>), Plain(<<"netflix", "Oh-no">>)}
  BY DEF Pages, NetflixTitles
<1>3. Markers(q) = {}
  BY DEF Markers, NetflixTitles
<1>4. QED
  BY <1>1, <1>2, <1>3 DEF ReadUpTo, Reply, Prefix, NetflixRefused, Has, OK, Status, Plain, Document

\* A page that is read for a marker, and says that it is served although it is
\* not, was left at the marker.
LEMMA PremiumWasLeft ==
    ASSUME Sourced, Has("premium", "country"), Has("premium", "ad-free"),
           ~Has("premium", "not-available"), Refusing
    PROVE  source["premium"] = "stopped"
<1> DEFINE q == "premium"
<1>1. PICK page \in Pages(q), n \in Nat : ReadUpTo(q, page, n)
  BY AnswerIsRead DEF Has, Replaced, Queries
<1>2. page \in {Plain(<<"google.cn">>), Plain(<<"country", "not-available">>),
                 Plain(<<"country", "ad-free", "not-available">>)}
  BY DEF Pages, NetflixTitles
<1>3. /\ Len(page.marks) \in Nat /\ n \in 0..Len(page.marks)
      /\ Answered(q) /\ got[q].marks = Prefix(page.marks, n)
  BY <1>1, <1>2 DEF ReadUpTo, Reply, Has, Plain, Document
<1>4. page.marks = <<"country", "ad-free", "not-available">> /\ n = 2
  BY <1>2, <1>3 DEF Prefix, Has, Plain, Document
<1>5. QED
  BY <1>1, <1>4 DEF ReadUpTo, Markers, NetflixTitles

LEMMA HomeWasLeft ==
    ASSUME Sourced, NEW q \in {"home1", "home2", "home3"},
           Has(q, "country"), ~Has(q, "restricted"), Refusing
    PROVE  source[q] = "stopped"
<1>1. PICK page \in Pages(q), n \in Nat : ReadUpTo(q, page, n)
  BY AnswerIsRead DEF Has, Replaced, Queries
<1>2. page \in {Plain(<<>>), Document("503", <<>>),
                 Plain(<<"restricted", "territory", "country">>),
                 Plain(<<"territory", "country", "restricted">>)}
  BY DEF Pages, NetflixTitles
<1>3. /\ Len(page.marks) \in Nat /\ n \in 0..Len(page.marks)
      /\ Answered(q) /\ got[q].marks = Prefix(page.marks, n)
  BY <1>1, <1>2 DEF ReadUpTo, Reply, Has, Plain, Document
<1>4. n \in 1..2 /\ page.marks = <<"territory", "country", "restricted">>
  BY <1>2, <1>3 DEF Prefix, Has, Plain, Document
<1>5. \A i \in 1..n : page.marks[i] # "restricted"
  BY <1>4
<1>6. QED
  BY <1>1, <1>4, <1>5 DEF ReadUpTo, Markers, Long

\* What is asked in a short reply is read to its end.
LEMMA ShortIsWhole ==
    ASSUME Sourced, NEW q \in Queries, q \notin Long, Markers(q) = {}, Answered(q)
    PROVE  \/ Replaced(q)
           \/ \E page \in Pages(q) :
                 /\ got[q].status = page.status
                 /\ got[q].marks = {page.marks[i] : i \in 1..Len(page.marks)}
<1>1. CASE \E page \in Pages(q), n \in Nat : ReadUpTo(q, page, n)
  <2>1. PICK page \in Pages(q), n \in Nat : ReadUpTo(q, page, n)
    BY <1>1
  <2>2. n = Len(page.marks)
    BY <2>1, PagesAreDocuments DEF ReadUpTo
  <2>3. QED
    BY <2>1, <2>2 DEF ReadUpTo, Reply, Prefix
<1>2. QED
  BY <1>1, AnswerIsRead

\* Who may sign up without the mark of a launch to come is served.
LEMMA SignupIsServed ==
    ASSUME Sourced, Has("signup", "311"), ~Has("signup", "unlaunched")
    PROVE  ~Refusing
<1>1. PICK page \in Pages("signup") :
          got["signup"].marks = {page.marks[i] : i \in 1..Len(page.marks)}
  BY ShortIsWhole DEF Has, Replaced, Queries, Long, Markers, NetflixTitles
<1>2. QED
  BY <1>1, SMTT(30) DEF Has, Pages, Plain, Document, NetflixTitles

\* A reply without the mark that would decide it came from somebody else.
LEMMA TicketWasReplaced ==
    ASSUME Sourced, Answered("ticket"), ~Has("ticket", "animeSn"), ~Refusing
    PROVE  "ticket" \in DOMAIN source /\ source["ticket"] = "strange"
<1>1. Replaced("ticket") \/ \E page \in Pages("ticket") :
          got["ticket"].marks = {page.marks[i] : i \in 1..Len(page.marks)}
  BY ShortIsWhole DEF Queries, Long, Markers, NetflixTitles
<1>2. QED
  <2>1. \A page \in Pages("ticket") : page = Plain(<<"animeSn">>)
    BY DEF Pages, NetflixTitles
  <2>2. "animeSn" \in {<<"animeSn">>[i] : i \in 1..1}
    OBVIOUS
  <2>3. Replaced("ticket")
    BY <1>1, <2>1, <2>2 DEF Has, Plain, Document
  <2>4. QED
    BY <2>3 DEF Replaced, Sourced, Answered, Asked

LEMMA SurfaceWasReplaced ==
    ASSUME Sourced, NEW q \in {"compliance", "ios"}, OK(q), ~Has(q, "refusal"),
           Refusing
    PROVE  q \in DOMAIN source /\ source[q] = "strange"
<1>1. Replaced(q) \/ \E page \in Pages(q) :
          /\ got[q].status = page.status
          /\ got[q].marks = {page.marks[i] : i \in 1..Len(page.marks)}
  BY ShortIsWhole DEF OK, Queries, Long, Markers, NetflixTitles
<1>2. \A page \in Pages(q) : page.status = "403"
  BY DEF Pages, Plain, Document, NetflixTitles, Refusing
<1>3. Replaced(q)
  BY <1>1, <1>2 DEF OK
<1>4. QED
  BY <1>3 DEF Replaced, OK, Sourced, Answered, Asked

\* A page of the application that does not offer it, of a service that serves
\* it, was cut at the cap.
LEMMA AppWasCut ==
    ASSUME Sourced, Has("app", "gemini"), ~Has("app", "offered"), ~Refusing
    PROVE  "app" \in DOMAIN source /\ source["app"] = "capped"
<1>1. PICK page \in Pages("app"), n \in Nat : ReadUpTo("app", page, n)
  BY AnswerIsRead DEF Has, Replaced, Queries
<1>2. page.marks = <<"gemini", "offered">>
  BY DEF Pages, NetflixTitles, Plain, Document
<1>3. Markers("app") = {}
  BY DEF Markers
<1>4. QED
  BY <1>1, <1>2, <1>3 DEF ReadUpTo, Reply, Prefix, Has, Sourced, Answered, Asked

\* The page of a refusal shows it before anything else.
LEMMA ClaudeIsServed ==
    ASSUME Sourced, Has("claude", "claude"), ~Has("claude", "redirected")
    PROVE  ~Refusing
<1>1. PICK page \in Pages("claude"), n \in Nat : ReadUpTo("claude", page, n)
  BY AnswerIsRead DEF Has, Replaced, Queries
<1>2. Refusing => page.marks = <<"redirected", "claude">>
  BY DEF Pages, NetflixTitles, Plain, Document
<1>3. QED
  BY <1>1, <1>2 DEF ReadUpTo, Reply, Prefix, Has

\* The status of a refusal is the service's, or that of a page in its place.
LEMMA StatusOfRefusal ==
    ASSUME Sourced, NEW q \in {"front", "device"}, NEW s \in {"403", "451"},
           Status(q, s)
    PROVE  Refusing \/ (q \in DOMAIN source /\ source[q] = "strange")
<1>1. CASE Replaced(q)
  BY <1>1 DEF Replaced, Sourced, Status, Answered, Asked
<1>2. ASSUME NEW page \in Pages(q), NEW n \in Nat, ReadUpTo(q, page, n)
      PROVE  Refusing
  BY <1>2 DEF ReadUpTo, Reply, Status, Pages, Plain, Document, NetflixTitles
<1>3. QED
  BY <1>1, <1>2, AnswerIsRead DEF Status, Queries

-----------------------------------------------------------------------------
(* A verdict that is what the service does, or is read out of a page that  *)
(* does not bear it.                                                       *)
Borne(v) ==
    /\ v \in {"unlocked", "partial"} => world # "refused" \/ Misread
    /\ v = "blocked" => world = "refused" \/ Misread

\* Both titles were read, and one of them not as a refusal.
LEMMA NetflixBears == Sourced /\ service = "netflix" => Borne(Netflix)
<1> SUFFICES ASSUME Sourced, service = "netflix" PROVE Borne(Netflix)
  OBVIOUS
<1>1. ASSUME NEW q \in NetflixTitles, NetflixPage(q), ~NetflixRefused(q), Refusing
      PROVE  q \in DOMAIN source \cap NetflixTitles /\ source[q] = "capped"
  BY <1>1, TitleWasCut DEF NetflixPage, NetflixRefused, Sourced, OK, Answered, Asked
<1>2. Netflix \in {"unlocked", "partial", "blocked"} =>
        /\ \A q \in NetflixTitles : NetflixPage(q)
        /\ Netflix = IF \A q \in NetflixTitles : NetflixRefused(q)
                     THEN "partial" ELSE "unlocked"
  BY DEF Netflix, Get
<1>3. CASE Netflix \in {"unlocked", "partial", "blocked"}
  <2>1. CASE \A q \in NetflixTitles : NetflixRefused(q)
    BY <1>2, <1>3, <2>1 DEF Borne, Misread
  <2>2. CASE \E q \in NetflixTitles : ~NetflixRefused(q)
    BY <1>1, <1>2, <1>3, <2>2 DEF Borne, Refusing, Misread
  <2>3. QED
    BY <2>1, <2>2
<1>4. QED
  BY <1>3 DEF Borne

\* The flag of the last answer, or a refusal before it.
LEMMA DisneyBears == Sourced => Borne(Disney)
<1> SUFFICES ASSUME Sourced PROVE Borne(Disney)
  OBVIOUS
<1>1. /\ Has("devices", "403-ERROR") => Sends("devices", "403-ERROR")
      /\ Has("token", "forbidden") => Sends("token", "forbidden")
      /\ Has("graph", "supported") => Sends("graph", "supported")
      /\ Has("graph", "unsupported") => Sends("graph", "unsupported")
  BY MarksAreSent DEF Queries
<1>2. QED
  BY <1>1, MarksOfRefusal, MarksOfService
     DEF Disney, Get, Borne, Refusing

\* A page read to its end says whether it is not available.
LEMMA YouTubePremiumBears == Sourced => Borne(YouTubePremium)
<1> SUFFICES ASSUME Sourced PROVE Borne(YouTubePremium)
  OBVIOUS
<1>1. /\ Has("premium", "google.cn") => Sends("premium", "google.cn")
      /\ Has("premium", "not-available") => Sends("premium", "not-available")
  BY MarksAreSent DEF Queries
<1>2. ASSUME Has("premium", "country"), Has("premium", "ad-free"),
             ~Has("premium", "not-available"), Refusing
      PROVE  "premium" \in DOMAIN source /\ source["premium"] = "stopped"
  BY <1>2, PremiumWasLeft DEF Sourced, Has, Answered, Asked
<1>3. QED
  BY <1>1, <1>2, MarksOfRefusal, MarksOfService
     DEF YouTubePremium, Get, GetOK, Borne, Refusing, Misread

\* Of the three requests the first that says something.
LEMMA PrimeVideoBears == Sourced => Borne(PrimeVideo)
<1> SUFFICES ASSUME Sourced PROVE Borne(PrimeVideo)
  OBVIOUS
<1> DEFINE homes == {"home1", "home2", "home3"}
<1>1. \A q \in homes : Has(q, "restricted") => Refusing
  BY MarksAreSent, MarksOfRefusal DEF Queries
<1>2. \A q \in homes : Tells(q) /\ ~Has(q, "restricted") /\ Refusing => Misread
  BY HomeWasLeft DEF Tells, Misread, Sourced, Has, Answered, Asked
<1>3. \/ PrimeVideo \notin Verdicts \/ PrimeVideo = "failed"
      \/ \E q \in homes : Tells(q) /\ PrimeVideo =
             IF Has(q, "restricted") THEN "blocked" ELSE "unlocked"
  BY DEF PrimeVideo, Home, HomeAgain, Verdicts
<1>4. QED
  BY <1>1, <1>2, <1>3 DEF Borne, Refusing, Verdicts

\* The flag of the answer.
LEMMA DAZNBears == Sourced => Borne(DAZN)
<1> SUFFICES ASSUME Sourced PROVE Borne(DAZN)
  OBVIOUS
<1>1. /\ Has("startup", "breached") => Sends("startup", "breached")
      /\ Has("startup", "allowed") => Sends("startup", "allowed")
      /\ Has("startup", "disallowed") => Sends("startup", "disallowed")
  BY MarksAreSent DEF Queries
<1>2. QED
  BY <1>1, MarksOfRefusal, MarksOfService
     DEF DAZN, Get, Borne, Refusing

\* The flag of the answer.
LEMMA TVBAnywhereBears == Sourced => Borne(TVBAnywhere)
<1> SUFFICES ASSUME Sourced PROVE Borne(TVBAnywhere)
  OBVIOUS
<1>1. /\ Has("geoip", "allowed") => Sends("geoip", "allowed")
      /\ Has("geoip", "disallowed") => Sends("geoip", "disallowed")
  BY MarksAreSent DEF Queries
<1>2. QED
  BY <1>1, MarksOfRefusal, MarksOfService
     DEF TVBAnywhere, Get, GetOK, Borne, Refusing

\* The status of the answer, and that no launch is to come.
LEMMA SpotifyBears == Sourced => Borne(Spotify)
<1> SUFFICES ASSUME Sourced PROVE Borne(Spotify)
  OBVIOUS
<1>1. /\ Has("signup", "320") => Sends("signup", "320")
      /\ Has("signup", "unlaunched") => Sends("signup", "unlaunched")
  BY MarksAreSent DEF Queries
<1>2. QED
  BY <1>1, MarksOfRefusal, MarksOfService, SignupIsServed
     DEF Spotify, Get, GetOK, Borne, Refusing

\* The status, or the page itself.
LEMMA RedditBears == Sourced => Borne(Reddit)
<1> SUFFICES ASSUME Sourced PROVE Borne(Reddit)
  OBVIOUS
<1>1. /\ Has("front", "reddit") => Sends("front", "reddit")
  BY MarksAreSent DEF Queries
<1>2. Status("front", "403") /\ ~Refusing => Misread
  BY StatusOfRefusal DEF Misread
<1>3. QED
  BY <1>1, <1>2, MarksOfRefusal, MarksOfService
     DEF Reddit, Get, Borne, Refusing

\* Only a service that serves this address names its country.
LEMMA TikTokBears == Sourced => Borne(TikTok)
<1> SUFFICES ASSUME Sourced PROVE Borne(TikTok)
  OBVIOUS
<1>1. /\ Has("bare", "country") => Sends("bare", "country")
      /\ Has("browser", "country") => Sends("browser", "country")
  BY MarksAreSent DEF Queries
<1>2. QED
  BY <1>1, MarksOfRefusal, MarksOfService
     DEF TikTok, Get, Borne, Refusing

\* Each surface refuses or answers, or somebody answered in its place.
LEMMA ChatGPTBears == Sourced /\ service = "chatgpt" => Borne(ChatGPT)
<1> SUFFICES ASSUME Sourced, service = "chatgpt" PROVE Borne(ChatGPT)
  OBVIOUS
<1>1. \A q \in {"compliance", "ios"} : Has(q, "refusal") => Sends(q, "refusal")
  BY MarksAreSent DEF Queries
<1>2. world \in {"served", "web", "app", "refused"}
  BY DEF Sourced, Worlds
<1>3. \A q \in {"compliance", "ios"} : OK(q) /\ ~Has(q, "refusal") /\ Refusing => Misread
  BY SurfaceWasReplaced DEF Misread
<1>4. ChatGPT = "blocked" => world = "refused"
  <2>1. ChatGPT = "blocked" => Has("compliance", "refusal") /\ Has("ios", "refusal")
    BY DEF ChatGPT, Trace2, Surface, Get
  <2>2. QED
    BY <2>1, <1>1, <1>2, MarksOfRefusal
<1>5. ChatGPT \in {"unlocked", "partial"} =>
        \E q \in {"compliance", "ios"} : OK(q) /\ ~Has(q, "refusal")
  BY DEF ChatGPT, Trace2, Surface, Get
<1>6. QED
  BY <1>3, <1>4, <1>5 DEF Borne, Refusing

\* The page offers the application, does not, or was cut.
LEMMA GeminiBears == Sourced => Borne(Gemini)
<1> SUFFICES ASSUME Sourced PROVE Borne(Gemini)
  OBVIOUS
<1>1. /\ Has("app", "offered") => Sends("app", "offered")
  BY MarksAreSent DEF Queries
<1>2. Has("app", "gemini") /\ ~Has("app", "offered") /\ ~Refusing => Misread
  BY AppWasCut DEF Misread
<1>3. QED
  BY <1>1, <1>2, MarksOfRefusal, MarksOfService
     DEF Gemini, Get, GetOK, Borne, Refusing

\* Where the page was redirected.
LEMMA ClaudeBears == Sourced => Borne(Claude)
<1> SUFFICES ASSUME Sourced PROVE Borne(Claude)
  OBVIOUS
<1>1. /\ Has("claude", "redirected") => Sends("claude", "redirected")
  BY MarksAreSent DEF Queries
<1>2. QED
  BY <1>1, MarksOfRefusal, MarksOfService, ClaudeIsServed
     DEF Claude, Get, Trace2, Borne, Refusing

\* Steam serves every address, and no answer counts as a refusal.
LEMMA SteamBears == Sourced /\ service = "steam" => Borne(Steam)
<1> SUFFICES ASSUME Sourced, service = "steam" PROVE Borne(Steam)
  OBVIOUS
<1>1. world = "served"
  BY DEF Sourced, Worlds
<1>2. Steam # "blocked"
  BY DEF Steam, Get, GetOK
<1>3. QED
  BY <1>1, <1>2 DEF Borne

\* The code of the answer.
LEMMA BilibiliBears == Sourced => Borne(Bilibili)
<1> SUFFICES ASSUME Sourced PROVE Borne(Bilibili)
  OBVIOUS
<1>1. /\ Has("playurl", "code0") => Sends("playurl", "code0")
      /\ Has("playurl", "code-10403") => Sends("playurl", "code-10403")
  BY MarksAreSent DEF Queries
<1>2. QED
  BY <1>1, MarksOfRefusal, MarksOfService
     DEF Bilibili, Get, GetOK, Borne, Refusing

\* The ticket names the title, or somebody else answered.
LEMMA BahamutBears == Sourced => Borne(Bahamut)
<1> SUFFICES ASSUME Sourced PROVE Borne(Bahamut)
  OBVIOUS
<1>1. /\ Has("ticket", "animeSn") => Sends("ticket", "animeSn")
  BY MarksAreSent DEF Queries
<1>2. Answered("ticket") /\ ~Has("ticket", "animeSn") /\ ~Refusing => Misread
  BY TicketWasReplaced DEF Misread
<1>3. Asked("ticket") /\ ~Lost("ticket") => Answered("ticket")
  BY DEF Lost, Answered
<1>4. \A s \in {"403", "451"} : Status("device", s) /\ ~Refusing => Misread
  BY StatusOfRefusal DEF Misread
<1>5. QED
  BY <1>1, <1>2, <1>3, <1>4, MarksOfRefusal, MarksOfService
     DEF Bahamut, Get, Borne, Refusing

LEMMA VerdictsBear == Sourced => Borne(Probe)
  BY NetflixBears, DisneyBears, YouTubePremiumBears, PrimeVideoBears,
     DAZNBears, TVBAnywhereBears, SpotifyBears, RedditBears,
     TikTokBears, ChatGPTBears, GeminiBears, ClaudeBears,
     SteamBears, BilibiliBears, BahamutBears
     DEF Probe, Sourced, Catalogue

\* A service reported as usable serves this address, and one reported as
\* blocked refuses it, whatever was lost, replaced or cut short and however
\* often a page was asked for again, but for the ways of misreading a page
\* that Misread names (unlock.go:41-53).
THEOREM VerdictsAreTrue == UnlockSpec => []VerdictIsTrue
<1>1. UnlockInv => VerdictIsTrue
  BY VerdictsBear DEF UnlockInv, Decision, Borne, VerdictIsTrue
<1>2. QED
  BY <1>1, UnlockStarts, UnlockSteps, PTL DEF UnlockSpec

=============================================================================
