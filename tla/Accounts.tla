------------------------------ MODULE Accounts ------------------------------
(***************************************************************************)
(* The account file as data: what internal/user stores per account, what   *)
(* it derives, and what the writers of the file do to an in-memory copy.   *)
(*                                                                         *)
(* A store is a function from the subscription tokens it holds to account  *)
(* records.  Time is the calendar month: the monthly reset and the expiry  *)
(* date are the only things the code reads the clock for here.  Upload and *)
(* download are treated alike and independently by every function below,   *)
(* so one byte count stands for either.  UsedBytes is not a field: for an  *)
(* account created by this version the code keeps it equal to the sum of   *)
(* the per-node entries (an account migrated from a version-1 file starts  *)
(* with an aggregate that no entry accounts for, until its first reset).   *)
(***************************************************************************)
EXTENDS Naturals, Functions

CONSTANTS Tokens,   \* subscription tokens an account can be given
          Nodes     \* node ids

\* A core user name is <token>@<node id>; it keys the traffic counters.
Names == Tokens \X Nodes

Never == 0          \* expire_at is the zero time
Unlimited == 0      \* quota_bytes of an account without a quota

\* What the operator decides about an account, ...
Terms == [enabled: BOOLEAN, quota: Nat, expiry: Nat, nodes: SUBSET Nodes]

\* ... and what is kept beside it: the bytes per node, the month they were
\* counted in, and whether the running core was last told to accept it.
Account == [terms: Terms, usage: [Nodes -> Nat], period: Nat, applied: BOOLEAN]

NoUsage == [n \in Nodes |-> 0]

NewAccount(terms, now) ==
    [terms |-> terms, usage |-> NoUsage, period |-> now, applied |-> FALSE]

\* A partial function with one entry more, and with one less.
Put(f, t, v) == [u \in DOMAIN f \cup {t} |-> IF u = t THEN v ELSE f[u]]
Drop(f, t) == [u \in DOMAIN f \ {t} |-> f[u]]

IsStore(s) == /\ DOMAIN s \subseteq Tokens
              /\ s = [t \in DOMAIN s |-> s[t]]
              /\ \A t \in DOMAIN s : s[t] \in Account

-----------------------------------------------------------------------------
\* The cases in the order of the switch in User.Status.
Status(acc, now) ==
    IF ~acc.terms.enabled THEN "disabled"
    ELSE IF acc.terms.expiry # Never /\ now >= acc.terms.expiry THEN "expired"
    ELSE IF /\ acc.terms.quota # Unlimited
            /\ SumFunction(acc.usage) >= acc.terms.quota THEN "over-quota"
    ELSE "active"

Usable(acc, now) == Status(acc, now) = "active"

\* The accounts the core may authenticate.  Every writer completes the
\* credentials of a selected node before it saves, so an account is
\* credential-ready exactly when it selects a node.
Routable(s, now) ==
    {t \in DOMAIN s : Usable(s[t], now) /\ s[t].terms.nodes # {}}

\* The users of the rendered document, every node being enabled.
Members(s, now) ==
    {name \in Names : /\ name[1] \in Routable(s, now)
                      /\ name[2] \in s[name[1]].terms.nodes}

\* The names a cycle asks the core about: every selection, routable or not.
Selected(s) ==
    {name \in Names : /\ name[1] \in DOMAIN s
                      /\ name[2] \in s[name[1]].terms.nodes}

\* Mutant: an account that lost its access is not noticed.
OnlyNewAccess(s, now) ==
    \E t \in DOMAIN s : ~s[t].applied /\ t \in Routable(s, now)

\* Some account's recorded flag disagrees with what may be live.
Transitions(s, now) ==
    \E t \in DOMAIN s : s[t].applied # (t \in Routable(s, now))

\* Mutant: a usable account counts as applied without any node.
MarkUsable(s, now) ==
    [t \in DOMAIN s |-> [s[t] EXCEPT !.applied = Usable(s[t], now)]]

MarkApplied(s, now) ==
    [t \in DOMAIN s |-> [s[t] EXCEPT !.applied = t \in Routable(s, now)]]

-----------------------------------------------------------------------------
ResetCounters(acc, now) == [acc EXCEPT !.usage = NoUsage, !.period = now]

\* Months are compared for equality, not for order.
ResetIfNewMonth(acc, now) ==
    IF acc.period = now THEN acc ELSE ResetCounters(acc, now)

\* deltas maps the names that moved bytes to how many; a name is charged only
\* while its account still selects the node.
AddUsage(t, acc, deltas) ==
    LET gained(n) == IF n \in acc.terms.nodes /\ <<t, n>> \in DOMAIN deltas
                     THEN deltas[<<t, n>>] ELSE 0
    IN [acc EXCEPT !.usage = [n \in Nodes |-> acc.usage[n] + gained(n)]]

\* One accounting cycle against a store: add the deltas, then roll the month.
Bill(s, deltas, now) ==
    [t \in DOMAIN s |-> ResetIfNewMonth(AddUsage(t, s[t], deltas), now)]

=============================================================================
