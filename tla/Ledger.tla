------------------------------- MODULE Ledger -------------------------------
(***************************************************************************)
(* What the account file promises: it behaves as if every writer changed   *)
(* it in one atomic step.  A step is either a decision of the operator,    *)
(* about one account and no other, or bookkeeping, which decides nothing:  *)
(* it keeps every account and its terms, and lowers no usage unless it     *)
(* starts a new period.                                                    *)
(***************************************************************************)
EXTENDS Accounts

VARIABLES accounts,   \* the account file
          intent      \* the terms the operator decided, by account

vars == <<accounts, intent>>

TermsIn(s) == [t \in DOMAIN s |-> s[t].terms]

Init == IsStore(accounts) /\ intent = TermsIn(accounts)

\* s is a later state of r as far as bookkeeping goes.
Keeps(r, s) ==
    /\ DOMAIN s = DOMAIN r
    /\ \A t \in DOMAIN r :
          /\ s[t].terms = r[t].terms
          /\ \/ \A n \in Nodes : s[t].usage[n] >= r[t].usage[n]
             \/ s[t].usage = NoUsage

Bookkeeping ==
    /\ Keeps(accounts, accounts')
    /\ UNCHANGED intent

Issue(t) ==
    /\ t \notin DOMAIN accounts /\ t \in DOMAIN accounts'
    /\ LET new == accounts'[t] IN
          /\ accounts' = Put(accounts, t, NewAccount(new.terms, new.period))
          /\ intent' = Put(intent, t, new.terms)

Withdraw(t) ==
    /\ t \in DOMAIN accounts
    /\ accounts' = Drop(accounts, t) /\ intent' = Drop(intent, t)

Amend(t) ==
    /\ t \in DOMAIN accounts \cap DOMAIN accounts'
    /\ LET new == accounts'[t] IN
          /\ accounts' = [accounts EXCEPT ![t].terms = new.terms]
          /\ intent' = [intent EXCEPT ![t] = new.terms]

Forgive(t) ==
    /\ t \in DOMAIN accounts \cap DOMAIN accounts'
    /\ LET new == accounts'[t] IN
          accounts' = [accounts EXCEPT ![t] = ResetCounters(@, new.period)]
    /\ UNCHANGED intent

Reissue(t, fresh) ==
    /\ t \in DOMAIN accounts /\ fresh \notin DOMAIN accounts
    /\ accounts' = Put(Drop(accounts, t), fresh, accounts[t])
    /\ intent' = Put(Drop(intent, t), fresh, intent[t])

Next == \/ Bookkeeping
        \/ \E t \in Tokens : Issue(t) \/ Withdraw(t) \/ Amend(t) \/ Forgive(t)
        \/ \E t, fresh \in Tokens : Reissue(t, fresh)

Spec == Init /\ [][Next]_vars

=============================================================================
