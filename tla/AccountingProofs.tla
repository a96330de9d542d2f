-------------------------- MODULE AccountingProofs --------------------------
(***************************************************************************)
(* Proofs about Accounting, for any number of panels, tokens, nodes,       *)
(* quotas and faults: every variable keeps its type, whoever deploys or    *)
(* saves works on the terms that are in the file, the file implements      *)
(* Ledger, no byte is charged twice, the baseline never runs ahead of what *)
(* was charged, and the flags on disk describe the core.                   *)
(***************************************************************************)
EXTENDS Accounting, TLAPS

-----------------------------------------------------------------------------
(***************************************************************************)
(* What the operators of Accounts preserve.                                *)
(***************************************************************************)

\* Bytes per name, as the accounting loop passes them to AddUsage.
IsDeltas(deltas) == /\ DOMAIN deltas \subseteq Names
                    /\ \A name \in DOMAIN deltas : deltas[name] \in Nat

\* User.ResetCounters keeps an account an account.
LEMMA ResetCountersType ==
    ASSUME NEW acc \in Account, NEW m \in Nat
    PROVE  ResetCounters(acc, m) \in Account
BY DEF ResetCounters, Account, NoUsage

\* So does the calendar reset.
LEMMA ResetIfNewMonthType ==
    ASSUME NEW acc \in Account, NEW m \in Nat
    PROVE  ResetIfNewMonth(acc, m) \in Account
BY ResetCountersType DEF ResetIfNewMonth

\* And so does charging it.
LEMMA AddUsageType ==
    ASSUME NEW t \in Tokens, NEW acc \in Account, NEW deltas, IsDeltas(deltas)
    PROVE  AddUsage(t, acc, deltas) \in Account
<1> DEFINE gained(n) == IF n \in acc.terms.nodes /\ <<t, n>> \in DOMAIN deltas
                        THEN deltas[<<t, n>>] ELSE 0
           usage == [n \in Nodes |-> acc.usage[n] + gained(n)]
<1>1. \A n \in Nodes : gained(n) \in Nat
  BY DEF IsDeltas, Names
<1>2. usage \in [Nodes -> Nat]
  BY <1>1 DEF Account
<1>3. AddUsage(t, acc, deltas) = [acc EXCEPT !.usage = usage]
  BY DEF AddUsage
<1>4. QED
  BY <1>2, <1>3 DEF Account

\* Charging lowers no usage and decides nothing.
LEMMA AddUsageGrows ==
    ASSUME NEW t \in Tokens, NEW acc \in Account, NEW deltas, IsDeltas(deltas)
    PROVE  /\ AddUsage(t, acc, deltas).terms = acc.terms
           /\ AddUsage(t, acc, deltas).period = acc.period
           /\ \A n \in Nodes :
                 AddUsage(t, acc, deltas).usage[n] >= acc.usage[n]
<1> DEFINE gained(n) == IF n \in acc.terms.nodes /\ <<t, n>> \in DOMAIN deltas
                        THEN deltas[<<t, n>>] ELSE 0
           usage == [n \in Nodes |-> acc.usage[n] + gained(n)]
<1>1. \A n \in Nodes : gained(n) \in Nat
  BY DEF IsDeltas, Names
<1>2. \A n \in Nodes : usage[n] >= acc.usage[n]
  BY <1>1 DEF Account
<1>3. AddUsage(t, acc, deltas) = [acc EXCEPT !.usage = usage]
  BY DEF AddUsage
<1>4. QED
  BY <1>2, <1>3 DEF Account

\* A cycle's bill leaves a store a store, over the same accounts.
LEMMA BillType ==
    ASSUME NEW s, IsStore(s), NEW deltas, IsDeltas(deltas), NEW m \in Nat
    PROVE  IsStore(Bill(s, deltas, m)) /\ DOMAIN Bill(s, deltas, m) = DOMAIN s
<1>1. \A t \in DOMAIN s :
          ResetIfNewMonth(AddUsage(t, s[t], deltas), m) \in Account
  BY AddUsageType, ResetIfNewMonthType DEF IsStore
<1>2. QED
  BY <1>1 DEF Bill, IsStore

\* Refreshing the applied flags does, too, and touches nothing else.
LEMMA MarkAppliedType ==
    ASSUME NEW s, IsStore(s), NEW m
    PROVE  /\ IsStore(MarkApplied(s, m))
           /\ DOMAIN MarkApplied(s, m) = DOMAIN s
           /\ \A t \in DOMAIN s : /\ MarkApplied(s, m)[t].terms = s[t].terms
                                  /\ MarkApplied(s, m)[t].usage = s[t].usage
<1>1. \A acc \in Account, b \in BOOLEAN :
          /\ [acc EXCEPT !.applied = b] \in Account
          /\ [acc EXCEPT !.applied = b].terms = acc.terms
          /\ [acc EXCEPT !.applied = b].usage = acc.usage
  BY DEF Account
<1>2. ASSUME NEW t \in DOMAIN s
      PROVE  /\ [s[t] EXCEPT !.applied = t \in Routable(s, m)] \in Account
             /\ [s[t] EXCEPT !.applied = t \in Routable(s, m)].terms
                    = s[t].terms
             /\ [s[t] EXCEPT !.applied = t \in Routable(s, m)].usage
                    = s[t].usage
  <2>1. s[t] \in Account
    BY DEF IsStore
  <2>2. (t \in Routable(s, m)) \in BOOLEAN
    OBVIOUS
  <2>3. QED
    BY ONLY <1>1, <2>1, <2>2, Zenon
<1>3. DOMAIN MarkApplied(s, m) = DOMAIN s
  BY DEF MarkApplied
<1>4. \A t \in DOMAIN s :
          MarkApplied(s, m)[t] = [s[t] EXCEPT !.applied = t \in Routable(s, m)]
  BY Zenon DEF MarkApplied
<1>5. MarkApplied(s, m) = [t \in DOMAIN MarkApplied(s, m) |-> MarkApplied(s, m)[t]]
  BY Zenon DEF MarkApplied
<1>6. \A t \in DOMAIN s : /\ MarkApplied(s, m)[t] \in Account
                         /\ MarkApplied(s, m)[t].terms = s[t].terms
                         /\ MarkApplied(s, m)[t].usage = s[t].usage
  BY <1>2, <1>4, Zenon
<1>7. QED
  BY <1>3, <1>5, <1>6, Zenon DEF IsStore

\* What MarkApplied records of an account.
LEMMA MarkAppliedFlags ==
    ASSUME NEW s, IsStore(s), NEW m, NEW t \in DOMAIN s
    PROVE  MarkApplied(s, m)[t].applied = (t \in Routable(s, m))
<1>1. \A acc \in Account, b \in BOOLEAN : [acc EXCEPT !.applied = b].applied = b
  BY DEF Account
<1>2. (t \in Routable(s, m)) \in BOOLEAN /\ s[t] \in Account
  BY DEF IsStore
<1>3. MarkApplied(s, m)[t] = [s[t] EXCEPT !.applied = t \in Routable(s, m)]
  BY Zenon DEF MarkApplied
<1>4. QED
  BY ONLY <1>1, <1>2, <1>3, Zenon

\* Billing a cycle changes no flag.
LEMMA BillFlags ==
    ASSUME NEW s, IsStore(s), NEW deltas, IsDeltas(deltas), NEW m \in Nat,
           NEW t \in DOMAIN s
    PROVE  Bill(s, deltas, m)[t].applied = s[t].applied
<1> DEFINE grown == AddUsage(t, s[t], deltas)
<1>1. t \in Tokens /\ s[t] \in Account
  BY DEF IsStore
<1>2. grown \in Account /\ grown.applied = s[t].applied
  BY <1>1, AddUsageType DEF AddUsage, Account
<1>3. Bill(s, deltas, m)[t] = ResetIfNewMonth(grown, m)
  BY DEF Bill
<1> HIDE DEF grown
<1>4. QED
  BY <1>2, <1>3 DEF ResetIfNewMonth, ResetCounters, Account

\* Adding, replacing or dropping one account of a store gives a store.
LEMMA PutDropType ==
    ASSUME NEW s, IsStore(s), NEW t \in Tokens, NEW acc \in Account
    PROVE  IsStore(Put(s, t, acc)) /\ IsStore(Drop(s, t))
BY DEF Put, Drop, IsStore

\* A new account is an account.
LEMMA NewAccountType ==
    ASSUME NEW terms \in Terms, NEW m \in Nat
    PROVE  NewAccount(terms, m) \in Account
BY DEF NewAccount, Account, NoUsage

-----------------------------------------------------------------------------
(***************************************************************************)
(* What the actions of Accounting preserve.                                *)
(***************************************************************************)

\* A new account's terms are terms.
LEMMA DefaultTermsType == DefaultTerms \in Terms
BY DEF DefaultTerms, Terms, Unlimited, Never

\* So is what an account menu makes of terms.
LEMMA EditedTermsType ==
    ASSUME NEW terms \in Terms
    PROVE  EditedTerms(terms) \subseteq Terms
<1>1. [terms EXCEPT !.enabled = ~@] \in Terms
  <2>1. \A b \in BOOLEAN : [terms EXCEPT !.enabled = b] \in Terms
    BY DEF Terms
  <2>2. (~terms.enabled) \in BOOLEAN
    OBVIOUS
  <2>3. QED
    BY <2>1, <2>2, Zenon
<1>2. \A q \in Quotas : [terms EXCEPT !.quota = q] \in Terms
  BY ConstantsAssumption DEF Terms
<1>3. \A e \in Expiries : [terms EXCEPT !.expiry = e] \in Terms
  BY ConstantsAssumption DEF Terms
<1>4. \A n \in Nodes : [terms EXCEPT !.nodes = (@ \cup {n}) \ (@ \cap {n})] \in Terms
  BY DEF Terms
<1>5. QED
  BY <1>1, <1>2, <1>3, <1>4, Zenon DEF EditedTerms

\* Replacing the terms of one account of a store gives a store.
LEMMA AmendType ==
    ASSUME NEW s, IsStore(s), NEW t \in DOMAIN s, NEW terms \in Terms
    PROVE  IsStore([s EXCEPT ![t].terms = terms])
BY DEF IsStore, Account

\* So does a reset of its counters.
LEMMA ForgiveType ==
    ASSUME NEW s, IsStore(s), NEW t \in DOMAIN s, NEW now0 \in Nat
    PROVE  IsStore([s EXCEPT ![t] = ResetCounters(@, now0)])
<1>1. ResetCounters(s[t], now0) \in Account
  BY ResetCountersType DEF IsStore
<1>2. QED
  BY <1>1 DEF IsStore

\* The rendered document lists names.
LEMMA RenderedType == \A p : Rendered(p) \subseteq SUBSET Names
BY DEF Rendered, Members

\* Subtracting readings gives byte counts (diffCounters).
LEMMA DiffType ==
    ASSUME NEW prev, NEW cur, Bytes(prev), Bytes(cur), NEW has
    PROVE  IsDeltas(Diff(prev, cur, has))
<1> DEFINE gain(name) == IF name \in DOMAIN prev /\ cur[name] >= prev[name]
                         THEN cur[name] - prev[name] ELSE cur[name]
           moved == {m \in DOMAIN cur : has /\ gain(m) # 0}
<1>1. \A name \in DOMAIN cur : gain(name) \in Nat
  BY DEF Bytes
<1>2. Diff(prev, cur, has) = [name \in moved |-> gain(name)]
  BY DEF Diff
<1>3. moved \subseteq DOMAIN cur /\ DOMAIN cur \subseteq Names
  BY DEF Bytes
<1> HIDE DEF gain, moved
<1>4. QED
  BY <1>1, <1>2, <1>3 DEF IsDeltas

\* The deltas of the cycle under way are byte counts.
LEMMA DeltasType == LoopType => IsDeltas(Deltas)
BY DiffType DEF LoopType, Deltas

-----------------------------------------------------------------------------
\* The initial state is well typed.
LEMMA InitType == Init => TypeOK
<1> SUFFICES ASSUME Init PROVE TypeOK
  OBVIOUS
<1> DEFINE fresh == [t \in Provisioned |-> NewAccount(DefaultTerms, 1)]
<1>0. DefaultTerms = [enabled |-> TRUE, quota |-> Unlimited, expiry |-> Never,
                      nodes |-> Nodes]
  BY DEF DefaultTerms
<1>1. IsStore(fresh)
  <2>1. NewAccount(DefaultTerms, 1) \in Account
    BY DefaultTermsType, NewAccountType
  <2>2. QED
    BY <2>1, ConstantsAssumption DEF IsStore
<1>2. disk = MarkApplied(fresh, 1) /\ IsStore(disk)
  BY <1>0, <1>1, MarkAppliedType DEF Init
<1>3. config \in SUBSET SUBSET Names /\ serves = UNION config
  BY <1>0 DEF Init, Members
<1>4. intent = [t \in Provisioned |-> fresh[t].terms]
  BY <1>0 DEF Init
<1>5. FileType
  <2>1. IsStore(Empty)
    BY DEF IsStore, Empty
  <2>2. QED
    BY <1>2, <2>1 DEF Init, FileType
<1>6. ProcType
  BY DEF Init, ProcType, PCs
<1>7. LoopType
  BY DEF Init, LoopType, Bytes, Empty
<1>8. CoreType
  <2>1. active \in BOOLEAN
    BY DEF Init
  <2>2. QED
    BY <1>3, <2>1 DEF Init, CoreType, Zero
<1>9. HistoryType
  BY <1>4, ConstantsAssumption DEF Init, HistoryType, Zero
<1>10. QED
  BY <1>5, <1>6, <1>7, <1>8, <1>9 DEF TypeOK

-----------------------------------------------------------------------------
\* Steps of the world outside the program.
LEMMA WorldType ==
    TypeOK /\ (Traffic \/ CoreStop \/ CoreStart \/ NewMonth) => TypeOK'
<1> SUFFICES ASSUME TypeOK, Traffic \/ CoreStop \/ CoreStart \/ NewMonth
             PROVE  TypeOK'
  OBVIOUS
<1> USE DEF TypeOK, FileType, ProcType, LoopType, Bytes, CoreType, HistoryType,
            fileVars, loopVars, coreVars, runVars, editVars
<1>1. CASE Traffic
  BY <1>1 DEF Traffic
<1>2. CASE CoreStop
  <2>1. /\ stops' = stops + 1 /\ CoreDown
        /\ UNCHANGED <<fileVars, pc, now, loopVars, config, editVars, month, faults>>
    BY <1>2 DEF CoreStop
  <2>2. FileType' /\ ProcType' /\ LoopType'
    BY <2>1
  <2>3. active' \in BOOLEAN
    BY <2>1 DEF CoreDown
  <2>4. /\ serves' \subseteq Names /\ count' \in [Names -> Nat]
    BY <2>1 DEF CoreDown, Zero
  <2>5. /\ config' \subseteq SUBSET Names
        /\ month' \in Nat /\ edits' \in Nat /\ faults' \in Nat /\ stops' \in Nat
    BY <2>1
  <2>6. HistoryType'
    BY <2>1 DEF CoreDown, Zero
  <2>7. QED
    BY <2>2, <2>3, <2>4, <2>5, <2>6
<1>3. CASE CoreStart
  BY <1>3 DEF CoreStart, CoreFresh, Zero
<1>4. CASE NewMonth
  BY <1>4 DEF NewMonth
<1>5. QED
  BY <1>1, <1>2, <1>3, <1>4

\* Steps of deploy.Apply.
LEMMA ApplyType ==
    ASSUME NEW p \in Procs, TypeOK, Apply(p)
    PROVE  TypeOK'
<1> DEFINE marked == MarkApplied(store[p], now[p])
<1>1. IsStore(marked)
  BY MarkAppliedType DEF TypeOK, FileType
<1>2. Rendered(p) \subseteq SUBSET Names
  BY RenderedType
<1> HIDE DEF marked
<1> USE DEF TypeOK, FileType, ProcType, LoopType, Bytes, CoreType, HistoryType,
            Goto, PCs, Holding, fileVars, loopVars, coreVars, runVars, editVars
<1>3. CASE ApplySame(p)
  BY <1>1, <1>3 DEF ApplySame, marked
<1>4. CASE ApplyInstall(p)
  BY <1>2, <1>4 DEF ApplyInstall
<1>5. CASE ApplyRestart(p)
  BY <1>1, <1>5 DEF ApplyRestart, CoreFresh, Zero, marked
<1>6. QED
  BY <1>3, <1>4, <1>5 DEF Apply

\* The changes a panel can commit leave a store and tokens behind.
LEMMA ChangeType ==
    ASSUME NEW p \in Panels, TypeOK,
           \/ AddAccount(p) \/ RemoveAccount(p) \/ EditAccount(p)
           \/ ResetUsage(p) \/ RotateToken(p)
    PROVE  IsStore(disk') /\ DOMAIN intent' \subseteq Tokens /\ seen' \subseteq Tokens
<1>0. IsStore(store[p]) /\ now[p] \in Nat /\ seen \subseteq Tokens
      /\ DOMAIN intent \subseteq Tokens /\ DOMAIN store[p] \subseteq Tokens
  BY DEF TypeOK, FileType, ProcType, HistoryType, Procs, IsStore
<1>1. CASE AddAccount(p)
  BY <1>0, <1>1, DefaultTermsType, NewAccountType, PutDropType DEF AddAccount, Put
<1>2. CASE RemoveAccount(p)
  <2>1. PICK t \in DOMAIN store[p] :
            disk' = Drop(store[p], t) /\ intent' = Drop(intent, t) /\ seen' = seen
    BY <1>2 DEF RemoveAccount
  <2>2. QED
    BY <1>0, <2>1 DEF Drop, IsStore
<1>3. CASE EditAccount(p)
  <2>1. PICK t \in DOMAIN store[p] : \E terms \in EditedTerms(store[p][t].terms) :
            /\ disk' = [store[p] EXCEPT ![t].terms = terms]
            /\ intent' = [intent EXCEPT ![t] = terms]
            /\ seen' = seen
    BY <1>3 DEF EditAccount
  <2>2. store[p][t].terms \in Terms
    BY <1>0 DEF IsStore, Account
  <2>3. PICK terms \in Terms : /\ disk' = [store[p] EXCEPT ![t].terms = terms]
                               /\ intent' = [intent EXCEPT ![t] = terms]
                               /\ seen' = seen
    BY <2>1, <2>2, EditedTermsType
  <2>4. QED
    BY <1>0, <2>3, AmendType
<1>4. CASE ResetUsage(p)
  BY <1>0, <1>4, ForgiveType DEF ResetUsage
<1>5. CASE RotateToken(p)
  <2>1. PICK t \in DOMAIN store[p], fresh \in Tokens \ seen :
            /\ disk' = Put(Drop(store[p], t), fresh, store[p][t])
            /\ intent' = Put(Drop(intent, t), fresh, intent[t])
            /\ seen' = seen \cup {fresh}
    BY <1>5 DEF RotateToken
  <2>2. store[p][t] \in Account /\ t \in Tokens
    BY <1>0 DEF IsStore
  <2>3. IsStore(Drop(store[p], t))
    BY <1>0, <2>2, PutDropType
  <2>4. IsStore(disk')
    BY <2>1, <2>2, <2>3, PutDropType
  <2>5. QED
    BY <1>0, <2>1, <2>4 DEF Put, Drop
<1>6. QED
  BY <1>1, <1>2, <1>3, <1>4, <1>5

\* Steps of a panel.
LEMMA PanelType ==
    ASSUME NEW p \in Panels, TypeOK, PanelStart(p) \/ PanelWork(p)
    PROVE  TypeOK'
<1>0. p \in Procs /\ IsStore(Empty)
  BY DEF Procs, IsStore, Empty
<1> USE DEF TypeOK, FileType, ProcType, LoopType, Bytes, CoreType, HistoryType,
            Goto, PCs, Holding, fileVars, loopVars, coreVars, runVars, editVars
<1>1. CASE PanelStart(p)
  BY <1>0, <1>1 DEF PanelStart
<1>2. CASE PanelLock(p)
  BY <1>0, <1>2 DEF PanelLock, Acquire
<1>3. CASE PanelCommit(p)
  <2>1. IsStore(disk') /\ DOMAIN intent' \subseteq Tokens /\ seen' \subseteq Tokens
    BY <1>3, ChangeType DEF PanelCommit
  <2>2. /\ store' = [store EXCEPT ![p] = Empty]
        /\ lock' = NoOne /\ pc' = [pc EXCEPT ![p] = "edited"]
        /\ UNCHANGED <<now, loopVars, coreVars, runVars, edits, month, faults, stops>>
    BY <1>3 DEF PanelCommit, Release
  <2>3. QED
    BY <1>0, <2>1, <2>2
<1>4. CASE PanelRefused(p)
  BY <1>0, <1>4 DEF PanelRefused, Release
<1>5. CASE PanelDeploy(p)
  BY <1>0, <1>5 DEF PanelDeploy, Acquire
<1>6. CASE PanelSave(p)
  BY <1>0, <1>6 DEF PanelSave, Release
<1>7. QED
  BY <1>1, <1>2, <1>3, <1>4, <1>5, <1>6 DEF PanelWork

\* What a cycle waives is a byte count.
LEMMA WaivedType == TypeOK => \A name \in Names : Waived(name) \in Nat
<1> SUFFICES ASSUME TypeOK, NEW name \in Names
             PROVE  Waived(name) \in Nat
  OBVIOUS
<1>1. IsDeltas(Deltas)
  BY DeltasType DEF TypeOK
<1>2. /\ waived[name] \in Nat /\ charged[name] \in Nat
      /\ name \in DOMAIN reading => reading[name] \in Nat
      /\ name \in DOMAIN Deltas => Deltas[name] \in Nat
  BY <1>1 DEF TypeOK, LoopType, Bytes, HistoryType, IsDeltas
<1>3. QED
  BY <1>2 DEF Waived

\* Moving the baseline keeps the types, whatever ends up in its file.
LEMMA BaselineType ==
    ASSUME NEW file, Bytes(file), TypeOK, MoveBaseline(file),
           fileCur' \in BOOLEAN, faults' \in Nat
    PROVE  TypeOK'
<1>1. FileType' /\ ProcType'
  BY DEF TypeOK, FileType, ProcType, MoveBaseline, Goto, PCs, Procs, IsStore, Empty
<1>2. LoopType'
  BY DEF TypeOK, LoopType, MoveBaseline, Bytes, Empty
<1>3. CoreType'
  BY DEF TypeOK, CoreType, MoveBaseline, coreVars, editVars
<1>4. waived' \in [Names -> Nat]
  BY WaivedType DEF TypeOK, HistoryType, MoveBaseline
<1>5. blind' \in [Names -> Nat]
  <2>1. \A name \in Names : Hidden(name) => sample[name] \in Nat
    BY DEF Hidden, TypeOK, LoopType, Bytes
  <2>2. QED
    BY <2>1 DEF TypeOK, HistoryType, MoveBaseline
<1>6. gap' \subseteq Names
  BY DEF TypeOK, HistoryType, MoveBaseline
<1>7. sampleCur' \in BOOLEAN /\ readCur' \in BOOLEAN
  BY DEF TypeOK, HistoryType, MoveBaseline
<1>8. QED
  BY <1>1, <1>2, <1>3, <1>4, <1>5, <1>6, <1>7
     DEF TypeOK, HistoryType, MoveBaseline, editVars

\* Steps of the accounting loop.
LEMMA LoopStepType ==
    ASSUME TypeOK, LoopWork \/ LoopBaselineTorn
    PROVE  TypeOK'
<1>0. Loop \in Procs /\ IsStore(Empty) /\ Bytes(Empty)
  BY DEF Procs, IsStore, Empty, Bytes
<1>1. IsDeltas(Deltas)
  BY DeltasType DEF TypeOK
<1>2. CASE LoopBaseline
  <2>1. Bytes(reading) /\ fileCur' \in BOOLEAN /\ faults' \in Nat
    BY <1>2 DEF LoopBaseline, TypeOK, LoopType, CoreType, HistoryType
  <2>2. MoveBaseline(reading)
    BY <1>2 DEF LoopBaseline
  <2>3. QED
    BY <2>1, <2>2, BaselineType
<1>3. CASE LoopBaselineTorn
  <2>1. fileCur' = FALSE /\ faults' = faults + 1 /\ MoveBaseline(Empty)
    BY <1>3 DEF LoopBaselineTorn
  <2>2. fileCur' \in BOOLEAN
    BY <2>1
  <2>3. faults' \in Nat
    BY <2>1 DEF TypeOK, CoreType
  <2>4. QED
    BY <1>0, <2>1, <2>2, <2>3, BaselineType
<1>4. CASE LoopLock
  <2>1. IsStore(Bill(disk, Deltas, now[Loop]))
    BY <1>0, <1>1, BillType DEF TypeOK, FileType, ProcType
  <2>2. PICK label \in {"apply", "save"} :
            /\ store' = [store EXCEPT ![Loop] = Bill(disk, Deltas, now[Loop])]
            /\ lock' = Loop /\ pc' = [pc EXCEPT ![Loop] = label]
    BY <1>4 DEF LoopLock, Acquire, Goto
  <2>3. UNCHANGED <<disk, now, loopVars, coreVars, runVars, editVars, month,
                    faults, stops>>
    BY <1>4 DEF LoopLock
  <2> USE DEF TypeOK
  <2>4. FileType'
    BY <1>0, <2>1, <2>2, <2>3 DEF FileType
  <2>5. ProcType'
    BY <1>0, <2>2, <2>3 DEF ProcType, PCs, Holding
  <2>6. LoopType' /\ CoreType' /\ HistoryType'
    BY <2>3 DEF LoopType, CoreType, HistoryType, Bytes,
                loopVars, coreVars, runVars, editVars
  <2>7. QED
    BY <2>4, <2>5, <2>6
<1>5. CASE LoopSave
  <2>1. charged' \in [Names -> Nat]
    <3>1. \A name \in Names :
              (IF name \in Billed THEN Deltas[name] ELSE 0) \in Nat
      BY <1>1 DEF Billed, IsDeltas
    <3>2. QED
      BY <1>5, <3>1 DEF LoopSave, TypeOK, HistoryType
  <2>2. FileType' /\ ProcType'
    BY <1>0, <1>5 DEF LoopSave, Release, Goto, TypeOK, FileType, ProcType, PCs
  <2>3. LoopType' /\ CoreType' /\ HistoryType'
    BY <1>5, <2>1 DEF LoopSave, TypeOK, LoopType, CoreType, HistoryType, Bytes,
                      loopVars, coreVars, editVars
  <2>4. QED
    BY <2>2, <2>3 DEF TypeOK
<1>6. CASE LoopPeek
  <2>1. asked' \subseteq Names /\ Bytes(sample') /\ sampled' \in BOOLEAN
        /\ loaded' \in BOOLEAN /\ sampleCur' \in BOOLEAN
    BY <1>6 DEF LoopPeek, Selected, Restored, HasBaseline, RestoredCur,
                TypeOK, LoopType, HistoryType
  <2>2. /\ now' = [now EXCEPT ![Loop] = month] /\ pc' = [pc EXCEPT ![Loop] = "peeked"]
        /\ UNCHANGED <<fileVars, reading, sampleFile, coreVars, charged, waived,
                       blind, repeated, gap, readCur, fileCur, editVars, month,
                       faults, stops>>
    BY <1>6 DEF LoopPeek, Goto
  <2>3. QED
    BY <1>0, <2>1, <2>2 DEF TypeOK, FileType, ProcType, LoopType, CoreType,
            HistoryType, Bytes, PCs, fileVars, coreVars, editVars
<1>7. CASE LoopNothing
  BY <1>0, <1>7 DEF LoopNothing, TypeOK, FileType, ProcType, LoopType, CoreType,
            HistoryType, Bytes, PCs, fileVars, coreVars, editVars
<1>8. CASE LoopRead
  <2>1. Bytes(reading')
    BY <1>8 DEF LoopRead, Bytes, TypeOK, LoopType, CoreType
  <2>2. /\ readCur' = TRUE /\ pc' = [pc EXCEPT ![Loop] = "read"]
        /\ UNCHANGED <<fileVars, now, asked, sample, sampled, loaded, sampleFile,
                       coreVars, charged, waived, blind, repeated, gap, sampleCur,
                       fileCur, editVars, month, faults, stops>>
    BY <1>8 DEF LoopRead, Goto
  <2>3. QED
    BY <1>0, <2>1, <2>2 DEF TypeOK, FileType, ProcType, LoopType, CoreType,
            HistoryType, Bytes, PCs, fileVars, coreVars, editVars
<1>9. CASE LoopReadFails
  BY <1>0, <1>9 DEF LoopReadFails, Goto, TypeOK, FileType, ProcType, LoopType,
            CoreType, HistoryType, Bytes, PCs, fileVars, loopVars, coreVars,
            runVars, editVars
<1>10. QED
  BY <1>2, <1>3, <1>4, <1>5, <1>6, <1>7, <1>8, <1>9 DEF LoopWork

\* Steps that fail.
LEMMA FaultType ==
    ASSUME TypeOK, Fault
    PROVE  TypeOK'
<1>0. IsStore(Empty) /\ Bytes(Empty) /\ Loop \in Procs
  BY DEF IsStore, Empty, Bytes, Procs
<1> USE DEF TypeOK, FileType, ProcType, LoopType, Bytes, CoreType, HistoryType,
            Goto, ReleaseOf, PCs
<1>1. ASSUME NEW p \in Procs, GiveUp(p)
      PROVE  TypeOK'
  BY <1>0, <1>1 DEF GiveUp, loopVars, coreVars, runVars, editVars
<1>2. ASSUME NEW p \in Procs, RestartLeavesDown(p)
      PROVE  TypeOK'
  <2>1. /\ faults' = faults + 1 /\ CoreDown
        /\ lock' = IF lock = p THEN NoOne ELSE lock
        /\ store' = [store EXCEPT ![p] = Empty]
        /\ pc' = [pc EXCEPT ![p] = "idle"]
        /\ UNCHANGED <<disk, now, loopVars, config, editVars, month, stops>>
    BY <1>2 DEF RestartLeavesDown
  <2>2. FileType' /\ ProcType' /\ LoopType'
    BY <1>0, <2>1 DEF loopVars
  <2>3. active' \in BOOLEAN
    BY <2>1 DEF CoreDown
  <2>4. serves' \subseteq Names /\ count' \in [Names -> Nat]
    BY <2>1 DEF CoreDown, Zero
  <2>5. /\ config' \subseteq SUBSET Names
        /\ month' \in Nat /\ edits' \in Nat /\ faults' \in Nat /\ stops' \in Nat
    BY <2>1 DEF editVars
  <2>6. HistoryType'
    BY <2>1 DEF CoreDown, Zero, editVars
  <2>7. QED
    BY <2>2, <2>3, <2>4, <2>5, <2>6
<1>3. CASE LoopDies
  <2>1. repeated' \subseteq Names
    BY <1>3, DeltasType DEF LoopDies, Billed, IsDeltas
  <2>2. FileType' /\ ProcType'
    BY <1>0, <1>3 DEF LoopDies
  <2>3. asked' = {} /\ reading' = Empty /\ sample' = Empty
        /\ sampled' = FALSE /\ loaded' = FALSE /\ sampleFile' = sampleFile
    BY <1>3 DEF LoopDies
  <2>4. LoopType'
    BY <1>0, <2>3
  <2>5. CoreType'
    BY <1>3 DEF LoopDies, coreVars, editVars
  <2>6. readCur' = FALSE /\ sampleCur' = FALSE
        /\ UNCHANGED <<intent, seen, charged, waived, blind, gap, fileCur>>
    BY <1>3 DEF LoopDies, editVars
  <2>7. HistoryType'
    BY <2>1, <2>6
  <2>8. QED
    BY <2>2, <2>4, <2>5, <2>7
<1>4. QED
  BY <1>1, <1>2, <1>3, LoopStepType DEF Fault

\* Every step, and every step of the environment, keeps the types.
LEMMA StepType == TypeOK /\ [Next]_vars => TypeOK'
<1> SUFFICES ASSUME TypeOK, [Next]_vars PROVE TypeOK'
  OBVIOUS
<1>1. CASE Next
  BY <1>1, PanelType, ApplyType, LoopStepType, WorldType, FaultType DEF Next
<1>2. CASE UNCHANGED vars
  BY <1>2 DEF vars, TypeOK, FileType, ProcType, LoopType, Bytes, CoreType,
       HistoryType, fileVars, loopVars, coreVars, runVars, editVars
<1>3. QED
  BY <1>1, <1>2

\* Every reachable state is well typed (TypeOK).
THEOREM TypeCorrect == Spec => []TypeOK
BY InitType, StepType, PTL DEF Spec

-----------------------------------------------------------------------------
(***************************************************************************)
(* The inductive invariant behind the file's promise.  The lock excludes;  *)
(* whoever is about to change the file holds what the file holds, and      *)
(* whoever is about to deploy or save holds a later state of it as far as  *)
(* bookkeeping goes; and the file says what the operator decided.          *)
(***************************************************************************)
Working == {"apply", "restart", "save"}

Exclusive == \A p \in Procs : pc[p] \in Holding <=> lock = p

Copies == \A p \in Procs :
              /\ pc[p] = "change" => store[p] = disk
              /\ pc[p] \in Working => Promise!Keeps(disk, store[p])

Decided == intent = Promise!TermsIn(disk) /\ DOMAIN disk \subseteq seen

Guarded == Exclusive /\ Copies /\ Decided

IInv == TypeOK /\ Guarded

\* Bookkeeping decides nothing.
LEMMA KeepsTerms ==
    ASSUME NEW r, NEW s, Promise!Keeps(r, s)
    PROVE  Promise!TermsIn(s) = Promise!TermsIn(r) /\ DOMAIN s = DOMAIN r
BY DEF Promise!Keeps, Promise!TermsIn

\* A copy is a later state of itself.
LEMMA KeepsItself ==
    ASSUME NEW s, IsStore(s)
    PROVE  Promise!Keeps(s, s)
BY DEF Promise!Keeps, IsStore, Account

\* Refreshing the applied flags is bookkeeping.
LEMMA KeepsMarked ==
    ASSUME NEW r, NEW s, IsStore(s), Promise!Keeps(r, s), NEW m
    PROVE  Promise!Keeps(r, MarkApplied(s, m))
BY MarkAppliedType DEF Promise!Keeps

\* So is billing a cycle.
LEMMA KeepsBilled ==
    ASSUME NEW s, IsStore(s), NEW deltas, IsDeltas(deltas), NEW m \in Nat
    PROVE  Promise!Keeps(s, Bill(s, deltas, m))
<1>1. SUFFICES ASSUME NEW t \in DOMAIN s
               PROVE  LET acc == ResetIfNewMonth(AddUsage(t, s[t], deltas), m)
                      IN  /\ acc.terms = s[t].terms
                          /\ \/ \A n \in Nodes : acc.usage[n] >= s[t].usage[n]
                             \/ acc.usage = NoUsage
  BY DEF Promise!Keeps, Bill, Promise!NoUsage, NoUsage
<1> DEFINE grown == AddUsage(t, s[t], deltas)
<1>2. t \in Tokens /\ s[t] \in Account
  BY DEF IsStore
<1>3. grown \in Account
  BY <1>2, AddUsageType
<1>4. /\ grown.terms = s[t].terms
      /\ \A n \in Nodes : grown.usage[n] >= s[t].usage[n]
  BY <1>2, AddUsageGrows
<1> HIDE DEF grown
<1>5. CASE grown.period = m
  BY <1>4, <1>5 DEF ResetIfNewMonth, grown
<1>6. CASE grown.period # m
  BY <1>3, <1>4, <1>6 DEF ResetIfNewMonth, ResetCounters, Account, grown
<1>7. QED
  BY <1>5, <1>6

-----------------------------------------------------------------------------
\* A step outside the file's protocol.
LEMMA Elsewhere ==
    ASSUME IInv, UNCHANGED <<disk, lock, store, pc, intent, seen>>
    PROVE  Guarded'
BY DEF IInv, Guarded, Exclusive, Copies, Decided, Promise!Keeps, Promise!TermsIn

\* A process that does not hold the lock goes on without it.
LEMMA GoesOn ==
    ASSUME IInv, NEW p \in Procs, NEW label \in PCs \ Holding, pc[p] \notin Holding,
           pc' = [pc EXCEPT ![p] = label],
           store' = store \/ store' = [store EXCEPT ![p] = Empty],
           UNCHANGED <<disk, lock, intent, seen>>
    PROVE  Guarded'
<1>1. \A q \in Procs : pc'[q] \in Holding <=> (q # p /\ pc[q] \in Holding)
  BY DEF IInv, TypeOK, ProcType
<1>2. \A q \in Procs : q # p => store'[q] = store[q] /\ pc'[q] = pc[q]
  BY DEF IInv, TypeOK, FileType, ProcType
<1>3. Exclusive'
  BY <1>1 DEF IInv, Guarded, Exclusive
<1>4. Copies'
  BY <1>1, <1>2 DEF IInv, Guarded, Copies, Holding, Working, Promise!Keeps
<1>5. Decided'
  BY DEF IInv, Guarded, Decided, Promise!TermsIn
<1>6. QED
  BY <1>3, <1>4, <1>5 DEF Guarded

\* A process takes the lock with a sound copy, or goes on with one.
LEMMA Holds ==
    ASSUME IInv, NEW p \in Procs, NEW label \in Holding, NEW s,
           lock = NoOne \/ lock = p, lock' = p,
           pc' = [pc EXCEPT ![p] = label],
           store' = [store EXCEPT ![p] = s],
           label = "change" => s = disk,
           label \in Working => Promise!Keeps(disk, s),
           UNCHANGED <<disk, intent, seen>>
    PROVE  Guarded'
<1>1. \A q \in Procs : pc'[q] \in Holding <=> q = p
  BY ConstantsAssumption DEF IInv, TypeOK, ProcType, Guarded, Exclusive
<1>2. store'[p] = s /\ pc'[p] = label
  BY DEF IInv, TypeOK, FileType, ProcType
<1>3. Exclusive'
  BY <1>1 DEF Exclusive
<1>4. Copies'
  BY <1>1, <1>2 DEF Copies, Holding, Working, Promise!Keeps
<1>5. Decided'
  BY DEF IInv, Guarded, Decided, Promise!TermsIn
<1>6. QED
  BY <1>3, <1>4, <1>5 DEF Guarded

\* The holder releases the lock, having written what was decided or nothing.
LEMMA LetsGo ==
    ASSUME IInv, NEW p \in Procs, NEW label \in PCs \ Holding, lock = p,
           lock' = NoOne, pc' = [pc EXCEPT ![p] = label], Decided'
    PROVE  Guarded'
<1>1. \A q \in Procs : pc'[q] \notin Holding
  BY DEF IInv, TypeOK, ProcType, Guarded, Exclusive
<1>2. Exclusive'
  BY <1>1, ConstantsAssumption DEF Exclusive
<1>3. Copies'
  BY <1>1 DEF Copies, Holding, Working
<1>4. QED
  BY <1>2, <1>3 DEF Guarded

\* A process loses its lock, if it had it, and its copy.
LEMMA Abandons ==
    ASSUME IInv, NEW p \in Procs, ReleaseOf(p), Goto(p, "idle"),
           store' = [store EXCEPT ![p] = Empty],
           UNCHANGED <<disk, intent, seen>>
    PROVE  Guarded'
<1>0. "idle" \in PCs \ Holding
  BY DEF PCs, Holding
<1>1. CASE lock = p
  <2>1. Decided'
    BY DEF IInv, Guarded, Decided, Promise!TermsIn
  <2>2. QED
    BY <1>0, <1>1, <2>1, LetsGo DEF ReleaseOf, Goto
<1>2. CASE lock # p
  <2>1. pc[p] \notin Holding
    BY <1>2 DEF IInv, Guarded, Exclusive
  <2>2. QED
    BY <1>0, <1>2, <2>1, GoesOn DEF ReleaseOf, Goto
<1>3. QED
  BY <1>1, <1>2

\* What a holder saves is what was decided, and bookkeeping.
LEMMA SavesBookkeeping ==
    ASSUME IInv, NEW p \in Procs, pc[p] \in Working, disk' = store[p],
           UNCHANGED <<intent, seen>>
    PROVE  Decided' /\ Promise!Bookkeeping
<1>1. Promise!Keeps(disk, store[p])
  BY DEF IInv, Guarded, Copies
<1>2. Promise!Bookkeeping
  BY <1>1 DEF Promise!Bookkeeping, Promise!Keeps
<1>3. Promise!TermsIn(store[p]) = Promise!TermsIn(disk) /\ DOMAIN store[p] = DOMAIN disk
  BY <1>1, KeepsTerms
<1>4. Decided'
  BY <1>3 DEF IInv, Guarded, Decided, Promise!TermsIn
<1>5. QED
  BY <1>2, <1>4

-----------------------------------------------------------------------------
\* A committed change is a decision about one account of the file.
LEMMA ChangesDecide ==
    ASSUME IInv, NEW p \in Panels, pc[p] = "change",
           \/ AddAccount(p) \/ RemoveAccount(p) \/ EditAccount(p)
           \/ ResetUsage(p) \/ RotateToken(p)
    PROVE  Decided' /\ Promise!Next
<1>0. /\ store[p] = disk /\ IsStore(disk) /\ DOMAIN disk \subseteq Tokens
      /\ intent = Promise!TermsIn(disk) /\ DOMAIN intent = DOMAIN disk
      /\ DOMAIN disk \subseteq seen /\ seen \subseteq Tokens
  BY DEF IInv, Guarded, Copies, Decided, TypeOK, FileType, HistoryType, Procs,
         IsStore, Promise!TermsIn
<1>1. CASE AddAccount(p)
  <2> DEFINE acc == NewAccount(DefaultTerms, now[p])
  <2>1. PICK t \in Tokens \ seen : /\ disk' = Put(disk, t, acc)
                                  /\ intent' = Put(intent, t, DefaultTerms)
                                  /\ seen' = seen \cup {t}
    BY <1>0, <1>1 DEF AddAccount
  <2>2. t \notin DOMAIN disk /\ DOMAIN disk' = DOMAIN disk \cup {t} /\ disk'[t] = acc
    BY <1>0, <2>1 DEF Put
  <2>3. acc.terms = DefaultTerms /\ acc = NewAccount(acc.terms, acc.period)
    BY DEF NewAccount
  <2>4. Promise!Issue(t)
    BY <2>1, <2>2, <2>3 DEF Promise!Issue, Promise!Put, Put, Promise!NewAccount,
                            NewAccount, Promise!NoUsage, NoUsage
  <2>5. intent' = Promise!TermsIn(disk')
    BY <1>0, <2>1, <2>3 DEF Put, Promise!TermsIn
  <2>6. QED
    BY <1>0, <2>1, <2>2, <2>4, <2>5 DEF Decided, Promise!Next
<1>2. CASE RemoveAccount(p)
  <2>1. PICK t \in DOMAIN disk :
            disk' = Drop(disk, t) /\ intent' = Drop(intent, t) /\ seen' = seen
    BY <1>0, <1>2 DEF RemoveAccount
  <2>2. Promise!Withdraw(t)
    BY <2>1 DEF Promise!Withdraw, Promise!Drop, Drop
  <2>3. intent' = Promise!TermsIn(disk') /\ DOMAIN disk' \subseteq DOMAIN disk
    BY <1>0, <2>1 DEF Drop, Promise!TermsIn
  <2>4. QED
    BY <1>0, <2>1, <2>2, <2>3 DEF Decided, Promise!Next
<1>3. CASE EditAccount(p)
  <2>1. PICK t \in DOMAIN disk : \E terms \in EditedTerms(disk[t].terms) :
            /\ disk' = [disk EXCEPT ![t].terms = terms]
            /\ intent' = [intent EXCEPT ![t] = terms]
            /\ seen' = seen
    BY <1>0, <1>3 DEF EditAccount
  <2>2. disk[t] \in Account
    BY <1>0 DEF IsStore
  <2>3. PICK terms : /\ disk' = [disk EXCEPT ![t].terms = terms]
                     /\ intent' = [intent EXCEPT ![t] = terms]
                     /\ seen' = seen
    BY <2>1
  <2>4. DOMAIN disk' = DOMAIN disk /\ disk'[t].terms = terms
    BY <2>2, <2>3 DEF Account
  <2>5. Promise!Amend(t)
    BY <2>3, <2>4 DEF Promise!Amend
  <2>6. intent' = Promise!TermsIn(disk')
    BY <1>0, <2>2, <2>3, <2>4 DEF Promise!TermsIn
  <2>7. QED
    BY <1>0, <2>3, <2>4, <2>5, <2>6 DEF Decided, Promise!Next
<1>4. CASE ResetUsage(p)
  <2>1. PICK t \in DOMAIN disk :
            /\ disk' = [disk EXCEPT ![t] = ResetCounters(@, now[p])]
            /\ intent' = intent /\ seen' = seen
    BY <1>0, <1>4 DEF ResetUsage
  <2>2. disk[t] \in Account
    BY <1>0 DEF IsStore
  <2>3. /\ DOMAIN disk' = DOMAIN disk /\ disk'[t] = ResetCounters(disk[t], now[p])
        /\ disk'[t].period = now[p] /\ disk'[t].terms = disk[t].terms
    BY <2>1, <2>2 DEF ResetCounters, Account
  <2>4. Promise!Forgive(t)
    BY <2>1, <2>3 DEF Promise!Forgive, Promise!ResetCounters, ResetCounters,
                      Promise!NoUsage, NoUsage
  <2>5. intent' = Promise!TermsIn(disk')
    BY <1>0, <2>1, <2>3 DEF Promise!TermsIn
  <2>6. QED
    BY <1>0, <2>1, <2>3, <2>4, <2>5 DEF Decided, Promise!Next
<1>5. CASE RotateToken(p)
  <2>1. PICK t \in DOMAIN disk, fresh \in Tokens \ seen :
            /\ disk' = Put(Drop(disk, t), fresh, disk[t])
            /\ intent' = Put(Drop(intent, t), fresh, intent[t])
            /\ seen' = seen \cup {fresh}
    BY <1>0, <1>5 DEF RotateToken
  <2>2. fresh \notin DOMAIN disk
    BY <1>0
  <2>3. Promise!Reissue(t, fresh)
    BY <2>1, <2>2 DEF Promise!Reissue, Promise!Put, Put, Promise!Drop, Drop
  <2>4. intent' = Promise!TermsIn(disk') /\ DOMAIN disk' \subseteq seen'
    BY <1>0, <2>1 DEF Put, Drop, Promise!TermsIn
  <2>5. QED
    BY <1>0, <2>1, <2>3, <2>4 DEF Decided, Promise!Next
<1>6. QED
  BY <1>1, <1>2, <1>3, <1>4, <1>5

\* The initial state satisfies the invariant and what Ledger starts from.
LEMMA InitInv == Init => IInv /\ Promise!Init
<1> SUFFICES ASSUME Init PROVE IInv /\ Promise!Init
  OBVIOUS
<1>1. TypeOK
  BY InitType
<1> DEFINE fresh == [t \in Provisioned |-> NewAccount(DefaultTerms, 1)]
<1>2. /\ disk = MarkApplied(fresh, 1)
      /\ intent = [t \in Provisioned |-> fresh[t].terms]
      /\ seen = Provisioned /\ lock = NoOne /\ pc = [p \in Procs |-> "idle"]
  BY DEF Init, DefaultTerms
<1>3. IsStore(fresh)
  BY DefaultTermsType, NewAccountType, ConstantsAssumption DEF IsStore
<1>4. Decided
  BY <1>2, <1>3, MarkAppliedType DEF Decided, Promise!TermsIn
<1>5. Exclusive /\ Copies
  BY <1>2, ConstantsAssumption DEF Exclusive, Copies, Holding, Working
<1>6. Promise!Init
  BY <1>1, <1>4 DEF Promise!Init, Decided, TypeOK, FileType, IsStore, Promise!IsStore,
       Account, Promise!Account, Terms, Promise!Terms
<1>7. QED
  BY <1>1, <1>4, <1>5, <1>6 DEF IInv, Guarded

\* A step of a panel guards the invariant and is a step of Ledger or none.
LEMMA PanelGuarded ==
    ASSUME IInv, NEW p \in Panels, PanelStart(p) \/ PanelWork(p)
    PROVE  Guarded' /\ (Promise!Next \/ UNCHANGED <<disk, intent>>)
<1>0. p \in Procs /\ IsStore(disk)
  BY DEF Procs, IInv, TypeOK, FileType
<1> USE DEF Holding, Working, PCs
<1>1. CASE PanelStart(p)
  BY <1>0, <1>1, GoesOn DEF PanelStart, Goto, fileVars
<1>2. CASE PanelLock(p)
  BY <1>0, <1>2, Holds DEF PanelLock, Acquire, Goto, editVars
<1>3. CASE PanelCommit(p)
  <2>1. lock = p /\ lock' = NoOne /\ pc' = [pc EXCEPT ![p] = "edited"]
    BY <1>0, <1>3 DEF PanelCommit, Release, Goto, IInv, Guarded, Exclusive
  <2>2. Decided' /\ Promise!Next
    BY <1>3, ChangesDecide DEF PanelCommit
  <2>3. QED
    BY <1>0, <2>1, <2>2, LetsGo
<1>4. CASE PanelRefused(p)
  BY <1>0, <1>4, Abandons DEF PanelRefused, Release, ReleaseOf, IInv, Guarded,
                              Exclusive, editVars
<1>5. CASE PanelDeploy(p)
  BY <1>0, <1>5, Holds, KeepsItself DEF PanelDeploy, Acquire, Goto, editVars
<1>6. CASE PanelSave(p)
  <2>1. lock = p /\ lock' = NoOne /\ pc' = [pc EXCEPT ![p] = "idle"]
        /\ disk' = store[p] /\ intent' = intent /\ seen' = seen
    BY <1>0, <1>6 DEF PanelSave, Release, Goto, editVars, IInv, Guarded, Exclusive
  <2>2. Decided' /\ Promise!Bookkeeping
    BY <1>0, <1>6, <2>1, SavesBookkeeping DEF PanelSave
  <2>3. QED
    BY <1>0, <2>1, <2>2, LetsGo DEF Promise!Next
<1>7. QED
  BY <1>1, <1>2, <1>3, <1>4, <1>5, <1>6 DEF PanelWork

\* So is a step of deploy.Apply.
LEMMA ApplyGuarded ==
    ASSUME IInv, NEW p \in Procs, Apply(p)
    PROVE  Guarded' /\ UNCHANGED <<disk, intent>>
<1> USE DEF Holding, Working
<1>0. /\ pc[p] \in Working /\ lock = p
      /\ Promise!Keeps(disk, store[p])
  BY DEF Apply, ApplySame, ApplyInstall, ApplyRestart, IInv, Guarded, Exclusive, Copies
<1>1. Promise!Keeps(disk, MarkApplied(store[p], now[p]))
  BY <1>0, KeepsMarked DEF IInv, TypeOK, FileType
<1>2. CASE ApplySame(p)
  BY <1>0, <1>1, <1>2, Holds DEF ApplySame, Goto, editVars
<1>3. CASE ApplyInstall(p)
  <2>1. store' = [store EXCEPT ![p] = store[p]]
    BY <1>3 DEF ApplyInstall, fileVars, IInv, TypeOK, FileType
  <2>2. QED
    BY <1>0, <1>3, <2>1, Holds DEF ApplyInstall, Goto, fileVars, editVars
<1>4. CASE ApplyRestart(p)
  BY <1>0, <1>1, <1>4, Holds DEF ApplyRestart, Goto, editVars
<1>5. QED
  BY <1>2, <1>3, <1>4 DEF Apply

\* So is a step of the accounting loop.
LEMMA LoopGuarded ==
    ASSUME IInv, LoopWork \/ LoopBaselineTorn
    PROVE  Guarded' /\ (Promise!Next \/ UNCHANGED <<disk, intent>>)
<1>0. Loop \in Procs /\ IsStore(disk) /\ now[Loop] \in Nat
  BY DEF Procs, IInv, TypeOK, FileType, ProcType
<1> USE DEF Holding, Working, PCs
<1>1. CASE LoopPeek
  BY <1>0, <1>1, GoesOn DEF LoopPeek, Goto, fileVars, editVars
<1>2. CASE LoopNothing
  BY <1>2, Elsewhere DEF LoopNothing, fileVars, editVars
<1>3. CASE LoopRead
  BY <1>0, <1>3, GoesOn DEF LoopRead, Goto, fileVars, editVars
<1>4. CASE LoopReadFails
  BY <1>0, <1>4, GoesOn DEF LoopReadFails, Goto, fileVars, editVars
<1>5. CASE LoopLock
  <2>1. Promise!Keeps(disk, Bill(disk, Deltas, now[Loop]))
    BY <1>0, DeltasType, KeepsBilled DEF IInv, TypeOK
  <2>2. PICK label \in {"apply", "save"} :
            /\ lock = NoOne /\ lock' = Loop /\ pc' = [pc EXCEPT ![Loop] = label]
            /\ store' = [store EXCEPT ![Loop] = Bill(disk, Deltas, now[Loop])]
            /\ UNCHANGED <<disk, intent, seen>>
    BY <1>5 DEF LoopLock, Acquire, Goto, editVars
  <2>3. QED
    BY <1>0, <2>1, <2>2, Holds
<1>6. CASE LoopSave
  <2>1. lock = Loop /\ lock' = NoOne /\ pc' = [pc EXCEPT ![Loop] = "baseline"]
        /\ disk' = store[Loop] /\ intent' = intent /\ seen' = seen
    BY <1>0, <1>6 DEF LoopSave, Release, Goto, editVars, IInv, Guarded, Exclusive
  <2>2. Decided' /\ Promise!Bookkeeping
    BY <1>0, <1>6, <2>1, SavesBookkeeping DEF LoopSave
  <2>3. QED
    BY <1>0, <2>1, <2>2, LetsGo DEF Promise!Next
<1>7. CASE LoopBaseline \/ LoopBaselineTorn
  BY <1>0, <1>7, GoesOn DEF LoopBaseline, LoopBaselineTorn, MoveBaseline, Goto, editVars
<1>8. QED
  BY <1>1, <1>2, <1>3, <1>4, <1>5, <1>6, <1>7 DEF LoopWork

\* So is any step, and a failing one is none of Ledger's.
LEMMA StepGuarded ==
    IInv /\ [Next]_vars => Guarded' /\ [Promise!Next]_<<disk, intent>>
<1> SUFFICES ASSUME IInv, [Next]_vars
             PROVE  Guarded' /\ (Promise!Next \/ UNCHANGED <<disk, intent>>)
  OBVIOUS
<1>1. CASE UNCHANGED vars
  BY <1>1, Elsewhere DEF vars, fileVars, editVars
<1>2. CASE Traffic \/ CoreStop \/ CoreStart \/ NewMonth
  BY <1>2, Elsewhere DEF Traffic, CoreStop, CoreStart, NewMonth, fileVars, editVars
<1>3. CASE Fault
  <2>1. ASSUME NEW p \in Procs, GiveUp(p) \/ RestartLeavesDown(p)
        PROVE  Guarded' /\ UNCHANGED <<disk, intent>>
    BY <2>1, Abandons DEF GiveUp, RestartLeavesDown, editVars
  <2>2. CASE LoopDies
    BY <2>2, Abandons DEF LoopDies, editVars, Procs
  <2>3. QED
    BY <1>3, <2>1, <2>2, LoopGuarded DEF Fault
<1>4. QED
  BY <1>1, <1>2, <1>3, PanelGuarded, ApplyGuarded, LoopGuarded DEF Next

\* IInv is an invariant of every behaviour.
THEOREM GuardedAlways == Spec => []IInv
<1>1. IInv /\ [Next]_vars => IInv'
  BY StepType, StepGuarded DEF IInv
<1>2. QED
  BY InitInv, <1>1, PTL DEF Spec

\* Whoever deploys or saves works on the terms that are in the file
\* (AppliesCurrentTerms): deploy.ApplyStore and stats.Loop.Tick hold the lock
\* from their load to their save.
THEOREM CurrentTerms == Spec => []AppliesCurrentTerms
<1>1. IInv => AppliesCurrentTerms
  <2> SUFFICES ASSUME IInv, NEW p \in Procs, pc[p] \in {"apply", "restart", "save"}
               PROVE  intent = [t \in DOMAIN store[p] |-> store[p][t].terms]
    BY DEF AppliesCurrentTerms
  <2>1. Promise!Keeps(disk, store[p])
    BY DEF IInv, Guarded, Copies, Working
  <2>2. QED
    BY <2>1, KeepsTerms DEF IInv, Guarded, Decided, Promise!TermsIn
<1>2. QED
  BY <1>1, GuardedAlways, PTL

\* The account file implements Ledger (LedgerPromise): no writer undoes a
\* change of the operator, whatever copy of the file it worked on.
THEOREM FileImplementsLedger == Spec => LedgerPromise
<1>1. Init => Promise!Init
  BY InitInv
<1>2. IInv /\ [Next]_vars => [Promise!Next]_(Promise!vars)
  BY StepGuarded DEF Promise!vars
<1>3. QED
  BY <1>1, <1>2, GuardedAlways, PTL DEF Spec, LedgerPromise, Promise!Spec

-----------------------------------------------------------------------------
(***************************************************************************)
(* What a baseline covers.  Between the save of a cycle and the move of    *)
(* its baseline the deltas are charged and the baseline does not know it   *)
(* yet: Pending.                                                           *)
(***************************************************************************)
InCycle == pc[Loop] \in Working \cup {"read", "baseline"}

Pending == IF pc[Loop] = "baseline" /\ readCur THEN Billed ELSE {}

Total(name) == charged[name] + waived[name] + blind[name]

\* What this cycle charged covers what its baseline will hold.
ChargesCover ==
    \A name \in Pending :
        /\ Deltas[name] <= charged[name]
        /\ (sampleCur /\ name \in DOMAIN sample /\ reading[name] >= sample[name])
               => reading[name] <= Total(name)

CoverInv == BaselineCovered /\ ChargesCover

\* What diffCounters returns, case by case: the gain of a name of the baseline,
\* the whole reading of any other, and no entry for a gain of zero.
LEMMA DeltasAre ==
    ASSUME LoopType, NEW name \in DOMAIN reading
    PROVE  /\ reading[name] \in Nat
           /\ name \in DOMAIN sample => sample[name] \in Nat
           /\ name \in DOMAIN Deltas => sampled
           /\ name \in DOMAIN Deltas =>
                 Deltas[name] = IF name \in DOMAIN sample
                                   /\ reading[name] >= sample[name]
                                THEN reading[name] - sample[name]
                                ELSE reading[name]
           /\ sampled /\ name \notin DOMAIN Deltas =>
                 \/ reading[name] = 0
                 \/ name \in DOMAIN sample /\ reading[name] = sample[name]
<1> DEFINE gain(m) == IF m \in DOMAIN sample /\ reading[m] >= sample[m]
                      THEN reading[m] - sample[m] ELSE reading[m]
           moved == {m \in DOMAIN reading : sampled /\ gain(m) # 0}
<1>1. Deltas = [m \in moved |-> gain(m)]
  BY DEF Deltas, Diff
<1>2. reading[name] \in Nat /\ (name \in DOMAIN sample => sample[name] \in Nat)
  BY DEF LoopType, Bytes
<1>3. /\ name \in DOMAIN Deltas <=> sampled /\ gain(name) # 0
      /\ name \in DOMAIN Deltas => Deltas[name] = gain(name)
  <2> HIDE DEF gain
  <2>1. QED
    BY <1>1
<1>4. QED
  BY <1>2, <1>3

\* Only names that were read have a delta.
LEMMA DeltasWereRead == DOMAIN Deltas \subseteq DOMAIN reading
BY DEF Deltas, Diff

\* A step that moves no baseline and charges nothing.
LEMMA CoverStays ==
    ASSUME CoverInv,
           UNCHANGED <<sampleCur, sample, fileCur, sampleFile, charged, waived,
                       blind>>,
           \/ Pending' = {}
           \/ Pending' = Pending /\ UNCHANGED <<reading, sampled>>
    PROVE  CoverInv'
<1>1. \A name : Total(name)' = Total(name)
  BY DEF Total
<1>2. BaselineCovered'
  BY DEF CoverInv, BaselineCovered
<1>3. ChargesCover'
  <2>1. CASE Pending' = {}
    BY <2>1 DEF ChargesCover
  <2>2. CASE Pending' = Pending /\ UNCHANGED <<reading, sampled>>
    <3>1. Deltas' = Deltas
      BY <2>2 DEF Deltas
    <3>2. QED
      BY <1>1, <2>2, <3>1 DEF CoverInv, ChargesCover
  <2>3. QED
    BY <2>1, <2>2
<1>4. QED
  BY <1>2, <1>3 DEF CoverInv

\* The counters start over: no baseline is of this core run.
LEMMA CoverStartsOver ==
    ASSUME ~sampleCur', ~fileCur', ~readCur'
    PROVE  CoverInv'
BY DEF CoverInv, BaselineCovered, ChargesCover, Pending

\* The loop's pending charges are its own business.
LEMMA PendingStays ==
    ASSUME UNCHANGED <<pc[Loop], store[Loop], reading, sample, sampled, readCur>>
    PROVE  Pending' = Pending
<1>1. Deltas' = Deltas
  BY DEF Deltas
<1>2. Billed' = Billed
  BY <1>1 DEF Billed
<1>3. QED
  BY <1>2 DEF Pending

\* A cycle saves what it charges.
LEMMA CoverSaves == TypeOK /\ CoverInv /\ LoopSave => CoverInv'
<1> SUFFICES ASSUME TypeOK, CoverInv, LoopSave PROVE CoverInv'
  OBVIOUS
<1> DEFINE due(name) == IF name \in Billed THEN Deltas[name] ELSE 0
<1>1. /\ pc[Loop] = "save" /\ pc'[Loop] = "baseline"
      /\ charged' = IF ~readCur THEN charged
                    ELSE [name \in Names |-> charged[name] + due(name)]
      /\ UNCHANGED <<store, reading, sample, sampled, sampleFile, waived, blind,
                     readCur, sampleCur, fileCur>>
  BY DEF LoopSave, Goto, loopVars, Procs, TypeOK, ProcType
<1>2. Deltas' = Deltas /\ Billed' = Billed
  BY <1>1 DEF Deltas, Billed
<1>3. /\ IsDeltas(Deltas) /\ Billed \subseteq DOMAIN Deltas
      /\ DOMAIN sample \subseteq Names /\ DOMAIN sampleFile \subseteq Names
  BY DeltasType DEF TypeOK, LoopType, Bytes, Billed
<1>4. \A name \in Names : due(name) \in Nat
  BY <1>3 DEF IsDeltas
<1>5. \A name \in Names : charged[name] \in Nat /\ waived[name] \in Nat
                          /\ blind[name] \in Nat
  BY DEF TypeOK, HistoryType
<1>6. /\ sampleCur => \A name \in DOMAIN sample : sample[name] <= Total(name)
      /\ fileCur => \A name \in DOMAIN sampleFile : sampleFile[name] <= Total(name)
  BY DEF CoverInv, BaselineCovered, Total
<1>7. Pending' = IF readCur THEN Billed ELSE {}
  BY <1>1, <1>2 DEF Pending
<1> HIDE DEF due
<1>8. \A name \in Names : Total(name)' = IF readCur THEN Total(name) + due(name)
                                                    ELSE Total(name)
  BY <1>1, <1>4, <1>5 DEF Total
<1>9. \A name \in Names : Total(name) \in Nat
  BY <1>5 DEF Total
<1>10. \A name \in Names : Total(name) <= Total(name)'
  BY <1>4, <1>8, <1>9
<1>11. BaselineCovered'
  <2>1. sampleCur' => \A name \in DOMAIN sample' : sample'[name] <= Total(name)'
    <3>1. \A name \in DOMAIN sample : sample[name] \in Nat
      BY DEF TypeOK, LoopType, Bytes
    <3>2. QED
      BY <1>1, <1>3, <1>4, <1>6, <1>8, <1>9, <3>1
  <2>2. fileCur' => \A name \in DOMAIN sampleFile' : sampleFile'[name] <= Total(name)'
    <3>1. \A name \in DOMAIN sampleFile : sampleFile[name] \in Nat
      BY DEF TypeOK, LoopType, Bytes
    <3>2. QED
      BY <1>1, <1>3, <1>4, <1>6, <1>8, <1>9, <3>1
  <2>3. QED
    BY <2>1, <2>2 DEF BaselineCovered, Total
<1>12. ChargesCover'
  <2> SUFFICES ASSUME readCur, NEW name \in Billed
               PROVE  /\ Deltas[name] <= charged'[name]
                      /\ (sampleCur /\ name \in DOMAIN sample
                             /\ reading[name] >= sample[name])
                            => reading[name] <= Total(name)'
    BY <1>1, <1>2, <1>7 DEF ChargesCover
  <2>1. name \in Names /\ name \in DOMAIN reading /\ name \in DOMAIN Deltas
    BY <1>3, DeltasWereRead DEF IsDeltas
  <2>2. due(name) = Deltas[name] /\ charged'[name] = charged[name] + due(name)
    BY <1>1, <2>1 DEF due
  <2>3. Deltas[name] <= charged'[name]
    BY <1>4, <1>5, <2>1, <2>2
  <2>4. ASSUME sampleCur, name \in DOMAIN sample, reading[name] >= sample[name]
        PROVE  reading[name] <= Total(name)'
    <3>1. /\ Deltas[name] = reading[name] - sample[name]
          /\ reading[name] \in Nat /\ sample[name] \in Nat
      BY <2>1, <2>4, DeltasAre DEF TypeOK
    <3>2. sample[name] <= Total(name)
      BY <1>6, <2>4
    <3>3. QED
      BY <1>8, <1>9, <2>1, <2>2, <3>1, <3>2
  <2>5. QED
    BY <2>3, <2>4
<1>13. QED
  BY <1>11, <1>12 DEF CoverInv

\* A cycle moves its baseline over what it charged and what it waived.
LEMMA CoverMoves ==
    ASSUME TypeOK, CoverInv, NEW file, MoveBaseline(file), pc[Loop] = "baseline",
           (file = reading /\ fileCur' = readCur) \/ fileCur' = FALSE
    PROVE  CoverInv'
<1>1. /\ sample' = reading /\ sampleFile' = file /\ charged' = charged
      /\ sampleCur' = readCur /\ readCur' = FALSE
  BY DEF MoveBaseline
<1>2. ChargesCover'
  BY <1>1 DEF ChargesCover, Pending
<1>3. ASSUME readCur, NEW name \in DOMAIN reading
      PROVE  reading[name] <= Total(name)'
  <2>1. /\ waived' = [n \in Names |-> Waived(n)]
        /\ blind' = [n \in Names |-> IF Hidden(n)
                         THEN blind[n] + sample[n] ELSE blind[n]]
    BY <1>3 DEF MoveBaseline
  <2>2. name \in Names
    BY DEF TypeOK, LoopType, Bytes
  <2>3. /\ charged[name] \in Nat /\ waived[name] \in Nat /\ blind[name] \in Nat
        /\ reading[name] \in Nat
        /\ name \in DOMAIN sample => sample[name] \in Nat
    BY <2>2 DEF TypeOK, HistoryType, LoopType, Bytes
  <2>4. /\ waived'[name] = Waived(name)
        /\ blind'[name] = IF Hidden(name) THEN blind[name] + sample[name]
                          ELSE blind[name]
    BY <2>1, <2>2, Zenon
  <2>5. Hidden(name) <=> sampled /\ ~sampleCur /\ name \in DOMAIN sample
                            /\ reading[name] >= sample[name]
    BY DEF Hidden
  <2>6. blind'[name] >= blind[name] /\ blind'[name] \in Nat
    BY <2>3, <2>4, <2>5
  <2>7. Waived(name) \in Nat
    BY <2>2, WaivedType
  <2>8. Total(name)' = charged[name] + Waived(name) + blind'[name]
    BY <1>1, <2>4 DEF Total
  <2>9. CASE ~sampled
    BY <2>3, <2>6, <2>8, <2>9 DEF Waived
  <2>10. CASE sampled
    <3>1. CASE name \in DOMAIN Deltas
      <4>1. Deltas[name] = IF name \in DOMAIN sample
                              /\ reading[name] >= sample[name]
                           THEN reading[name] - sample[name]
                           ELSE reading[name]
        BY <1>3, <3>1, DeltasAre DEF TypeOK
      <4>2. CASE name \in Billed
        <5>1. /\ Waived(name) = waived[name]
              /\ Deltas[name] <= charged[name]
              /\ (sampleCur /\ name \in DOMAIN sample
                    /\ reading[name] >= sample[name]) => reading[name] <= Total(name)
          BY <1>3, <2>10, <4>2 DEF Waived, CoverInv, ChargesCover, Pending
        <5>2. CASE sampleCur /\ name \in DOMAIN sample
                     /\ reading[name] >= sample[name]
          BY <2>3, <2>6, <2>8, <5>1, <5>2 DEF Total
        <5>3. CASE ~(sampleCur /\ name \in DOMAIN sample
                       /\ reading[name] >= sample[name])
          BY <2>3, <2>4, <2>5, <2>6, <2>8, <2>10, <4>1, <5>1, <5>3
        <5>4. QED
          BY <5>2, <5>3
      <4>3. CASE name \notin Billed
        <5>1. Waived(name) = waived[name] + Deltas[name]
          BY <1>3, <2>10, <3>1, <4>3 DEF Waived
        <5>2. sampleCur /\ name \in DOMAIN sample => sample[name] <= Total(name)
          BY DEF CoverInv, BaselineCovered, Total
        <5>3. QED
          BY <2>3, <2>4, <2>5, <2>6, <2>8, <2>10, <4>1, <5>1, <5>2 DEF Total
      <4>4. QED
        BY <4>2, <4>3
    <3>2. CASE name \notin DOMAIN Deltas
      <4>1. \/ reading[name] = 0
            \/ name \in DOMAIN sample /\ reading[name] = sample[name]
        BY <1>3, <2>10, <3>2, DeltasAre DEF TypeOK
      <4>2. Waived(name) = waived[name]
        BY <2>10, <3>2 DEF Waived
      <4>3. sampleCur /\ name \in DOMAIN sample => sample[name] <= Total(name)
        BY DEF CoverInv, BaselineCovered, Total
      <4>4. QED
        BY <2>3, <2>4, <2>5, <2>6, <2>8, <2>10, <4>1, <4>2, <4>3 DEF Total
    <3>3. QED
      BY <3>1, <3>2
  <2>11. QED
    BY <2>9, <2>10
<1>4. BaselineCovered'
  BY <1>1, <1>3 DEF BaselineCovered, Total
<1>5. QED
  BY <1>2, <1>4 DEF CoverInv

\* Every step keeps the baseline covered.
LEMMA CoverStep == TypeOK /\ CoverInv /\ [Next]_vars => CoverInv'
<1> SUFFICES ASSUME TypeOK, CoverInv, [Next]_vars PROVE CoverInv'
  OBVIOUS
<1>0. /\ Loop \in Procs /\ Loop \notin Panels
      /\ \A p \in Procs : \A label : Goto(p, label) => pc'[p] = label
      /\ \A p \in Procs \ {Loop} : \A label : Goto(p, label) => pc'[Loop] = pc[Loop]
  BY ConstantsAssumption DEF Procs, Goto, TypeOK, ProcType
<1>1. CASE UNCHANGED vars
  BY <1>1, CoverStays, PendingStays DEF vars, fileVars, loopVars, runVars
<1>2. CASE Traffic \/ NewMonth
  BY <1>2, CoverStays, PendingStays DEF Traffic, NewMonth, fileVars, loopVars, runVars
<1>3. CASE CoreStop \/ CoreStart
  BY <1>3, CoverStartsOver DEF CoreStop, CoreStart, CoreDown, CoreFresh
<1>4. ASSUME NEW p \in Panels, PanelStart(p) \/ PanelWork(p)
      PROVE  CoverInv'
  <2>1. p \in Procs \ {Loop}
    BY <1>0 DEF Procs
  <2>2. /\ pc'[Loop] = pc[Loop] /\ store'[Loop] = store[Loop]
        /\ UNCHANGED <<loopVars, runVars>>
    BY <1>0, <1>4, <2>1 DEF PanelStart, PanelWork, PanelLock, PanelCommit,
       PanelRefused, PanelDeploy, PanelSave, fileVars, TypeOK, FileType
  <2>3. QED
    BY <2>2, CoverStays, PendingStays DEF loopVars, runVars
<1>5. ASSUME NEW p \in Procs, Apply(p)
      PROVE  CoverInv'
  <2>1. CASE ApplyRestart(p)
    BY <2>1, CoverStartsOver DEF ApplyRestart, CoreFresh
  <2>2. CASE ApplySame(p) \/ ApplyInstall(p)
    <3>1. /\ UNCHANGED <<loopVars, runVars>>
          /\ \/ Goto(p, "save") \/ Goto(p, "restart")
          /\ p # Loop => store'[Loop] = store[Loop]
      BY <1>0, <2>2 DEF ApplySame, ApplyInstall, fileVars, TypeOK, FileType
    <3>2. CASE p = Loop
      <4>1. Pending' = {}
        BY <1>0, <3>1, <3>2 DEF Pending
      <4>2. QED
        BY <3>1, <4>1, CoverStays DEF loopVars, runVars
    <3>3. CASE p # Loop
      <4>1. pc'[Loop] = pc[Loop]
        BY <1>0, <3>1, <3>3
      <4>2. QED
        BY <3>1, <3>3, <4>1, CoverStays, PendingStays DEF loopVars, runVars
    <3>4. QED
      BY <3>2, <3>3
  <2>3. QED
    BY <1>5, <2>1, <2>2 DEF Apply
<1>6. CASE LoopPeek
  <2>1. Pending' = {}
    BY <1>0, <1>6 DEF LoopPeek, Pending
  <2>2. /\ sample' = Restored /\ sampleCur' = RestoredCur
        /\ UNCHANGED <<sampleFile, fileCur, charged, waived, blind>>
    BY <1>6 DEF LoopPeek
  <2>3. BaselineCovered'
    BY <2>2 DEF CoverInv, BaselineCovered, Restored, RestoredCur
  <2>4. QED
    BY <2>1, <2>3 DEF CoverInv, ChargesCover
<1>7. CASE LoopNothing
  <2>1. Pending' = {}
    BY <1>7 DEF LoopNothing, Pending
  <2>2. QED
    BY <1>7, <2>1 DEF LoopNothing, CoverInv, BaselineCovered, ChargesCover
<1>8. CASE LoopRead \/ LoopReadFails \/ LoopLock
  <2>1. Pending' = {}
    BY <1>0, <1>8 DEF LoopRead, LoopReadFails, LoopLock, Pending
  <2>2. QED
    BY <1>8, <2>1, CoverStays DEF LoopRead, LoopReadFails, LoopLock, loopVars, runVars
<1>9. CASE LoopSave
  BY <1>9, CoverSaves
<1>10. CASE LoopBaseline \/ LoopBaselineTorn
  BY <1>10, CoverMoves DEF LoopBaseline, LoopBaselineTorn
<1>11. ASSUME NEW p \in Procs, GiveUp(p)
       PROVE  CoverInv'
  <2>1. /\ UNCHANGED <<loopVars, runVars>> /\ Goto(p, "idle")
        /\ p # Loop => store'[Loop] = store[Loop]
    BY <1>0, <1>11 DEF GiveUp, TypeOK, FileType
  <2>2. CASE p = Loop
    <3>1. Pending' = {}
      BY <1>0, <2>1, <2>2 DEF Pending
    <3>2. QED
      BY <2>1, <3>1, CoverStays DEF loopVars, runVars
  <2>3. CASE p # Loop
    <3>1. pc'[Loop] = pc[Loop]
      BY <1>0, <2>1, <2>3
    <3>2. QED
      BY <2>1, <2>3, <3>1, CoverStays, PendingStays DEF loopVars, runVars
  <2>4. QED
    BY <2>2, <2>3
<1>12. ASSUME NEW p \in Procs, RestartLeavesDown(p)
       PROVE  CoverInv'
  BY <1>12, CoverStartsOver DEF RestartLeavesDown, CoreDown
<1>13. CASE LoopDies
  <2>1. Pending' = {}
    BY <1>13 DEF LoopDies, Pending
  <2>2. QED
    BY <1>13, <2>1 DEF LoopDies, CoverInv, BaselineCovered, ChargesCover
<1>14. QED
  BY <1>1, <1>2, <1>3, <1>4, <1>5, <1>6, <1>7, <1>8, <1>9, <1>10, <1>11, <1>12,
     <1>13 DEF Next, LoopWork, Fault

\* A baseline never runs ahead of the account file (BaselineCovered): every byte
\* it hides is charged or accounted for, wherever the service dies.
THEOREM BaselineAlwaysCovered == Spec => []BaselineCovered
<1>1. Init => CoverInv
  BY DEF Init, CoverInv, BaselineCovered, ChargesCover, Pending
<1>2. CoverInv => BaselineCovered
  BY DEF CoverInv
<1>3. QED
  BY <1>1, <1>2, CoverStep, TypeCorrect, PTL DEF Spec

-----------------------------------------------------------------------------
\* No baseline of this core run and no reading of it is ahead of the counters,
\* and a reading is not behind the baseline it is compared with.
ReadingsFit ==
    /\ sampleCur => \A name \in DOMAIN sample : sample[name] <= count[name]
    /\ fileCur => \A name \in DOMAIN sampleFile : sampleFile[name] <= count[name]
    /\ InCycle /\ readCur => \A name \in DOMAIN reading :
          /\ reading[name] <= count[name]
          /\ sampleCur /\ name \in DOMAIN sample => sample[name] <= reading[name]

Plain == Names \ (repeated \cup gap)

\* What was charged for a name in this core run is below a baseline of the run,
\* and nothing was charged while the baseline is an earlier run's.
Below(name, cur, base) ==
    IF cur /\ name \in DOMAIN base THEN charged[name] <= base[name]
                                   ELSE charged[name] = 0

ChargesFit ==
    /\ \A name \in Plain \ Pending :
          /\ sampleCur \/ sampled => Below(name, sampleCur, sample)
          /\ fileCur \/ DOMAIN sampleFile # {} => Below(name, fileCur, sampleFile)
    /\ InCycle /\ readCur => \A name \in Plain \cap DOMAIN reading :
          charged[name] <= reading[name]
    /\ InCycle /\ ~readCur => charged = Zero

OnceInv == ChargedAtMostOnce /\ ReadingsFit /\ ChargesFit

\* A step of another process, and a byte that moves, keep what is known about
\* the readings and the charges.
LEMMA OnceStays ==
    ASSUME TypeOK, OnceInv,
           UNCHANGED <<reading, sample, sampled, sampleFile, charged, repeated,
                       gap, sampleCur, fileCur>>,
           \A name \in Names : count'[name] \in Nat /\ count[name] <= count'[name],
           InCycle' => InCycle /\ readCur' = readCur,
           Pending' = Pending
    PROVE  OnceInv'
<1>1. /\ DOMAIN sample \subseteq Names /\ DOMAIN sampleFile \subseteq Names
      /\ DOMAIN reading \subseteq Names
      /\ \A name \in DOMAIN sample : sample[name] \in Nat
      /\ \A name \in DOMAIN sampleFile : sampleFile[name] \in Nat
      /\ \A name \in DOMAIN reading : reading[name] \in Nat
      /\ \A name \in Names : count[name] \in Nat /\ charged[name] \in Nat
  BY DEF TypeOK, LoopType, Bytes, CoreType, HistoryType
<1>2. Plain' = Plain
  BY DEF Plain
<1>3. ChargedAtMostOnce'
  <2>1. \A name \in Names \ (repeated \cup gap) : charged[name] <= count[name]
    BY DEF OnceInv, ChargedAtMostOnce
  <2>2. QED
    BY <1>1, <2>1 DEF ChargedAtMostOnce
<1>4. ReadingsFit'
  <2>1. sampleCur' => \A name \in DOMAIN sample' : sample'[name] <= count'[name]
    BY <1>1 DEF OnceInv, ReadingsFit
  <2>2. fileCur' => \A name \in DOMAIN sampleFile' : sampleFile'[name] <= count'[name]
    BY <1>1 DEF OnceInv, ReadingsFit
  <2>3. ASSUME InCycle', readCur', NEW name \in DOMAIN reading
        PROVE  /\ reading[name] <= count'[name]
               /\ sampleCur /\ name \in DOMAIN sample =>
                     sample[name] <= reading[name]
    <3>1. reading[name] <= count[name]
      BY <2>3 DEF OnceInv, ReadingsFit
    <3>2. sampleCur /\ name \in DOMAIN sample => sample[name] <= reading[name]
      BY <2>3 DEF OnceInv, ReadingsFit
    <3>3. QED
      BY <1>1, <3>1, <3>2
  <2>4. QED
    BY <2>1, <2>2, <2>3 DEF ReadingsFit
<1>5. ChargesFit'
  BY <1>2 DEF OnceInv, ChargesFit, Below
<1>6. QED
  BY <1>3, <1>4, <1>5 DEF OnceInv

\* Nothing was charged yet in the new run of the core.
LEMMA OnceStartsOver ==
    ASSUME count' = Zero, charged' = Zero,
           ~sampleCur', ~fileCur', ~readCur'
    PROVE  OnceInv'
<1>1. ChargedAtMostOnce'
  BY DEF ChargedAtMostOnce, Zero
<1>2. ReadingsFit'
  BY DEF ReadingsFit
<1>3. ChargesFit'
  <2>1. \A name \in Names : charged'[name] = 0
    BY DEF Zero
  <2>2. Plain' \subseteq Names
    BY DEF Plain
  <2>3. QED
    BY <2>1, <2>2 DEF ChargesFit, Below
<1>4. QED
  BY <1>1, <1>2, <1>3 DEF OnceInv

\* Outside a cycle's last step nothing is pending.
LEMMA NothingPending == pc[Loop] # "baseline" => Pending = {}
BY DEF Pending

\* A cycle charges no more than it read.
LEMMA OnceSaves == TypeOK /\ OnceInv /\ LoopSave => OnceInv'
<1> SUFFICES ASSUME TypeOK, OnceInv, LoopSave PROVE OnceInv'
  OBVIOUS
<1> DEFINE due(name) == IF name \in Billed THEN Deltas[name] ELSE 0
<1>1. /\ pc[Loop] = "save" /\ pc'[Loop] = "baseline"
      /\ charged' = IF ~readCur THEN charged
                    ELSE [name \in Names |-> charged[name] + due(name)]
      /\ UNCHANGED <<store, reading, sample, sampled, sampleFile, count, repeated,
                     gap, readCur, sampleCur, fileCur>>
  BY DEF LoopSave, Goto, loopVars, coreVars, Procs, TypeOK, ProcType
<1>2. Deltas' = Deltas /\ Billed' = Billed
  BY <1>1 DEF Deltas, Billed
<1>3. InCycle /\ InCycle' /\ Pending = {}
      /\ Pending' = (IF readCur THEN Billed ELSE {})
  BY <1>1, <1>2 DEF InCycle, Pending, Working
<1>4. Plain' = Plain /\ Plain \subseteq Names
  BY <1>1 DEF Plain
<1>5. /\ Billed \subseteq DOMAIN reading /\ DOMAIN reading \subseteq Names
      /\ Billed \subseteq DOMAIN Deltas
      /\ \A name \in DOMAIN reading : reading[name] \in Nat
      /\ \A name \in Names : charged[name] \in Nat /\ count[name] \in Nat
  BY DeltasWereRead DEF Billed, TypeOK, LoopType, Bytes, HistoryType, CoreType
<1>6. ASSUME readCur, NEW name \in Plain \cap Billed
      PROVE  charged'[name] <= reading[name] /\ reading[name] <= count[name]
  <2>1. name \in DOMAIN reading /\ name \in DOMAIN Deltas /\ name \in Names
    BY <1>5
  <2>2. /\ sampled /\ reading[name] \in Nat
        /\ name \in DOMAIN sample => sample[name] \in Nat
        /\ Deltas[name] = IF name \in DOMAIN sample /\ reading[name] >= sample[name]
                          THEN reading[name] - sample[name] ELSE reading[name]
    BY <2>1, DeltasAre DEF TypeOK
  <2>3. Below(name, sampleCur, sample)
    BY <1>3, <2>2 DEF OnceInv, ChargesFit
  <2>4. /\ reading[name] <= count[name]
        /\ sampleCur /\ name \in DOMAIN sample => sample[name] <= reading[name]
    BY <1>3, <1>6, <2>1 DEF OnceInv, ReadingsFit
  <2>5. charged'[name] = charged[name] + Deltas[name]
    BY <1>1, <1>6, <2>1
  <2>6. charged[name] \in Nat
    BY <1>5, <2>1
  <2>7. charged'[name] <= reading[name]
    <3>1. CASE sampleCur /\ name \in DOMAIN sample
      BY <2>2, <2>3, <2>4, <2>5, <2>6, <3>1 DEF Below
    <3>2. CASE ~(sampleCur /\ name \in DOMAIN sample)
      BY <2>2, <2>3, <2>5, <2>6, <3>2 DEF Below
    <3>3. QED
      BY <3>1, <3>2
  <2>8. QED
    BY <2>4, <2>7
<1>7. ASSUME NEW name \in Names, ~readCur \/ name \notin Billed
      PROVE  charged'[name] = charged[name]
  BY <1>1, <1>5, <1>7
<1>8. ChargedAtMostOnce'
  <2> SUFFICES ASSUME NEW name \in Plain
               PROVE  charged'[name] <= count[name]
    BY <1>1 DEF ChargedAtMostOnce, Plain
  <2>1. charged[name] <= count[name]
    BY DEF OnceInv, ChargedAtMostOnce, Plain
  <2>2. CASE readCur /\ name \in Billed
    <3>1. charged'[name] <= reading[name] /\ reading[name] <= count[name]
      BY <1>6, <2>2
    <3>2. reading[name] \in Nat /\ count[name] \in Nat /\ charged'[name] \in Nat
      <4>1. IsDeltas(Deltas)
        BY DeltasType DEF TypeOK
      <4>2. QED
        BY <1>1, <1>4, <1>5, <2>2, <4>1 DEF IsDeltas
    <3>3. QED
      BY <3>1, <3>2
  <2>3. QED
    BY <1>4, <1>7, <2>1, <2>2
<1>9. ReadingsFit'
  BY <1>1, <1>3 DEF OnceInv, ReadingsFit
<1>10. ChargesFit'
  <2>1. ASSUME NEW name \in Plain, ~readCur \/ name \notin Billed
        PROVE  /\ sampleCur \/ sampled => Below(name, sampleCur, sample)'
               /\ fileCur \/ DOMAIN sampleFile # {} => Below(name, fileCur, sampleFile)'
    <3>1. charged'[name] = charged[name]
      BY <1>4, <1>7, <2>1
    <3>2. name \in Plain \ Pending
      BY <1>3
    <3>3. QED
      BY <1>1, <3>1, <3>2 DEF OnceInv, ChargesFit, Below
  <2>2. ASSUME readCur, NEW name \in Plain \cap DOMAIN reading
        PROVE  charged'[name] <= reading[name]
    <3>1. charged[name] <= reading[name]
      BY <1>3, <2>2 DEF OnceInv, ChargesFit
    <3>2. QED
      BY <1>4, <1>6, <1>7, <2>2, <3>1
  <2>3. ~readCur => charged' = Zero
    BY <1>1, <1>3 DEF OnceInv, ChargesFit
  <2>4. QED
    BY <1>1, <1>3, <1>4, <2>1, <2>2, <2>3 DEF ChargesFit
<1>11. QED
  BY <1>8, <1>9, <1>10 DEF OnceInv

\* The baseline moves over what was charged; what it no longer holds is in gap.
LEMMA OnceMoves ==
    ASSUME TypeOK, OnceInv, NEW file, MoveBaseline(file), pc[Loop] = "baseline",
           \/ file = reading /\ fileCur' = readCur
           \/ file = Empty /\ fileCur' = FALSE
    PROVE  OnceInv'
<1>1. /\ sample' = reading /\ sampleFile' = file /\ charged' = charged
      /\ sampleCur' = readCur /\ readCur' = FALSE /\ pc'[Loop] = "idle"
      /\ count' = count /\ repeated' = repeated
      /\ IF readCur THEN gap' = gap \cup {name \in Names \ DOMAIN reading :
                                             charged[name] > 0}
                    ELSE gap' = gap
  BY DEF MoveBaseline, Goto, Procs, TypeOK, ProcType, coreVars
<1>2. InCycle /\ ~InCycle' /\ Pending' = {}
  BY <1>1 DEF InCycle, Pending, Working
<1>3. Plain' \subseteq Plain /\ Plain \subseteq Names
      /\ \A name \in Names : charged[name] \in Nat
  BY <1>1 DEF Plain, TypeOK, HistoryType
<1>4. ChargedAtMostOnce'
  BY <1>1, <1>3 DEF OnceInv, ChargedAtMostOnce, Plain
<1>5. ReadingsFit'
  BY <1>1, <1>2 DEF OnceInv, ReadingsFit
<1>6. ASSUME NEW name \in Plain'
      PROVE  Below(name, readCur, reading)
  <2>1. CASE readCur /\ name \in DOMAIN reading
    BY <1>2, <1>3, <1>6, <2>1 DEF OnceInv, ChargesFit, Below
  <2>2. CASE readCur /\ name \notin DOMAIN reading
    <3>1. name \notin gap' /\ name \in Names
      BY <1>6 DEF Plain
    <3>2. ~(charged[name] > 0)
      BY <1>1, <2>2, <3>1
    <3>3. QED
      BY <1>3, <2>2, <3>1, <3>2 DEF Below
  <2>3. CASE ~readCur
    <3>1. charged = Zero
      BY <1>2, <2>3 DEF OnceInv, ChargesFit
    <3>2. QED
      BY <1>3, <1>6, <2>3, <3>1 DEF Below, Zero
  <2>4. QED
    BY <2>1, <2>2, <2>3
<1>7. ChargesFit'
  <2>1. ASSUME NEW name \in Plain'
        PROVE  Below(name, sampleCur, sample)'
    BY <1>1, <1>6 DEF Below
  <2>2. ASSUME NEW name \in Plain', fileCur' \/ DOMAIN sampleFile' # {}
        PROVE  Below(name, fileCur, sampleFile)'
    <3>1. sampleFile' = reading /\ fileCur' = readCur
      BY <1>1, <2>2 DEF Empty
    <3>2. QED
      BY <1>1, <1>6, <3>1 DEF Below
  <2>3. QED
    BY <1>2, <2>1, <2>2 DEF ChargesFit
<1>8. QED
  BY <1>4, <1>5, <1>7 DEF OnceInv

\* Every step keeps the account of what was charged.
LEMMA OnceStep == TypeOK /\ OnceInv /\ [Next]_vars => OnceInv'
<1> SUFFICES ASSUME TypeOK, OnceInv, [Next]_vars PROVE OnceInv'
  OBVIOUS
<1>0. /\ Loop \in Procs /\ Loop \notin Panels
      /\ \A p \in Procs : \A label : Goto(p, label) => pc'[p] = label
      /\ \A p \in Procs \ {Loop} : \A label : Goto(p, label) => pc'[Loop] = pc[Loop]
      /\ \A name \in Names : count[name] \in Nat /\ count[name] <= count[name]
  BY ConstantsAssumption DEF Procs, Goto, TypeOK, ProcType, CoreType
<1>1. ASSUME UNCHANGED <<loopVars, runVars, pc[Loop], store[Loop]>>,
             \A name \in Names : count'[name] \in Nat /\ count[name] <= count'[name]
      PROVE  OnceInv'
  <2>1. Pending' = Pending
    BY <1>1, PendingStays DEF loopVars, runVars
  <2>2. QED
    BY <1>1, <2>1, OnceStays DEF loopVars, runVars, InCycle
<1>2. ASSUME UNCHANGED <<loopVars, runVars, count>>, pc[Loop] # "baseline",
             pc'[Loop] # "baseline", InCycle' => InCycle
      PROVE  OnceInv'
  BY <1>0, <1>2, NothingPending, OnceStays DEF loopVars, runVars, Pending
<1>3. CASE UNCHANGED vars
  BY <1>0, <1>1, <1>3 DEF vars, fileVars, coreVars
<1>4. CASE Traffic
  <2>1. \A name \in Names : count'[name] \in Nat /\ count[name] <= count'[name]
    BY <1>4 DEF Traffic, TypeOK, CoreType
  <2>2. QED
    BY <1>1, <1>4, <2>1 DEF Traffic, fileVars
<1>5. CASE NewMonth
  BY <1>0, <1>1, <1>5 DEF NewMonth, fileVars, coreVars
<1>6. CASE CoreStop \/ CoreStart
  BY <1>6, OnceStartsOver DEF CoreStop, CoreStart, CoreDown, CoreFresh
<1>7. ASSUME NEW p \in Panels, PanelStart(p) \/ PanelWork(p)
      PROVE  OnceInv'
  <2>1. p \in Procs \ {Loop}
    BY <1>0 DEF Procs
  <2>2. /\ pc'[Loop] = pc[Loop] /\ store'[Loop] = store[Loop]
        /\ UNCHANGED <<loopVars, runVars, count>>
    BY <1>0, <1>7, <2>1 DEF PanelStart, PanelWork, PanelLock, PanelCommit,
       PanelRefused, PanelDeploy, PanelSave, fileVars, coreVars, TypeOK, FileType
  <2>3. QED
    BY <1>0, <1>1, <2>2
<1>8. ASSUME NEW p \in Procs, Apply(p)
      PROVE  OnceInv'
  <2>1. CASE ApplyRestart(p)
    BY <2>1, OnceStartsOver DEF ApplyRestart, CoreFresh
  <2>2. CASE ApplySame(p) \/ ApplyInstall(p)
    <3>1. /\ UNCHANGED <<loopVars, runVars, count>> /\ pc[p] = "apply"
          /\ \/ Goto(p, "save") \/ Goto(p, "restart")
          /\ p # Loop => store'[Loop] = store[Loop]
      BY <1>0, <2>2 DEF ApplySame, ApplyInstall, fileVars, coreVars, TypeOK, FileType
    <3>2. CASE p = Loop
      BY <1>0, <1>2, <3>1, <3>2 DEF InCycle, Working
    <3>3. CASE p # Loop
      BY <1>0, <1>1, <3>1, <3>3
    <3>4. QED
      BY <3>2, <3>3
  <2>3. QED
    BY <1>8, <2>1, <2>2 DEF Apply
<1>9. CASE LoopPeek
  <2>1. /\ pc[Loop] = "idle" /\ pc'[Loop] = "peeked"
        /\ sample' = Restored /\ sampled' = HasBaseline /\ sampleCur' = RestoredCur
        /\ UNCHANGED <<sampleFile, fileCur, charged, repeated, gap, count, readCur>>
    BY <1>0, <1>9 DEF LoopPeek, coreVars
  <2>2. Pending = {} /\ Pending' = {} /\ ~InCycle' /\ Plain' = Plain
    BY <2>1 DEF Pending, InCycle, Working, Plain
  <2>3. ChargedAtMostOnce'
    BY <2>1 DEF OnceInv, ChargedAtMostOnce
  <2>4. ReadingsFit'
    BY <2>1, <2>2 DEF OnceInv, ReadingsFit, Restored, RestoredCur
  <2>5. ChargesFit'
    <3>1. ASSUME NEW name \in Plain
          PROVE  /\ sampleCur' \/ sampled' => Below(name, sampleCur, sample)'
                 /\ fileCur \/ DOMAIN sampleFile # {} => Below(name, fileCur, sampleFile)'
      <4>1. /\ sampleCur \/ sampled => Below(name, sampleCur, sample)
            /\ fileCur \/ DOMAIN sampleFile # {} => Below(name, fileCur, sampleFile)
        BY <2>2 DEF OnceInv, ChargesFit
      <4>2. QED
        BY <2>1, <4>1 DEF Below, Restored, HasBaseline, RestoredCur
    <3>2. QED
      BY <2>1, <2>2, <3>1 DEF ChargesFit
  <2>6. QED
    BY <2>3, <2>4, <2>5 DEF OnceInv
<1>10. CASE LoopNothing
  <2>1. /\ pc[Loop] = "idle" /\ pc'[Loop] = "idle"
        /\ ~sampled' /\ ~sampleCur' /\ ~fileCur' /\ sampleFile' = Empty
        /\ UNCHANGED <<charged, repeated, gap, count>>
    BY <1>10 DEF LoopNothing, coreVars
  <2>2. ~InCycle' /\ DOMAIN sampleFile' = {}
    BY <2>1 DEF InCycle, Working, Empty
  <2>3. QED
    BY <2>1, <2>2 DEF OnceInv, ChargedAtMostOnce, ReadingsFit, ChargesFit
<1>11. CASE LoopRead
  <2>1. /\ pc[Loop] = "peeked" /\ pc'[Loop] = "read" /\ readCur' = TRUE
        /\ reading' = [name \in {m \in asked : count[m] > 0} |-> count[name]]
        /\ UNCHANGED <<sample, sampled, sampleFile, sampleCur, fileCur, charged,
                       repeated, gap, count>>
    BY <1>0, <1>11 DEF LoopRead, coreVars
  <2>2. Pending = {} /\ Pending' = {} /\ Plain' = Plain /\ Plain \subseteq Names
    BY <2>1 DEF Pending, Plain
  <2>3. \A name \in DOMAIN reading' : name \in Names /\ reading'[name] = count[name]
    BY <2>1 DEF TypeOK, LoopType
  <2>4. ChargedAtMostOnce'
    BY <2>1 DEF OnceInv, ChargedAtMostOnce
  <2>5. ReadingsFit'
    BY <1>0, <2>1, <2>3 DEF OnceInv, ReadingsFit
  <2>6. ChargesFit'
    <3>1. \A name \in Plain : charged[name] <= count[name]
      BY DEF OnceInv, ChargedAtMostOnce, Plain
    <3>2. \A name \in Plain :
              /\ sampleCur \/ sampled => Below(name, sampleCur, sample)'
              /\ fileCur \/ DOMAIN sampleFile # {} => Below(name, fileCur, sampleFile)'
      BY <2>1, <2>2 DEF OnceInv, ChargesFit, Below
    <3>3. QED
      BY <2>1, <2>2, <2>3, <3>1, <3>2 DEF ChargesFit
  <2>7. QED
    BY <2>4, <2>5, <2>6 DEF OnceInv
<1>12. CASE LoopReadFails \/ LoopLock
  <2>1. /\ UNCHANGED <<loopVars, runVars, count>>
        /\ \/ pc[Loop] = "peeked" /\ pc'[Loop] = "idle"
           \/ pc[Loop] = "read" /\ pc'[Loop] \in {"apply", "save"}
    BY <1>0, <1>12 DEF LoopReadFails, LoopLock, coreVars
  <2>2. QED
    BY <1>2, <2>1 DEF InCycle, Working
<1>13. CASE LoopSave
  BY <1>13, OnceSaves
<1>14. CASE LoopBaseline \/ LoopBaselineTorn
  BY <1>14, OnceMoves DEF LoopBaseline, LoopBaselineTorn
<1>15. ASSUME NEW p \in Procs, GiveUp(p)
       PROVE  OnceInv'
  <2>1. /\ UNCHANGED <<loopVars, runVars, count>> /\ Goto(p, "idle")
        /\ pc[p] # "baseline"
        /\ p # Loop => store'[Loop] = store[Loop]
    BY <1>0, <1>15 DEF GiveUp, coreVars, TypeOK, FileType
  <2>2. CASE p = Loop
    BY <1>0, <1>2, <2>1, <2>2 DEF InCycle, Working
  <2>3. CASE p # Loop
    BY <1>0, <1>1, <2>1, <2>3
  <2>4. QED
    BY <2>2, <2>3
<1>16. ASSUME NEW p \in Procs, RestartLeavesDown(p)
       PROVE  OnceInv'
  BY <1>16, OnceStartsOver DEF RestartLeavesDown, CoreDown
<1>17. CASE LoopDies
  <2>1. /\ pc'[Loop] = "idle" /\ ~sampled' /\ ~sampleCur' /\ ~readCur'
        /\ repeated' = repeated \cup Pending
        /\ UNCHANGED <<sampleFile, fileCur, charged, gap, count>>
    BY <1>0, <1>17 DEF LoopDies, Pending, coreVars
  <2>2. ~InCycle' /\ Pending' = {} /\ Plain' = Plain \ Pending
    BY <2>1 DEF InCycle, Working, Pending, Plain
  <2>3. ChargedAtMostOnce'
    BY <2>1 DEF OnceInv, ChargedAtMostOnce
  <2>4. ReadingsFit'
    BY <2>1, <2>2 DEF OnceInv, ReadingsFit
  <2>5. ChargesFit'
    BY <2>1, <2>2 DEF OnceInv, ChargesFit, Below
  <2>6. QED
    BY <2>3, <2>4, <2>5 DEF OnceInv
<1>18. QED
  BY <1>3, <1>4, <1>5, <1>6, <1>7, <1>8, <1>9, <1>10, <1>11, <1>12, <1>13,
     <1>14, <1>15, <1>16, <1>17 DEF Next, LoopWork, Fault

\* No byte is charged twice (ChargedAtMostOnce), whatever fails and however the
\* core restarts, but for the names the two exceptions of the property list.
THEOREM NeverChargedTwice == Spec => []ChargedAtMostOnce
<1>1. Init => OnceInv
  <2> SUFFICES ASSUME Init PROVE OnceInv
    OBVIOUS
  <2>1. /\ charged = Zero /\ count = Zero /\ ~sampleCur /\ ~fileCur /\ ~readCur
        /\ ~sampled /\ DOMAIN sampleFile = {}
    BY DEF Init, Empty
  <2>2. QED
    BY <2>1 DEF OnceInv, ChargedAtMostOnce, ReadingsFit, ChargesFit, Zero
<1>2. OnceInv => ChargedAtMostOnce
  BY DEF OnceInv
<1>3. QED
  BY <1>1, <1>2, OnceStep, TypeCorrect, PTL DEF Spec

-----------------------------------------------------------------------------
(***************************************************************************)
(* What the flags say, while no step has failed.                           *)
(***************************************************************************)
Lists(t) == \E n \in Nodes : <<t, n>> \in UNION config

FlagsFit(s) == \A t \in DOMAIN s : s[t].applied = Lists(t)

NoneEdited == \A p \in Panels : pc[p] # "edited"

DeployFits ==
    /\ \A p \in Procs : pc[p] = "restart" => config = Rendered(p)
    /\ active /\ (\A p \in Procs : pc[p] # "restart") => serves = UNION config

FilesFit ==
    /\ NoneEdited /\ (\A p \in Procs : pc[p] \notin Working) => FlagsFit(disk)
    /\ \A p \in Procs : pc[p] = "save" /\ (p \in Panels \/ NoneEdited)
           => FlagsFit(store[p])

AppliedInv == faults = 0 => DeployFits /\ FilesFit

\* The document lists the accounts that may be routed, and no other.
LEMMA DocumentLists ==
    ASSUME NEW s, IsStore(s), NEW m, config = {Members(s, m)}, NEW t \in DOMAIN s
    PROVE  Lists(t) <=> t \in Routable(s, m)
<1>1. t \in Tokens /\ s[t].terms.nodes \subseteq Nodes
  BY DEF IsStore, Account, Terms
<1>2. UNION config = Members(s, m)
  OBVIOUS
<1>3. \A n \in Nodes : <<t, n>> \in Members(s, m)
          <=> t \in Routable(s, m) /\ n \in s[t].terms.nodes
  BY <1>1 DEF Members, Names
<1>4. t \in Routable(s, m) => s[t].terms.nodes # {}
  BY DEF Routable
<1>5. QED
  BY <1>1, <1>2, <1>3, <1>4 DEF Lists

\* So the flags MarkApplied leaves fit the document rendered from the store.
LEMMA MarkedFits ==
    ASSUME NEW s, IsStore(s), NEW m, config = {Members(s, m)}
    PROVE  FlagsFit(MarkApplied(s, m))
<1>1. ASSUME NEW t \in DOMAIN s
      PROVE  MarkApplied(s, m)[t].applied = Lists(t)
  <2>1. MarkApplied(s, m)[t].applied = (t \in Routable(s, m))
    BY MarkAppliedFlags
  <2>2. Lists(t) <=> t \in Routable(s, m)
    BY DocumentLists
  <2>3. CASE t \in Routable(s, m)
    BY <2>1, <2>2, <2>3 DEF Lists
  <2>4. CASE t \notin Routable(s, m)
    <3>1. (t \in Routable(s, m)) = FALSE
      BY <2>4
    <3>2. Lists(t) = FALSE
      BY <2>2, <2>4 DEF Lists
    <3>3. QED
      BY ONLY <2>1, <3>1, <3>2, Zenon
  <2>5. QED
    BY <2>3, <2>4
<1>2. QED
  BY <1>1, MarkAppliedType DEF FlagsFit

-----------------------------------------------------------------------------
\* A step of a process that neither deploys nor saves, or of the core.
LEMMA FitStays ==
    ASSUME DeployFits, FilesFit, UNCHANGED <<config, disk>>,
           \A q \in Procs :
              /\ pc'[q] = "restart" <=> pc[q] = "restart"
              /\ pc'[q] = "save" <=> pc[q] = "save"
              /\ pc'[q] \in Working <=> pc[q] \in Working
              /\ pc[q] \in Working => UNCHANGED <<store[q], now[q]>>,
           NoneEdited' => NoneEdited,
           UNCHANGED <<active, serves>> \/ (active' => serves' = UNION config)
    PROVE  DeployFits' /\ FilesFit'
<1>1. \A t : Lists(t)' = Lists(t)
  BY DEF Lists
<1>2. DeployFits'
  BY DEF DeployFits, Rendered, Working
<1>3. FilesFit'
  BY <1>1 DEF FilesFit, FlagsFit, Working
<1>4. QED
  BY <1>2, <1>3

\* A step after which p works with the lock, and nobody else.
LEMMA FitHeld ==
    ASSUME NEW p \in Procs, pc'[p] \in Working,
           \A q \in Procs : q # p => pc'[q] \notin Working,
           pc'[p] = "restart" => config' = Rendered(p)',
           pc'[p] # "restart" /\ active' => serves' = UNION config',
           pc'[p] = "save" /\ (p \in Panels \/ NoneEdited') => FlagsFit(store[p])'
    PROVE  DeployFits' /\ FilesFit'
BY DEF DeployFits, FilesFit, Working

\* A step after which nobody works on the file.
LEMMA FitLetsGo ==
    ASSUME \A q \in Procs : pc'[q] \notin Working,
           active' => serves' = UNION config',
           NoneEdited' => FlagsFit(disk)'
    PROVE  DeployFits' /\ FilesFit'
BY DEF DeployFits, FilesFit, Working

\* The flags fit in every state a step without a fault leads to.
LEMMA AppliedStep == IInv /\ AppliedInv /\ [Next]_vars => AppliedInv'
<1> SUFFICES ASSUME IInv, AppliedInv, [Next]_vars, faults' = 0
             PROVE  DeployFits' /\ FilesFit'
  BY DEF AppliedInv
<1>1. ~Fault /\ faults = 0
  <2>1. faults \in Nat
    BY DEF IInv, TypeOK, CoreType
  <2>2. Fault => faults' = faults + 1
    BY DEF Fault, GiveUp, RestartLeavesDown, LoopBaselineTorn, LoopDies
  <2>3. ~Fault
    BY <2>1, <2>2
  <2>4. faults' = faults
    BY <2>3 DEF Next, PanelStart, PanelWork, PanelLock, PanelCommit,
       PanelRefused, PanelDeploy, PanelSave, Apply, ApplySame, ApplyInstall,
       ApplyRestart, LoopWork, LoopPeek, LoopNothing, LoopRead, LoopReadFails,
       LoopLock, LoopSave, LoopBaseline, Traffic, CoreStop, CoreStart, NewMonth,
       vars
  <2>5. QED
    BY <2>3, <2>4
<1>2. /\ DeployFits /\ FilesFit
      /\ \A p \in Procs : pc[p] \in Holding <=> lock = p
      /\ IsStore(disk) /\ \A p \in Procs : IsStore(store[p])
      /\ Loop \in Procs /\ Loop \notin Panels /\ NoOne \notin Procs
      /\ Panels \subseteq Procs
      /\ \A p \in Procs : \A label : Goto(p, label) =>
            pc'[p] = label /\ \A q \in Procs : q # p => pc'[q] = pc[q]
      /\ \A p \in Procs : \A s : store' = [store EXCEPT ![p] = s] =>
            store'[p] = s /\ \A q \in Procs : q # p => store'[q] = store[q]
      /\ \A p \in Procs : \A m : now' = [now EXCEPT ![p] = m] =>
            now'[p] = m /\ \A q \in Procs : q # p => now'[q] = now[q]
  BY <1>1, ConstantsAssumption DEF AppliedInv, IInv, Guarded, Exclusive, TypeOK,
     FileType, ProcType, Procs, Goto
<1>3. /\ \A q \in Procs : pc[q] # "restart" => (pc[q] \in Working => pc[q] \in Holding)
      /\ \A p, q \in Procs : pc[p] \in Working /\ q # p => pc[q] \notin Holding
      /\ \A q \in Procs : pc[q] \in Working => pc[q] \in Holding
      /\ lock = NoOne => \A q \in Procs : pc[q] \notin Holding
  BY <1>2 DEF Working, Holding
<1>4. \A p \in Procs : pc[p] \in Working \ {"restart"} =>
          (active => serves = UNION config)
  BY <1>2, <1>3 DEF DeployFits, Working, Holding
<1>5. (\A p \in Procs : pc[p] \notin Working) => (active => serves = UNION config)
  BY <1>2 DEF DeployFits, Working
<1>6. CASE UNCHANGED vars
  BY <1>2, <1>6, FitStays DEF vars, fileVars, coreVars, NoneEdited
<1>7. CASE Traffic \/ CoreStop \/ CoreStart \/ NewMonth
  BY <1>2, <1>7, FitStays DEF Traffic, CoreStop, CoreStart, NewMonth, CoreDown,
     CoreFresh, fileVars, coreVars, NoneEdited
<1>8. ASSUME NEW p \in Panels, PanelStart(p) \/ PanelWork(p)
      PROVE  DeployFits' /\ FilesFit'
  <2>0. p \in Procs /\ p # Loop
    BY <1>2
  <2>1. CASE PanelStart(p) \/ PanelLock(p) \/ PanelRefused(p)
    <3>1. PICK label \in {"wait", "change", "idle"} : Goto(p, label)
      BY <2>1 DEF PanelStart, PanelLock, PanelRefused
    <3>2. /\ UNCHANGED <<config, disk, active, serves>>
          /\ pc[p] \in {"idle", "wait", "change"}
          /\ \A q \in Procs : q # p => UNCHANGED <<store[q], now[q]>>
      BY <1>2, <2>0, <2>1 DEF PanelStart, PanelLock, PanelRefused, fileVars, coreVars
    <3>3. pc'[p] \in {"wait", "change", "idle"}
          /\ \A q \in Procs : q # p => pc'[q] = pc[q]
      BY <1>2, <2>0, <3>1
    <3>4. NoneEdited' => NoneEdited
      BY <1>2, <3>2, <3>3 DEF NoneEdited
    <3>5. \A q \in Procs :
              /\ pc'[q] = "restart" <=> pc[q] = "restart"
              /\ pc'[q] = "save" <=> pc[q] = "save"
              /\ pc'[q] \in Working <=> pc[q] \in Working
              /\ pc[q] \in Working => UNCHANGED <<store[q], now[q]>>
      BY <3>2, <3>3 DEF Working
    <3>6. QED
      BY <1>2, <3>2, <3>4, <3>5, FitStays
  <2>2. CASE PanelCommit(p)
    <3>1. /\ pc[p] = "change" /\ pc'[p] = "edited"
          /\ \A q \in Procs : q # p => pc'[q] = pc[q]
          /\ UNCHANGED <<config, active, serves>>
      BY <1>2, <2>0, <2>2 DEF PanelCommit, coreVars
    <3>2. \A q \in Procs : pc[q] \notin Working /\ pc'[q] \notin Working
      BY <1>2, <2>0, <3>1 DEF Holding, Working
    <3>3. ~NoneEdited'
      BY <3>1 DEF NoneEdited
    <3>4. QED
      BY <1>5, <3>1, <3>2, <3>3, FitLetsGo
  <2>3. CASE PanelDeploy(p)
    <3>1. /\ pc'[p] = "apply" /\ lock = NoOne
          /\ \A q \in Procs : q # p => pc'[q] = pc[q]
          /\ UNCHANGED <<config, active, serves>>
      BY <1>2, <2>0, <2>3 DEF PanelDeploy, Acquire, coreVars
    <3>2. \A q \in Procs : pc[q] \notin Working
      BY <1>3, <3>1
    <3>3. QED
      BY <1>5, <2>0, <3>1, <3>2, FitHeld DEF Working
  <2>4. CASE PanelSave(p)
    <3>1. /\ pc[p] = "save" /\ pc'[p] = "idle" /\ disk' = store[p]
          /\ \A q \in Procs : q # p => pc'[q] = pc[q]
          /\ UNCHANGED <<config, active, serves>>
      BY <1>2, <2>0, <2>4 DEF PanelSave, coreVars
    <3>2. \A q \in Procs : pc'[q] \notin Working
      BY <1>3, <2>0, <3>1 DEF Working, Holding
    <3>3. FlagsFit(store[p])
      BY <1>2, <2>0, <3>1 DEF FilesFit
    <3>4. FlagsFit(disk)'
      BY <3>1, <3>3 DEF FlagsFit, Lists
    <3>5. QED
      BY <1>4, <2>0, <3>1, <3>2, <3>4, FitLetsGo DEF Working
  <2>5. QED
    BY <1>8, <2>1, <2>2, <2>3, <2>4 DEF PanelWork
<1>9. ASSUME NEW p \in Procs, Apply(p)
      PROVE  DeployFits' /\ FilesFit'
  <2>1. CASE ApplySame(p)
    <3>1. /\ pc[p] = "apply" /\ pc'[p] = "save" /\ config = Rendered(p)
          /\ \A q \in Procs : q # p => pc'[q] = pc[q]
          /\ store'[p] = MarkApplied(store[p], now[p])
          /\ UNCHANGED <<config, active, serves>>
      BY <1>2, <2>1, ZenonT(60) DEF ApplySame, coreVars
    <3>2. FlagsFit(store'[p])
      BY <1>2, <3>1, MarkedFits DEF Rendered
    <3>3. FlagsFit(store[p])'
      BY <3>1, <3>2 DEF FlagsFit, Lists
    <3>4. QED
      BY <1>3, <1>4, <3>1, <3>3, FitHeld DEF Working
  <2>2. CASE ApplyInstall(p)
    <3>1. /\ pc[p] = "apply" /\ pc'[p] = "restart" /\ config' = Rendered(p)
          /\ \A q \in Procs : q # p => pc'[q] = pc[q]
          /\ UNCHANGED <<store, now>>
      BY <1>2, <2>2 DEF ApplyInstall, fileVars
    <3>2. config' = Rendered(p)'
      BY <3>1 DEF Rendered
    <3>3. QED
      BY <1>3, <3>1, <3>2, FitHeld DEF Working
  <2>3. CASE ApplyRestart(p)
    <3>1. /\ pc[p] = "restart" /\ pc'[p] = "save" /\ serves' = UNION config
          /\ \A q \in Procs : q # p => pc'[q] = pc[q]
          /\ store'[p] = MarkApplied(store[p], now[p])
          /\ config' = config
      BY <1>2, <2>3, ZenonT(60) DEF ApplyRestart, CoreFresh
    <3>2. FlagsFit(store'[p])
      <4>1. config = {Members(store[p], now[p])}
        BY <1>2, <3>1 DEF DeployFits, Rendered
      <4>2. QED
        BY <1>2, <3>1, <4>1, MarkedFits
    <3>3. FlagsFit(store[p])'
      BY <3>1, <3>2 DEF FlagsFit, Lists
    <3>4. QED
      BY <1>3, <3>1, <3>3, FitHeld DEF Working
  <2>4. QED
    BY <1>9, <2>1, <2>2, <2>3 DEF Apply
<1>10. CASE LoopPeek \/ LoopNothing \/ LoopRead \/ LoopReadFails \/ LoopBaseline
  <2>1. /\ UNCHANGED <<config, disk, active, serves>>
        /\ pc[Loop] \in {"idle", "peeked", "baseline"}
        /\ pc'[Loop] \in {"idle", "peeked", "read"}
        /\ \A q \in Procs : q # Loop => pc'[q] = pc[q]
        /\ \A q \in Procs : q # Loop => UNCHANGED <<store[q], now[q]>>
    BY <1>2, <1>10, ZenonT(60) DEF LoopPeek, LoopNothing, LoopRead, LoopReadFails,
       LoopBaseline, MoveBaseline, fileVars, coreVars
  <2>2. NoneEdited' => NoneEdited
    BY <1>2, <2>1 DEF NoneEdited
  <2>3. \A q \in Procs :
            /\ pc'[q] = "restart" <=> pc[q] = "restart"
            /\ pc'[q] = "save" <=> pc[q] = "save"
            /\ pc'[q] \in Working <=> pc[q] \in Working
            /\ pc[q] \in Working => UNCHANGED <<store[q], now[q]>>
    BY <2>1 DEF Working
  <2>4. QED
    BY <1>2, <2>1, <2>2, <2>3, FitStays
<1>11. CASE LoopLock
  <2>1. /\ pc'[Loop] \in {"apply", "save"} /\ lock = NoOne /\ pc[Loop] = "read"
        /\ \A q \in Procs : q # Loop => pc'[q] = pc[q]
        /\ store'[Loop] = Bill(disk, Deltas, now[Loop])
        /\ UNCHANGED <<config, active, serves>>
    BY <1>2, <1>11 DEF LoopLock, Acquire, coreVars
  <2>2. \A q \in Procs : pc[q] \notin Working
    BY <1>3, <2>1
  <2>3. ASSUME NoneEdited' PROVE FlagsFit(store[Loop])'
    <3>1. NoneEdited
      BY <1>2, <2>1, <2>3 DEF NoneEdited
    <3>2. FlagsFit(disk)
      BY <1>2, <2>2, <3>1 DEF FilesFit
    <3>3. /\ now[Loop] \in Nat /\ IsDeltas(Deltas)
      BY <1>2, DeltasType DEF IInv, TypeOK, ProcType
    <3>4. /\ DOMAIN store'[Loop] = DOMAIN disk
          /\ \A t \in DOMAIN disk : store'[Loop][t].applied = disk[t].applied
      BY <1>2, <2>1, <3>3, BillType, BillFlags
    <3>5. QED
      BY <2>1, <3>2, <3>4 DEF FlagsFit, Lists
  <2>4. QED
    BY <1>2, <1>5, <2>1, <2>2, <2>3, FitHeld DEF Working
<1>12. CASE LoopSave
  <2>1. /\ pc[Loop] = "save" /\ pc'[Loop] = "baseline" /\ disk' = store[Loop]
        /\ \A q \in Procs : q # Loop => pc'[q] = pc[q]
        /\ UNCHANGED <<config, active, serves>>
    BY <1>2, <1>12 DEF LoopSave, coreVars
  <2>2. \A q \in Procs : pc'[q] \notin Working
    BY <1>2, <1>3, <2>1 DEF Working, Holding
  <2>3. ASSUME NoneEdited' PROVE FlagsFit(disk)'
    <3>1. NoneEdited
      BY <1>2, <2>1, <2>3 DEF NoneEdited
    <3>2. FlagsFit(store[Loop])
      BY <1>2, <2>1, <3>1 DEF FilesFit
    <3>3. QED
      BY <2>1, <3>2 DEF FlagsFit, Lists
  <2>4. QED
    BY <1>2, <1>4, <2>1, <2>2, <2>3, FitLetsGo DEF Working
<1>13. QED
  BY <1>1, <1>6, <1>7, <1>8, <1>9, <1>10, <1>11, <1>12 DEF Next, LoopWork

\* At rest, the flags of the file fit what the core was given.
LEMMA AppliedInit == Init => AppliedInv
<1> SUFFICES ASSUME Init PROVE AppliedInv
  OBVIOUS
<1> DEFINE fresh == [t \in Provisioned |-> NewAccount(DefaultTerms, 1)]
<1>1. /\ disk = MarkApplied(fresh, 1)
      /\ config = IF Provisioned = {} THEN {} ELSE {Members(fresh, 1)}
      /\ serves = UNION config /\ pc = [p \in Procs |-> "idle"]
  BY DEF Init, DefaultTerms
<1>2. IsStore(fresh)
  BY DefaultTermsType, NewAccountType, ConstantsAssumption DEF IsStore
<1>3. FlagsFit(disk)
  <2>1. CASE Provisioned = {}
    BY <1>1, <2>1 DEF FlagsFit, MarkApplied
  <2>2. CASE Provisioned # {}
    <3> HIDE DEF fresh
    <3>1. QED
      BY <1>1, <1>2, <2>2, MarkedFits
  <2>3. QED
    BY <2>1, <2>2
<1>4. QED
  BY <1>1, <1>3 DEF AppliedInv, DeployFits, FilesFit

\* Between deployments, and while no step has failed, an account's applied flag
\* says whether the running core accepts the account (AppliedMatchesCore).
THEOREM FlagsMatchCore == Spec => []AppliedMatchesCore
<1>1. IInv /\ AppliedInv => AppliedMatchesCore
  <2> SUFFICES ASSUME IInv, AppliedInv, Quiet, active, faults = 0,
                      NEW t \in DOMAIN disk
               PROVE  disk[t].applied = Served(t)
    BY DEF AppliedMatchesCore
  <2>1. NoneEdited /\ \A q \in Procs : pc[q] \notin Working
    BY ConstantsAssumption DEF Quiet, NoneEdited, IInv, Guarded, Exclusive,
       Working, Holding
  <2>2. FlagsFit(disk) /\ serves = UNION config
    BY <2>1 DEF AppliedInv, DeployFits, FilesFit, Working
  <2>3. QED
    BY <2>2 DEF FlagsFit, Lists, Served
<1>2. QED
  BY <1>1, AppliedInit, AppliedStep, GuardedAlways, PTL DEF Spec

=============================================================================
