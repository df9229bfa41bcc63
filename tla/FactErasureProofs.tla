------------------------- MODULE FactErasureProofs -------------------------
(***************************************************************************)
(* Proofs about FactErasure, for any memos, facts, requests, appliers and  *)
(* reconcilers.                                                            *)
(***************************************************************************)
EXTENDS FactErasure, TLAPS

LEMMA CallerStep ==
    ASSUME CallersOK, NEW w \in Appliers, NEW c \in Caller, app' = [app EXCEPT ![w] = c],
           IF c.pc = "idle" THEN c = Resting ELSE c.req \in Applied
    PROVE  CallersOK'
BY DEF CallersOK

LEMMA InitTypes == Init => TypeOK
BY RequestsApart, NilApart, Bounds
DEF Init, TypeOK, CallersOK, Caller, EraserOK, Eraser, Resting, Rested, Quiet

LEMMA StepTypes ==
    ASSUME TypeOK, [Next]_vars
    PROVE  TypeOK'
<1>1. ASSUME NEW w \in Appliers, NEW r \in Applied, NEW C \in Citations, ApplyCall(w, r, C) PROVE TypeOK'
  BY <1>1, RequestsApart, NilApart, Bounds DEF ApplyCall, TypeOK, CallersOK, Caller, EraserOK, Resting
<1>2. ASSUME NEW w \in Appliers, ApplyLock(w) PROVE TypeOK'
  <2> DEFINE c == [app[w] EXCEPT !.pc = "check"]
  <2>1. app[w].pc # "idle" /\ app[w].req \in Applied /\ app[w] \in Caller
    BY <1>2 DEF ApplyLock, TypeOK, CallersOK, Caller
  <2>2. c \in Caller /\ c.req \in Applied /\ c.pc # "idle"
    BY <1>2, <2>1, RequestsApart DEF Caller
  <2>3. app' = [app EXCEPT ![w] = c]
    BY <1>2 DEF ApplyLock
  <2>4. CallersOK'
    <3> HIDE DEF c
    <3> QED BY <2>2, <2>3, CallerStep DEF TypeOK
  <2> QED
    BY <1>2, <2>1, <2>4 DEF ApplyLock, TypeOK, EraserOK, Caller
<1>3. ASSUME NEW w \in Appliers, ApplyCheck(w) PROVE TypeOK'
  <2>1. app[w].req \in Applied /\ app[w].pc = "check" /\ app[w] \in Caller
    BY <1>3 DEF ApplyCheck, TypeOK, CallersOK, Caller
  <2>2. ASSUME NEW C \in SUBSET Memos PROVE Rejected(C) \in Event
    BY DEF Rejected, Event
  <2>3. app[w].cards \in SUBSET Memos
    BY DEF TypeOK, CallersOK, Caller
  <2>4. \/ ledger' = ledger
        \/ \E C \in SUBSET Memos : ledger' = [ledger EXCEPT ![app[w].req] = Rejected(C)]
    BY <1>3, <2>3 DEF ApplyCheck
  <2>5. ledger' \in [Requests -> Event \cup {Nil}]
    BY <2>1, <2>2, <2>4 DEF TypeOK
  <2>6. \E c \in Caller :
          /\ app' = [app EXCEPT ![w] = c]
          /\ IF c.pc = "idle" THEN c = Resting ELSE c.req \in Applied
    <3>1. Resting \in Caller /\ Resting.pc = "idle"
      BY DEF Resting, Caller
    <3>2. ASSUME NEW p \in {"append", "search"}
          PROVE  LET c == [app[w] EXCEPT !.pc = p] IN c \in Caller /\ c.pc = p /\ c.req \in Applied
      BY <2>1 DEF Caller
    <3> QED
      BY <1>3, <3>1, <3>2 DEF ApplyCheck
  <2>7. CallersOK'
    BY <2>6, CallerStep DEF TypeOK
  <2> QED
    BY <1>3, <2>5, <2>7 DEF ApplyCheck, TypeOK, EraserOK
<1>4. ASSUME NEW w \in Appliers, NEW C \in Citations \cup {{}}, ApplySearch(w, C) PROVE TypeOK'
  <2> DEFINE c == [app[w] EXCEPT !.pc = "register", !.cards = C]
  <2>1. app[w].pc # "idle" /\ app[w].req \in Applied /\ app[w] \in Caller
    BY <1>4 DEF ApplySearch, TypeOK, CallersOK, Caller
  <2>2. c \in Caller /\ c.req \in Applied /\ c.pc # "idle"
    BY <1>4, <2>1, RequestsApart DEF Caller
  <2>3. app' = [app EXCEPT ![w] = c]
    BY <1>4 DEF ApplySearch
  <2>4. CallersOK'
    <3> HIDE DEF c
    <3> QED BY <2>2, <2>3, CallerStep DEF TypeOK
  <2> QED
    BY <1>4, <2>1, <2>4 DEF ApplySearch, TypeOK, EraserOK, Caller
<1>5. ASSUME NEW w \in Appliers, ApplyRegister(w) PROVE TypeOK'
  <2> DEFINE c == [app[w] EXCEPT !.pc = "wait", !.fresh = TRUE]
  <2>1. app[w].pc # "idle" /\ app[w].req \in Applied /\ app[w] \in Caller
    BY <1>5 DEF ApplyRegister, TypeOK, CallersOK, Caller
  <2>2. c \in Caller /\ c.req \in Applied /\ c.pc # "idle"
    BY <1>5, <2>1, RequestsApart DEF Caller
  <2>3. app' = [app EXCEPT ![w] = c]
    BY <1>5 DEF ApplyRegister
  <2>4. CallersOK'
    <3> HIDE DEF c
    <3> QED BY <2>2, <2>3, CallerStep DEF TypeOK
  <2> QED
    BY <1>5, <2>1, <2>4 DEF ApplyRegister, TypeOK, EraserOK, Caller
<1>6. ASSUME NEW w \in Appliers, ApplyAppend(w) PROVE TypeOK'
  BY <1>6, RequestsApart, NilApart, Bounds DEF ApplyAppend, TypeOK, CallersOK, Caller, EraserOK, Resting, Asserted, Retracted, Event, Requests
<1>7. ASSUME NEW w \in Appliers, ApplyFail(w) PROVE TypeOK'
  <2>1. app[w].req \in Applied
    BY <1>7 DEF ApplyFail, TypeOK, CallersOK
  <2>2. ASSUME NEW C \in SUBSET Memos PROVE Rejected(C) \in Event
    BY DEF Rejected, Event
  <2>3. app[w].cards \in SUBSET Memos
    BY DEF TypeOK, CallersOK, Caller
  <2>4. \/ ledger' = ledger
        \/ \E C \in SUBSET Memos : ledger' = [ledger EXCEPT ![app[w].req] = Rejected(C)]
    BY <1>7, <2>3 DEF ApplyFail
  <2>5. ledger' \in [Requests -> Event \cup {Nil}]
    BY <2>1, <2>2, <2>4 DEF TypeOK
  <2>6. Resting \in Caller /\ Resting.pc = "idle"
    BY DEF Resting, Caller
  <2>7. CallersOK'
    BY <1>7, <2>6, CallerStep DEF ApplyFail, TypeOK
  <2> QED
    BY <1>7, <2>5, <2>7, Bounds DEF ApplyFail, TypeOK, EraserOK
<1>8. ASSUME NEW w \in Reconcilers, ReconcileRead(w) PROVE TypeOK'
  BY <1>8, RequestsApart, NilApart, Bounds DEF ReconcileRead, TypeOK, CallersOK, EraserOK, Rested, StillServed, Recorded
<1>9. ASSUME NEW w \in Reconcilers, ReconcileKnown(w) PROVE TypeOK'
  BY <1>9, RequestsApart, NilApart, Bounds DEF ReconcileKnown, TypeOK, CallersOK, EraserOK, Rested, StillServed, Recorded
<1>10. ASSUME NEW w \in Reconcilers, ReconcileHold(w) PROVE TypeOK'
  BY <1>10, RequestsApart, NilApart, Bounds DEF ReconcileHold, TypeOK, CallersOK, EraserOK, Rested, StillServed, Recorded
<1>11. ASSUME NEW w \in Reconcilers, ReconcileRecord(w) PROVE TypeOK'
  BY <1>11, RequestsApart DEF ReconcileRecord, TypeOK, CallersOK, EraserOK, Asserted, Retracted, Event, Requests, Rested
<1>12. ASSUME NEW w \in Reconcilers, ReconcileFail(w) PROVE TypeOK'
  BY <1>12, RequestsApart, NilApart, Bounds DEF ReconcileFail, TypeOK, CallersOK, EraserOK, Rested, StillServed, Recorded
<1>13. ASSUME NEW m \in Memos, Index(m) PROVE TypeOK'
  BY <1>13, RequestsApart, NilApart, Bounds DEF Index, TypeOK, CallersOK, EraserOK, Eraser
<1>14. ASSUME NEW m \in Memos, PruneCall(m) PROVE TypeOK'
  BY <1>14, RequestsApart, NilApart, Bounds DEF PruneCall, TypeOK, CallersOK, EraserOK, Eraser
<1>15. ASSUME PruneRecord PROVE TypeOK'
  BY <1>15, RequestsApart, NilApart, Bounds DEF PruneRecord, TypeOK, CallersOK, EraserOK, Eraser
<1>16. ASSUME PruneDelete PROVE TypeOK'
  BY <1>16, RequestsApart, NilApart, Bounds DEF PruneDelete, TypeOK, CallersOK, EraserOK, Eraser
<1>17. ASSUME PruneFail PROVE TypeOK'
  BY <1>17, RequestsApart, NilApart, Bounds DEF PruneFail, TypeOK, CallersOK, EraserOK, Eraser
<1>18. ASSUME NEW N \in SUBSET Memos, ForgetCall(N) PROVE TypeOK'
  <2>1. era' = [pc |-> "wait", named |-> N, erased |-> {}, chunks |-> {}, known |-> {},
                kept |-> {}, seen |-> {}]
    BY <1>18 DEF ForgetCall, Quiet
  <2> QED
    BY <1>18, <2>1, Bounds DEF ForgetCall, TypeOK, CallersOK, EraserOK, Eraser
<1>19. ASSUME ForgetLock PROVE TypeOK'
  BY <1>19, RequestsApart, NilApart, Bounds DEF ForgetLock, TypeOK, CallersOK, EraserOK, Eraser
<1>20. ASSUME ForgetPrepare PROVE TypeOK'
  <2>1. CardsOf(Recorded) \subseteq Memos
    BY DEF TypeOK, CardsOf, Recorded, Event
  <2> DEFINE before == era.erased \cup (era.named \cap forgotten)
             decided == Unsettled(before) \cap era.named
  <2>2. era' = [pc |-> "delete", named |-> era.named, erased |-> era.erased,
                chunks |-> before \cup decided, known |-> CardsOf(Recorded) \cup cards,
                kept |-> Unsettled(before) \ decided, seen |-> era.seen]
    BY <1>20 DEF ForgetPrepare, TypeOK, EraserOK, Eraser
  <2>3. Unsettled(before) \subseteq Memos
    BY <2>1 DEF Unsettled
  <2>4. /\ before \in SUBSET Memos /\ decided \in SUBSET Memos
        /\ Unsettled(before) \ decided \in SUBSET Memos
        /\ CardsOf(Recorded) \cup cards \in SUBSET Memos
    BY <2>1, <2>3 DEF TypeOK, EraserOK, Eraser
  <2>5. EraserOK'
    <3> HIDE DEF before, decided
    <3> QED BY <2>2, <2>4 DEF TypeOK, EraserOK, Eraser
  <2>6. forgotten' \subseteq Memos /\ pruned' \subseteq Memos /\ asked' \subseteq Memos
    BY <1>20, <2>4 DEF ForgetPrepare, TypeOK, EraserOK, Eraser
  <2> QED
    BY <1>20, <2>5, <2>6 DEF ForgetPrepare, TypeOK, CallersOK
<1>21. ASSUME ForgetDelete PROVE TypeOK'
  BY <1>21, RequestsApart, NilApart, Bounds DEF ForgetDelete, TypeOK, CallersOK, EraserOK, Eraser
<1>22. ASSUME ForgetLook PROVE TypeOK'
  BY <1>22, RequestsApart, NilApart, Bounds DEF ForgetLook, TypeOK, CallersOK, EraserOK, Eraser
<1>23. ASSUME ForgetRetract PROVE TypeOK'
  <2>1. ASSUME NEW r \in Requests PROVE ledger'[r] \in Event \cup {Nil}
    <3>1. CASE r \in Live(Claim[r]) /\ Unsupported(Claim[r])
      <4>1. ledger[r] \in Event
        BY <3>1 DEF TypeOK, Live, Holders, Recorded
      <4>2. ledger'[r] = [ledger[r] EXCEPT !.retracted = TRUE]
        BY <1>23, <3>1 DEF ForgetRetract
      <4> QED
        BY <4>1, <4>2 DEF Event
    <3>2. CASE ~(r \in Live(Claim[r]) /\ Unsupported(Claim[r]))
      BY <1>23, <3>2 DEF ForgetRetract, TypeOK
    <3> QED
      BY <3>1, <3>2
  <2>2. ledger' \in [Requests -> Event \cup {Nil}]
    BY <1>23, <2>1 DEF ForgetRetract
  <2> QED
    BY <1>23, <2>2 DEF ForgetRetract, TypeOK, CallersOK, EraserOK, Eraser
<1>24. ASSUME ForgetRedact PROVE TypeOK'
  <2>1. ASSUME NEW r \in Requests PROVE ledger'[r] \in Event \cup {Nil}
    <3>1. CASE r \in Recorded /\ ~ErasedFact(Claim[r])
      <4>1. ledger[r] \in Event
        BY <3>1 DEF TypeOK, Recorded
      <4>2. ledger'[r] = [ledger[r] EXCEPT !.cards = ledger[r].cards \ ErasedNow,
                                           !.marks = ledger[r].marks \cup (ledger[r].cards \cap ErasedNow)]
        BY <1>24, <3>1, <4>1 DEF ForgetRedact, Event
      <4>3. ledger[r].cards \cap ErasedNow \subseteq Memos
        BY <4>1 DEF Event
      <4> QED
        BY <4>1, <4>2, <4>3 DEF Event
    <3>2. CASE ~(r \in Recorded /\ ~ErasedFact(Claim[r]))
      BY <1>24, <3>2 DEF ForgetRedact
    <3> QED
      BY <3>1, <3>2
  <2>2. ledger' \in [Requests -> Event \cup {Nil}]
    BY <1>24, <2>1 DEF ForgetRedact
  <2> QED
    BY <1>24, <2>2 DEF ForgetRedact, TypeOK, CallersOK, EraserOK, Eraser, Quiet
<1>25. ASSUME ForgetFail PROVE TypeOK'
  BY <1>25, RequestsApart, NilApart, Bounds DEF ForgetFail, TypeOK, CallersOK, EraserOK, Eraser, Quiet
<1>26. CASE UNCHANGED vars
  BY <1>26 DEF vars, TypeOK, CallersOK, EraserOK
<1> QED
  BY <1>1, <1>2, <1>3, <1>4, <1>5, <1>6, <1>7, <1>8, <1>9, <1>10, <1>11, <1>12, <1>13, <1>14, <1>15,
     <1>16, <1>17, <1>18, <1>19, <1>20, <1>21, <1>22, <1>23, <1>24, <1>25, <1>26 DEF Next, ApplyStep, ReconcileStep, PruneStep, ForgetStep

\* Types hold in every state of every behaviour: a handler leaves each table and
\* each call in its shape, and a call that ended or failed leaves nothing of
\* itself behind (the except clauses of forget_memory and apply_fact).
THEOREM FactTypes == Spec => []TypeOK
BY InitTypes, StepTypes, PTL DEF Spec

-----------------------------------------------------------------------------
(* The erasure lock.                                                       *)

\* Nobody shares the lock with a forget at work.
LockInv == Holding => NobodyShares

LEMMA StepLock ==
    ASSUME TypeOK, LockInv, [Next]_vars
    PROVE  LockInv'
<1>1. ASSUME NEW w \in Appliers, NEW r \in Applied, NEW C \in Citations, ApplyCall(w, r, C) PROVE LockInv'
  BY <1>1 DEF ApplyCall, TypeOK, CallersOK, Caller, EraserOK, Eraser, LockInv, Holding, NobodyShares
<1>2. ASSUME NEW w \in Appliers, ApplyLock(w) PROVE LockInv'
  BY <1>2 DEF ApplyLock, ShareFree, Rested, TypeOK, CallersOK, Caller, EraserOK, Eraser, LockInv, Holding, NobodyShares
<1>3. ASSUME NEW w \in Appliers, ApplyCheck(w) PROVE LockInv'
  BY <1>3 DEF ApplyCheck, Resting, TypeOK, CallersOK, Caller, EraserOK, Eraser, LockInv, Holding, NobodyShares
<1>4. ASSUME NEW w \in Appliers, NEW C \in Citations \cup {{}}, ApplySearch(w, C) PROVE LockInv'
  BY <1>4 DEF ApplySearch, TypeOK, CallersOK, Caller, EraserOK, Eraser, LockInv, Holding, NobodyShares
<1>5. ASSUME NEW w \in Appliers, ApplyRegister(w) PROVE LockInv'
  BY <1>5 DEF ApplyRegister, TypeOK, CallersOK, Caller, EraserOK, Eraser, LockInv, Holding, NobodyShares
<1>6. ASSUME NEW w \in Appliers, ApplyAppend(w) PROVE LockInv'
  BY <1>6 DEF ApplyAppend, Resting, TypeOK, CallersOK, Caller, EraserOK, Eraser, LockInv, Holding, NobodyShares
<1>7. ASSUME NEW w \in Appliers, ApplyFail(w) PROVE LockInv'
  BY <1>7 DEF ApplyFail, Resting, TypeOK, CallersOK, Caller, EraserOK, Eraser, LockInv, Holding, NobodyShares
<1>8. ASSUME NEW w \in Reconcilers, ReconcileRead(w) PROVE LockInv'
  BY <1>8 DEF ReconcileRead, Rested, TypeOK, CallersOK, Caller, EraserOK, Eraser, LockInv, Holding, NobodyShares
<1>9. ASSUME NEW w \in Reconcilers, ReconcileKnown(w) PROVE LockInv'
  BY <1>9 DEF ReconcileKnown, Rested, TypeOK, CallersOK, Caller, EraserOK, Eraser, LockInv, Holding, NobodyShares
<1>10. ASSUME NEW w \in Reconcilers, ReconcileHold(w) PROVE LockInv'
  BY <1>10 DEF ReconcileHold, ShareFree, Rested, TypeOK, CallersOK, Caller, EraserOK, Eraser, LockInv, Holding, NobodyShares
<1>11. ASSUME NEW w \in Reconcilers, ReconcileRecord(w) PROVE LockInv'
  BY <1>11 DEF ReconcileRecord, Rested, TypeOK, CallersOK, Caller, EraserOK, Eraser, LockInv, Holding, NobodyShares
<1>12. ASSUME NEW w \in Reconcilers, ReconcileFail(w) PROVE LockInv'
  BY <1>12 DEF ReconcileFail, Rested, TypeOK, CallersOK, Caller, EraserOK, Eraser, LockInv, Holding, NobodyShares
<1>13. ASSUME NEW m \in Memos, Index(m) PROVE LockInv'
  BY <1>13 DEF Index, TypeOK, CallersOK, Caller, EraserOK, Eraser, LockInv, Holding, NobodyShares
<1>14. ASSUME NEW m \in Memos, PruneCall(m) PROVE LockInv'
  BY <1>14 DEF PruneCall, TypeOK, CallersOK, Caller, EraserOK, Eraser, LockInv, Holding, NobodyShares
<1>15. ASSUME PruneRecord PROVE LockInv'
  BY <1>15 DEF PruneRecord, ShareFree, Rested, TypeOK, CallersOK, Caller, EraserOK, Eraser, LockInv, Holding, NobodyShares
<1>16. ASSUME PruneDelete PROVE LockInv'
  BY <1>16 DEF PruneDelete, TypeOK, CallersOK, Caller, EraserOK, Eraser, LockInv, Holding, NobodyShares
<1>17. ASSUME PruneFail PROVE LockInv'
  BY <1>17 DEF PruneFail, TypeOK, CallersOK, Caller, EraserOK, Eraser, LockInv, Holding, NobodyShares
<1>18. ASSUME NEW N \in SUBSET Memos, ForgetCall(N) PROVE LockInv'
  BY <1>18 DEF ForgetCall, Quiet, TypeOK, CallersOK, Caller, EraserOK, Eraser, LockInv, Holding, NobodyShares
<1>19. ASSUME ForgetLock PROVE LockInv'
  BY <1>19 DEF ForgetLock, TypeOK, CallersOK, Caller, EraserOK, Eraser, LockInv, Holding, NobodyShares
<1>20. ASSUME ForgetPrepare PROVE LockInv'
  BY <1>20 DEF ForgetPrepare, TypeOK, CallersOK, Caller, EraserOK, Eraser, LockInv, Holding, NobodyShares
<1>21. ASSUME ForgetDelete PROVE LockInv'
  BY <1>21 DEF ForgetDelete, TypeOK, CallersOK, Caller, EraserOK, Eraser, LockInv, Holding, NobodyShares
<1>22. ASSUME ForgetLook PROVE LockInv'
  BY <1>22 DEF ForgetLook, TypeOK, CallersOK, Caller, EraserOK, Eraser, LockInv, Holding, NobodyShares
<1>23. ASSUME ForgetRetract PROVE LockInv'
  BY <1>23 DEF ForgetRetract, TypeOK, CallersOK, Caller, EraserOK, Eraser, LockInv, Holding, NobodyShares
<1>24. ASSUME ForgetRedact PROVE LockInv'
  BY <1>24 DEF ForgetRedact, Quiet, TypeOK, CallersOK, Caller, EraserOK, Eraser, LockInv, Holding, NobodyShares
<1>25. ASSUME ForgetFail PROVE LockInv'
  BY <1>25 DEF ForgetFail, Quiet, TypeOK, CallersOK, Caller, EraserOK, Eraser, LockInv, Holding, NobodyShares
<1>26. CASE UNCHANGED vars
  BY <1>26 DEF vars, TypeOK, CallersOK, Caller, EraserOK, Eraser, LockInv, Holding, NobodyShares
<1> QED
  BY <1>1, <1>2, <1>3, <1>4, <1>5, <1>6, <1>7, <1>8, <1>9, <1>10, <1>11, <1>12, <1>13, <1>14, <1>15,
     <1>16, <1>17, <1>18, <1>19, <1>20, <1>21, <1>22, <1>23, <1>24, <1>25, <1>26 DEF Next, ApplyStep, ReconcileStep, PruneStep, ForgetStep

-----------------------------------------------------------------------------
(* What the ledger is given.                                               *)

\* Nothing reported erased is in the store, nor in what an application or a
\* reconcile has checked under the lock and will append, which is never nothing.
CheckedInv ==
    /\ done \cap rows = {}
    /\ \A w \in Appliers : app[w].pc = "append" => app[w].cards # {} /\ app[w].cards \cap done = {}
    /\ \A w \in Reconcilers : rec[w].pc = "record" => \A r \in rec[w].todo : Stater[r] \notin done

LEMMA StepChecked ==
    ASSUME TypeOK, LockInv, CheckedInv, [Next]_vars
    PROVE  CheckedInv'
<1>1. ASSUME NEW w \in Appliers, NEW r \in Applied, NEW C \in Citations, ApplyCall(w, r, C) PROVE CheckedInv'
  BY <1>1 DEF ApplyCall, TypeOK, CallersOK, Caller, CheckedInv
<1>2. ASSUME NEW w \in Appliers, ApplyLock(w) PROVE CheckedInv'
  BY <1>2 DEF ApplyLock, TypeOK, CallersOK, Caller, CheckedInv
<1>3. ASSUME NEW w \in Appliers, ApplyCheck(w) PROVE CheckedInv'
  BY <1>3 DEF ApplyCheck, Resting, Usable, TypeOK, CallersOK, Caller, CheckedInv
<1>4. ASSUME NEW w \in Appliers, NEW C \in Citations \cup {{}}, ApplySearch(w, C) PROVE CheckedInv'
  BY <1>4 DEF ApplySearch, TypeOK, CallersOK, Caller, CheckedInv
<1>5. ASSUME NEW w \in Appliers, ApplyRegister(w) PROVE CheckedInv'
  BY <1>5 DEF ApplyRegister, TypeOK, CallersOK, Caller, CheckedInv
<1>6. ASSUME NEW w \in Appliers, ApplyAppend(w) PROVE CheckedInv'
  BY <1>6 DEF ApplyAppend, Resting, TypeOK, CallersOK, Caller, CheckedInv
<1>7. ASSUME NEW w \in Appliers, ApplyFail(w) PROVE CheckedInv'
  BY <1>7 DEF ApplyFail, Resting, TypeOK, CallersOK, Caller, CheckedInv
<1>8. ASSUME NEW w \in Reconcilers, ReconcileRead(w) PROVE CheckedInv'
  BY <1>8 DEF ReconcileRead, Rested, TypeOK, CallersOK, Caller, CheckedInv
<1>9. ASSUME NEW w \in Reconcilers, ReconcileKnown(w) PROVE CheckedInv'
  BY <1>9 DEF ReconcileKnown, Rested, TypeOK, CallersOK, Caller, CheckedInv
<1>10. ASSUME NEW w \in Reconcilers, ReconcileHold(w) PROVE CheckedInv'
  BY <1>10 DEF ReconcileHold, Rested, StillServed, TypeOK, CallersOK, Caller, CheckedInv
<1>11. ASSUME NEW w \in Reconcilers, ReconcileRecord(w) PROVE CheckedInv'
  BY <1>11 DEF ReconcileRecord, Rested, TypeOK, CallersOK, Caller, CheckedInv
<1>12. ASSUME NEW w \in Reconcilers, ReconcileFail(w) PROVE CheckedInv'
  BY <1>12 DEF ReconcileFail, Rested, TypeOK, CallersOK, Caller, CheckedInv
<1>13. ASSUME NEW m \in Memos, Index(m) PROVE CheckedInv'
  BY <1>13 DEF Index, TypeOK, CallersOK, Caller, CheckedInv
<1>14. ASSUME NEW m \in Memos, PruneCall(m) PROVE CheckedInv'
  BY <1>14 DEF PruneCall, TypeOK, CallersOK, Caller, CheckedInv
<1>15. ASSUME PruneRecord PROVE CheckedInv'
  BY <1>15 DEF PruneRecord, TypeOK, CallersOK, Caller, CheckedInv
<1>16. ASSUME PruneDelete PROVE CheckedInv'
  BY <1>16 DEF PruneDelete, TypeOK, CallersOK, Caller, CheckedInv
<1>17. ASSUME PruneFail PROVE CheckedInv'
  BY <1>17 DEF PruneFail, TypeOK, CallersOK, Caller, CheckedInv
<1>18. ASSUME NEW N \in SUBSET Memos, ForgetCall(N) PROVE CheckedInv'
  BY <1>18 DEF ForgetCall, TypeOK, CallersOK, Caller, CheckedInv
<1>19. ASSUME ForgetLock PROVE CheckedInv'
  BY <1>19 DEF ForgetLock, TypeOK, CallersOK, Caller, CheckedInv
<1>20. ASSUME ForgetPrepare PROVE CheckedInv'
  BY <1>20 DEF ForgetPrepare, TypeOK, CallersOK, Caller, CheckedInv
<1>21. ASSUME ForgetDelete PROVE CheckedInv'
  BY <1>21 DEF ForgetDelete, TypeOK, CallersOK, Caller, CheckedInv
<1>22. ASSUME ForgetLook PROVE CheckedInv'
  BY <1>22 DEF ForgetLook, TypeOK, CallersOK, Caller, CheckedInv
<1>23. ASSUME ForgetRetract PROVE CheckedInv'
  BY <1>23 DEF ForgetRetract, TypeOK, CallersOK, Caller, CheckedInv
<1>24. ASSUME ForgetRedact PROVE CheckedInv'
  BY <1>24 DEF ForgetRedact, LockInv, Holding, NobodyShares, TypeOK, CallersOK, Caller, CheckedInv
<1>25. ASSUME ForgetFail PROVE CheckedInv'
  BY <1>25 DEF ForgetFail, TypeOK, CallersOK, Caller, CheckedInv
<1>26. CASE UNCHANGED vars
  BY <1>26 DEF vars, TypeOK, CallersOK, Caller, CheckedInv
<1> QED
  BY <1>1, <1>2, <1>3, <1>4, <1>5, <1>6, <1>7, <1>8, <1>9, <1>10, <1>11, <1>12, <1>13, <1>14, <1>15,
     <1>16, <1>17, <1>18, <1>19, <1>20, <1>21, <1>22, <1>23, <1>24, <1>25, <1>26 DEF Next, ApplyStep, ReconcileStep, PruneStep, ForgetStep

\* Outside a retraction and a redaction, an event changes only from nothing to a
\* new one that cites nothing reported erased, with no forget at work.
Added(r) ==
    /\ ledger[r] = Nil /\ ~Holding
    /\ \E C \in SUBSET Memos : /\ C \cap done = {}
                              /\ \/ C # {} /\ ledger'[r] = Asserted(Claim[r], C)
                                 \/ ledger'[r] = Rejected(C)

LEMMA LedgerStep ==
    ASSUME TypeOK, LockInv, CheckedInv, [Next]_vars, ~ForgetRetract, ~ForgetRedact
    PROVE  /\ done' \subseteq done
           /\ \A r \in Requests : ledger'[r] = ledger[r] \/ Added(r)
<1> DEFINE Goal == /\ done' \subseteq done
                   /\ \A r \in Requests : ledger'[r] = ledger[r] \/ Added(r)
<1>1. ASSUME NEW w \in Appliers, NEW r \in Applied, NEW C \in Citations, ApplyCall(w, r, C) PROVE Goal
  BY <1>1 DEF ApplyCall
<1>2. ASSUME NEW w \in Appliers, ApplyLock(w) PROVE Goal
  BY <1>2 DEF ApplyLock
<1>3. ASSUME NEW w \in Appliers, ApplyCheck(w) PROVE Goal
  <2>1. ~Holding /\ app[w].req \in Requests
    BY <1>3 DEF ApplyCheck, LockInv, NobodyShares, TypeOK, CallersOK, Requests
  <2>2. \/ ledger' = ledger
        \/ ledger[app[w].req] = Nil /\ ledger' = [ledger EXCEPT ![app[w].req] = Rejected({})]
    BY <1>3 DEF ApplyCheck
  <2> QED
    BY <1>3, <2>1, <2>2 DEF ApplyCheck, TypeOK, Added
<1>4. ASSUME NEW w \in Appliers, NEW C \in Citations \cup {{}}, ApplySearch(w, C) PROVE Goal
  BY <1>4 DEF ApplySearch
<1>5. ASSUME NEW w \in Appliers, ApplyRegister(w) PROVE Goal
  BY <1>5 DEF ApplyRegister
<1>6. ASSUME NEW w \in Appliers, ApplyAppend(w) PROVE Goal
  <2>1. ~Holding /\ app[w].req \in Requests /\ app[w].cards \in SUBSET Memos
    BY <1>6 DEF ApplyAppend, LockInv, NobodyShares, TypeOK, CallersOK, Caller, Requests
  <2> QED
    BY <1>6, <2>1 DEF ApplyAppend, TypeOK, CheckedInv, Added
<1>7. ASSUME NEW w \in Appliers, ApplyFail(w) PROVE Goal
  <2>1. CASE ledger' = ledger
    BY <1>7, <2>1 DEF ApplyFail
  <2>2. CASE ledger' # ledger
    <3>1. /\ app[w].pc = "append" /\ ledger[app[w].req] = Nil
          /\ ledger' = [ledger EXCEPT ![app[w].req] = Rejected(app[w].cards)]
      BY <1>7, <2>2 DEF ApplyFail
    <3>2. ~Holding /\ app[w].req \in Requests /\ app[w].cards \in SUBSET Memos
      BY <3>1 DEF LockInv, NobodyShares, TypeOK, CallersOK, Caller, Requests
    <3> QED
      BY <1>7, <3>1, <3>2 DEF ApplyFail, TypeOK, CheckedInv, Added
  <2> QED
    BY <2>1, <2>2
<1>8. ASSUME NEW w \in Reconcilers, ReconcileRead(w) PROVE Goal
  BY <1>8 DEF ReconcileRead
<1>9. ASSUME NEW w \in Reconcilers, ReconcileKnown(w) PROVE Goal
  BY <1>9 DEF ReconcileKnown
<1>10. ASSUME NEW w \in Reconcilers, ReconcileHold(w) PROVE Goal
  BY <1>10 DEF ReconcileHold
<1>11. ASSUME NEW w \in Reconcilers, ReconcileRecord(w) PROVE Goal
  <2>1. PICK q \in rec[w].todo : ledger' = IF ledger[q] = Nil
                       THEN [ledger EXCEPT ![q] = Asserted(Claim[q], {Stater[q]})] ELSE ledger
    BY <1>11 DEF ReconcileRecord
  <2>2. ~Holding /\ q \in Requests /\ {Stater[q]} \in SUBSET Memos /\ Stater[q] \notin done
    BY <1>11, RequestsApart DEF ReconcileRecord, LockInv, NobodyShares, TypeOK, CheckedInv, Requests
  <2>3. {Stater[q]} # {} /\ {Stater[q]} \cap done = {}
    BY <2>2
  <2> QED
    BY <1>11, <2>1, <2>2, <2>3 DEF ReconcileRecord, TypeOK, Added
<1>12. ASSUME NEW w \in Reconcilers, ReconcileFail(w) PROVE Goal
  BY <1>12 DEF ReconcileFail
<1>13. ASSUME NEW m \in Memos, Index(m) PROVE Goal
  BY <1>13 DEF Index
<1>14. ASSUME NEW m \in Memos, PruneCall(m) PROVE Goal
  BY <1>14 DEF PruneCall
<1>15. ASSUME PruneRecord PROVE Goal
  BY <1>15 DEF PruneRecord
<1>16. ASSUME PruneDelete PROVE Goal
  BY <1>16 DEF PruneDelete
<1>17. ASSUME PruneFail PROVE Goal
  BY <1>17 DEF PruneFail
<1>18. ASSUME NEW N \in SUBSET Memos, ForgetCall(N) PROVE Goal
  BY <1>18 DEF ForgetCall
<1>19. ASSUME ForgetLock PROVE Goal
  BY <1>19 DEF ForgetLock
<1>20. ASSUME ForgetPrepare PROVE Goal
  BY <1>20 DEF ForgetPrepare
<1>21. ASSUME ForgetDelete PROVE Goal
  BY <1>21 DEF ForgetDelete
<1>22. ASSUME ForgetLook PROVE Goal
  BY <1>22 DEF ForgetLook
<1>23. ASSUME ForgetFail PROVE Goal
  BY <1>23 DEF ForgetFail
<1>24. CASE UNCHANGED vars
  BY <1>24 DEF vars
<1> QED
  BY <1>1, <1>2, <1>3, <1>4, <1>5, <1>6, <1>7, <1>8, <1>9, <1>10, <1>11, <1>12, <1>13, <1>14, <1>15,
     <1>16, <1>17, <1>18, <1>19, <1>20, <1>21, <1>22, <1>23, <1>24 DEF Next, ApplyStep, ReconcileStep, PruneStep, ForgetStep

-----------------------------------------------------------------------------
(* While a forget is at work.                                              *)

\* Every step is one of the forget's, or leaves it and, while it holds the lock,
\* the ledger and the chunk records alone, and takes nothing from the store.
Frame ==
    /\ era' = era
    /\ Holding => /\ \A r \in Requests : ledger'[r] = ledger[r]
                  /\ pruned' = pruned
                  /\ rows \subseteq rows'
                  /\ asked \cup rows \subseteq asked' \cup rows'

LEMMA FrameStep ==
    ASSUME TypeOK, LockInv, CheckedInv, [Next]_vars
    PROVE  \/ Frame
           \/ ForgetLock \/ ForgetPrepare \/ ForgetDelete
           \/ ForgetLook \/ ForgetRetract \/ ForgetRedact \/ ForgetFail
           \/ \E N \in SUBSET Memos : ForgetCall(N)
<1> USE DEF Frame
<1>1. ASSUME NEW w \in Appliers, NEW r \in Applied, NEW C \in Citations, ApplyCall(w, r, C) PROVE Frame
  BY <1>1 DEF ApplyCall
<1>2. ASSUME NEW w \in Appliers, ApplyLock(w) PROVE Frame
  BY <1>2 DEF ApplyLock
<1>3. ASSUME NEW w \in Appliers, ApplyCheck(w) PROVE Frame
  BY <1>3 DEF ApplyCheck, LockInv, NobodyShares
<1>4. ASSUME NEW w \in Appliers, NEW C \in Citations \cup {{}}, ApplySearch(w, C) PROVE Frame
  BY <1>4 DEF ApplySearch
<1>5. ASSUME NEW w \in Appliers, ApplyRegister(w) PROVE Frame
  BY <1>5 DEF ApplyRegister
<1>6. ASSUME NEW w \in Appliers, ApplyAppend(w) PROVE Frame
  BY <1>6 DEF ApplyAppend, LockInv, NobodyShares
<1>7. ASSUME NEW w \in Appliers, ApplyFail(w) PROVE Frame
  BY <1>7 DEF ApplyFail, LockInv, NobodyShares
<1>8. ASSUME NEW w \in Reconcilers, ReconcileRead(w) PROVE Frame
  BY <1>8 DEF ReconcileRead
<1>9. ASSUME NEW w \in Reconcilers, ReconcileKnown(w) PROVE Frame
  BY <1>9 DEF ReconcileKnown
<1>10. ASSUME NEW w \in Reconcilers, ReconcileHold(w) PROVE Frame
  BY <1>10 DEF ReconcileHold
<1>11. ASSUME NEW w \in Reconcilers, ReconcileRecord(w) PROVE Frame
  BY <1>11 DEF ReconcileRecord, LockInv, NobodyShares
<1>12. ASSUME NEW w \in Reconcilers, ReconcileFail(w) PROVE Frame
  BY <1>12 DEF ReconcileFail
<1>13. ASSUME NEW m \in Memos, Index(m) PROVE Frame
  BY <1>13 DEF Index
<1>14. ASSUME NEW m \in Memos, PruneCall(m) PROVE Frame
  BY <1>14 DEF PruneCall
<1>15. ASSUME PruneRecord PROVE Frame
  BY <1>15 DEF PruneRecord, ShareFree, Holding
<1>16. ASSUME PruneDelete PROVE Frame
  BY <1>16 DEF PruneDelete, LockInv, NobodyShares
<1>17. ASSUME PruneFail PROVE Frame
  BY <1>17 DEF PruneFail
<1>18. CASE UNCHANGED vars
  BY <1>18 DEF vars
<1> QED
  BY <1>1, <1>2, <1>3, <1>4, <1>5, <1>6, <1>7, <1>8, <1>9, <1>10, <1>11, <1>12, <1>13, <1>14, <1>15,
     <1>16, <1>17, <1>18 DEF Next, ApplyStep, ReconcileStep, PruneStep, ForgetStep

Past == {"delete", "look", "retract", "redact"}

\* What the plan of a forget at work knows: it judges every cited card, what it
\* erases was named, and what was only pruned is erased or kept.
PlanInv ==
    /\ era.erased \subseteq era.named
    /\ era.pc \in Past =>
         /\ era.chunks \subseteq era.named
         /\ era.kept \cap era.named = {}
         /\ era.named \subseteq asked \cup rows
         /\ \A r \in Requests : ledger[r] # Nil =>
              \A m \in ledger[r].cards :
                 m \in era.known /\ (m \in pruned => m \in era.chunks \cup era.kept)
    /\ era.pc \in {"retract", "redact"} => era.seen \subseteq rows

LEMMA StepPlan ==
    ASSUME TypeOK, LockInv, CheckedInv, PlanInv, [Next]_vars
    PROVE  PlanInv'
<1> USE DEF Past
<1>1. CASE Frame
  BY <1>1 DEF Frame, PlanInv, Holding
<1>2. ASSUME NEW N \in SUBSET Memos, ForgetCall(N) PROVE PlanInv'
  BY <1>2 DEF ForgetCall, Quiet, PlanInv
<1>3. CASE ForgetLock
  BY <1>3 DEF ForgetLock, PlanInv, TypeOK, EraserOK, Eraser
<1>4. CASE ForgetPrepare
  <2> DEFINE before == era.erased \cup (era.named \cap forgotten)
             decided == Unsettled(before) \cap era.named
  <2>1. /\ era'.pc = "delete" /\ era'.named = era.named /\ era'.erased = era.erased
        /\ era'.chunks = before \cup decided /\ era'.known = CardsOf(Recorded) \cup cards
        /\ era'.kept = Unsettled(before) \ decided
    BY <1>4 DEF ForgetPrepare, TypeOK, EraserOK, Eraser
  <2>2. asked' = asked \cup era.named /\ rows' = rows /\ ledger' = ledger /\ pruned' \subseteq pruned
    BY <1>4 DEF ForgetPrepare
  <2>3. ASSUME NEW r \in Requests, ledger[r] # Nil, NEW m \in ledger[r].cards
        PROVE  m \in CardsOf(Recorded)
    BY <2>3 DEF CardsOf, Recorded
  <2>4. ASSUME NEW r \in Requests, ledger[r] # Nil, NEW m \in ledger[r].cards, m \in pruned
        PROVE  m \in before \/ m \in Unsettled(before)
    BY <2>3, <2>4 DEF Unsettled
  <2>5. era.erased \subseteq era.named
    BY DEF PlanInv
  <2> HIDE DEF before, decided
  <2>6. before \subseteq era.named /\ decided \subseteq era.named /\ (Unsettled(before) \ decided) \cap era.named = {}
    BY <2>5 DEF before, decided
  <2> QED
    BY <2>1, <2>2, <2>3, <2>4, <2>5, <2>6 DEF PlanInv
<1>5. CASE ForgetDelete
  BY <1>5 DEF ForgetDelete, PlanInv, TypeOK, EraserOK, Eraser
<1>6. CASE ForgetLook
  BY <1>6 DEF ForgetLook, PlanInv, TypeOK, EraserOK, Eraser
<1>7. CASE ForgetRetract
  <2>1. ASSUME NEW r \in Requests, ledger'[r] # Nil
        PROVE  ledger[r] # Nil /\ ledger'[r].cards = ledger[r].cards
    <3>1. CASE r \in Live(Claim[r]) /\ Unsupported(Claim[r])
      <4>1. ledger[r] # Nil /\ ledger[r] \in Event
        BY <3>1 DEF Live, Holders, Recorded, TypeOK
      <4>2. ledger'[r] = [ledger[r] EXCEPT !.retracted = TRUE]
        BY <1>7, <3>1 DEF ForgetRetract
      <4> QED
        BY <4>1, <4>2 DEF Event
    <3>2. CASE ~(r \in Live(Claim[r]) /\ Unsupported(Claim[r]))
      BY <1>7, <2>1, <3>2 DEF ForgetRetract
    <3> QED
      BY <3>1, <3>2
  <2>2. /\ rows' = rows /\ asked' = asked /\ pruned' = pruned /\ era.pc = "retract"
        /\ era' = [era EXCEPT !.pc = "redact"]
    BY <1>7 DEF ForgetRetract
  <2> QED
    BY <2>1, <2>2 DEF PlanInv, TypeOK, EraserOK, Eraser
<1>8. CASE ForgetRedact \/ ForgetFail
  <2>1. era' = Quiet
    BY <1>8 DEF ForgetRedact, ForgetFail
  <2> QED
    BY <2>1 DEF Quiet, PlanInv
<1> QED
  BY <1>1, <1>2, <1>3, <1>4, <1>5, <1>6, <1>7, <1>8, FrameStep

\* A memo is in the store, or was pruned, or was named in a forget.
GoneIsRecorded ==
    /\ Memos \subseteq rows \cup pruned \cup asked
    /\ idx.pc = "delete" => idx.memo \in pruned \cup asked

LEMMA StepGone ==
    ASSUME TypeOK, LockInv, PlanInv, GoneIsRecorded, [Next]_vars
    PROVE  GoneIsRecorded'
<1>1. ASSUME NEW w \in Appliers, NEW r \in Applied, NEW C \in Citations, ApplyCall(w, r, C) PROVE GoneIsRecorded'
  BY <1>1 DEF ApplyCall, GoneIsRecorded
<1>2. ASSUME NEW w \in Appliers, ApplyLock(w) PROVE GoneIsRecorded'
  BY <1>2 DEF ApplyLock, GoneIsRecorded
<1>3. ASSUME NEW w \in Appliers, ApplyCheck(w) PROVE GoneIsRecorded'
  BY <1>3 DEF ApplyCheck, GoneIsRecorded
<1>4. ASSUME NEW w \in Appliers, NEW C \in Citations \cup {{}}, ApplySearch(w, C) PROVE GoneIsRecorded'
  BY <1>4 DEF ApplySearch, GoneIsRecorded
<1>5. ASSUME NEW w \in Appliers, ApplyRegister(w) PROVE GoneIsRecorded'
  BY <1>5 DEF ApplyRegister, GoneIsRecorded
<1>6. ASSUME NEW w \in Appliers, ApplyAppend(w) PROVE GoneIsRecorded'
  BY <1>6 DEF ApplyAppend, GoneIsRecorded
<1>7. ASSUME NEW w \in Appliers, ApplyFail(w) PROVE GoneIsRecorded'
  BY <1>7 DEF ApplyFail, GoneIsRecorded
<1>8. ASSUME NEW w \in Reconcilers, ReconcileRead(w) PROVE GoneIsRecorded'
  BY <1>8 DEF ReconcileRead, GoneIsRecorded
<1>9. ASSUME NEW w \in Reconcilers, ReconcileKnown(w) PROVE GoneIsRecorded'
  BY <1>9 DEF ReconcileKnown, GoneIsRecorded
<1>10. ASSUME NEW w \in Reconcilers, ReconcileHold(w) PROVE GoneIsRecorded'
  BY <1>10 DEF ReconcileHold, GoneIsRecorded
<1>11. ASSUME NEW w \in Reconcilers, ReconcileRecord(w) PROVE GoneIsRecorded'
  BY <1>11 DEF ReconcileRecord, GoneIsRecorded
<1>12. ASSUME NEW w \in Reconcilers, ReconcileFail(w) PROVE GoneIsRecorded'
  BY <1>12 DEF ReconcileFail, GoneIsRecorded
<1>13. ASSUME NEW m \in Memos, Index(m) PROVE GoneIsRecorded'
  BY <1>13 DEF Index, GoneIsRecorded
<1>14. ASSUME NEW m \in Memos, PruneCall(m) PROVE GoneIsRecorded'
  BY <1>14 DEF PruneCall, GoneIsRecorded
<1>15. ASSUME PruneRecord PROVE GoneIsRecorded'
  BY <1>15 DEF PruneRecord, TypeOK, GoneIsRecorded
<1>16. ASSUME PruneDelete PROVE GoneIsRecorded'
  BY <1>16 DEF PruneDelete, TypeOK, GoneIsRecorded
<1>17. ASSUME PruneFail PROVE GoneIsRecorded'
  BY <1>17 DEF PruneFail, GoneIsRecorded
<1>18. ASSUME NEW N \in SUBSET Memos, ForgetCall(N) PROVE GoneIsRecorded'
  BY <1>18 DEF ForgetCall, GoneIsRecorded
<1>19. ASSUME ForgetLock PROVE GoneIsRecorded'
  BY <1>19 DEF ForgetLock, GoneIsRecorded
<1>20. ASSUME ForgetPrepare PROVE GoneIsRecorded'
  <2>1. idx.pc # "delete"
    BY <1>20 DEF ForgetPrepare, LockInv, Holding, NobodyShares
  <2> QED
    BY <1>20, <2>1 DEF ForgetPrepare, PlanInv, GoneIsRecorded
<1>21. ASSUME ForgetDelete PROVE GoneIsRecorded'
  BY <1>21 DEF ForgetDelete, GoneIsRecorded
<1>22. ASSUME ForgetLook PROVE GoneIsRecorded'
  BY <1>22 DEF ForgetLook, GoneIsRecorded
<1>23. ASSUME ForgetRetract PROVE GoneIsRecorded'
  BY <1>23 DEF ForgetRetract, GoneIsRecorded
<1>24. ASSUME ForgetRedact PROVE GoneIsRecorded'
  BY <1>24 DEF ForgetRedact, GoneIsRecorded
<1>25. ASSUME ForgetFail PROVE GoneIsRecorded'
  BY <1>25 DEF ForgetFail, GoneIsRecorded
<1>26. CASE UNCHANGED vars
  BY <1>26 DEF vars, GoneIsRecorded
<1> QED
  BY <1>1, <1>2, <1>3, <1>4, <1>5, <1>6, <1>7, <1>8, <1>9, <1>10, <1>11, <1>12, <1>13, <1>14, <1>15,
     <1>16, <1>17, <1>18, <1>19, <1>20, <1>21, <1>22, <1>23, <1>24, <1>25, <1>26 DEF Next, ApplyStep, ReconcileStep, PruneStep, ForgetStep

-----------------------------------------------------------------------------
(* The two safety properties.                                              *)

FactInv == TypeOK /\ LockInv /\ CheckedInv /\ PlanInv /\ GoneIsRecorded

LEMMA InitInv == Init => FactInv
<1> SUFFICES ASSUME Init PROVE FactInv
  OBVIOUS
<1>1. TypeOK
  BY InitTypes
<1>2. LockInv /\ CheckedInv
  BY DEF Init, LockInv, CheckedInv, Holding, NobodyShares, Resting, Rested, Quiet
<1>3. PlanInv /\ GoneIsRecorded
  BY DEF Init, PlanInv, GoneIsRecorded, Quiet, Past
<1> QED
  BY <1>1, <1>2, <1>3 DEF FactInv

LEMMA StepInv == FactInv /\ [Next]_vars => FactInv'
BY StepTypes, StepLock, StepChecked, StepPlan, StepGone DEF FactInv

LEMMA FactInvariant == Spec => []FactInv
BY InitInv, StepInv, PTL DEF Spec

\* Both halves of ErasedFactsStayErased, request by request.
NoneCited == \A r \in Requests : ledger[r] # Nil => ledger[r].cards \cap done = {}

Supported(f) ==
    (\E r \in Requests : ledger[r] # Nil /\ Claim[r] = f /\ ledger[r] # Rejected({}))
       => (\E r \in Requests : ledger[r] # Nil /\ Claim[r] = f /\ ledger[r].cards # {})

AllSupported == \A f \in Facts : Supported(f)

LEMMA ErasedPointwise == ErasedFactsStayErased <=> NoneCited /\ AllSupported
BY DEF ErasedFactsStayErased, NoneCited, AllSupported, Supported, CardsOf, Holders, Recorded

\* A redaction leaves a card of what it reports erased in no event.
LEMMA RedactCards ==
    ASSUME FactInv, ForgetRedact, NEW r \in Requests, ledger'[r] # Nil
    PROVE  /\ ledger[r] # Nil /\ ~ErasedFact(Claim[r])
           /\ ledger'[r].cards = ledger[r].cards \ ErasedNow
           /\ ledger'[r].marks = ledger[r].marks \cup (ledger[r].cards \cap ErasedNow)
           /\ ledger'[r].type = ledger[r].type /\ ledger'[r].retracted = ledger[r].retracted
<1>1. r \in Recorded /\ ~ErasedFact(Claim[r])
  BY DEF ForgetRedact
<1>2. ledger[r] # Nil /\ ledger[r] \in Event
  BY <1>1 DEF Recorded, FactInv, TypeOK
<1>3. ledger'[r] = [ledger[r] EXCEPT !.cards = ledger[r].cards \ ErasedNow,
                                     !.marks = ledger[r].marks \cup (ledger[r].cards \cap ErasedNow)]
  BY <1>1, <1>2 DEF ForgetRedact, Event
<1> QED
  BY <1>1, <1>2, <1>3 DEF Event

LEMMA RetractCards ==
    ASSUME FactInv, ForgetRetract, NEW r \in Requests
    PROVE  /\ (ledger'[r] = Nil) <=> (ledger[r] = Nil)
           /\ ledger[r] # Nil => /\ ledger'[r].cards = ledger[r].cards
                                 /\ ledger[r] = Rejected({}) => ledger'[r] = ledger[r]
<1>1. CASE r \in Live(Claim[r]) /\ Unsupported(Claim[r])
  <2>1. ledger[r] # Nil /\ ledger[r] \in Event
    BY <1>1 DEF Live, Holders, Recorded, FactInv, TypeOK
  <2>2. ledger'[r] = [ledger[r] EXCEPT !.retracted = TRUE]
    BY <1>1 DEF ForgetRetract
  <2>3. ledger[r].type = "asserted"
    BY <1>1 DEF Live
  <2>4. ledger[r] # Rejected({})
    BY <2>3 DEF Rejected
  <2> QED
    BY <2>1, <2>2, <2>4, NilApart DEF Event
<1>2. CASE ~(r \in Live(Claim[r]) /\ Unsupported(Claim[r]))
  BY <1>2 DEF ForgetRetract
<1> QED
  BY <1>1, <1>2

\* An added event cites something or is a refusal, and nothing reported erased.
LEMMA AddedCards ==
    ASSUME NEW r \in Requests, Added(r)
    PROVE  /\ ledger'[r].cards \cap done = {}
           /\ ledger'[r].cards # {} \/ ledger'[r] = Rejected({})
<1>1. PICK C \in SUBSET Memos : /\ C \cap done = {}
                               /\ \/ C # {} /\ ledger'[r] = Asserted(Claim[r], C)
                                  \/ ledger'[r] = Rejected(C)
  BY DEF Added
<1>2. Asserted(Claim[r], C).cards = C /\ Rejected(C).cards = C
  BY DEF Asserted, Rejected
<1> QED
  BY <1>1, <1>2

LEMMA StepErased ==
    ASSUME FactInv, ErasedFactsStayErased, [Next]_vars
    PROVE  ErasedFactsStayErased'
<1> USE DEF FactInv
<1>0. NoneCited /\ \A f \in Facts : Supported(f)
  BY ErasedPointwise DEF AllSupported
<1>p. NoneCited' /\ AllSupported' => ErasedFactsStayErased'
  BY ErasedPointwise, PTL
<1>1. CASE ~ForgetRetract /\ ~ForgetRedact
  <2>1. NoneCited'
    BY <1>0, <1>1, LedgerStep, AddedCards DEF NoneCited
  <2>2. ASSUME NEW f \in Facts PROVE Supported(f)'
    <3>1. ASSUME NEW r \in Requests, ledger[r] # Nil PROVE ledger'[r] = ledger[r]
      BY <1>1, <3>1, LedgerStep DEF Added
    <3>2. ASSUME NEW r \in Requests, ledger'[r] # Nil, ledger'[r] # Rejected({}), ledger'[r] # ledger[r]
          PROVE  ledger'[r].cards # {}
      BY <1>1, <3>2, LedgerStep, AddedCards
    <3> QED
      BY <1>0, <3>1, <3>2 DEF Supported
  <2> QED
    BY <1>p, <2>1, <2>2 DEF AllSupported
<1>2. CASE ForgetRetract
  <2>1. done' = done
    BY <1>2 DEF ForgetRetract
  <2> QED
    BY <1>0, <1>2, <1>p, <2>1, RetractCards DEF NoneCited, AllSupported, Supported
<1>3. CASE ForgetRedact
  <2>1. done' = done \cup (era.named \ rows) /\ era.pc = "redact"
    BY <1>3 DEF ForgetRedact
  <2>2. ASSUME NEW r \in Requests, ledger'[r] # Nil, NEW m \in ledger'[r].cards, m \in era.named \ rows
        PROVE  FALSE
    <3>1. m \in ledger[r].cards /\ m \notin ErasedNow /\ ledger[r] # Nil
      BY <1>3, <2>2, RedactCards
    <3>2. m \in Memos
      BY <3>1 DEF TypeOK, Event
    <3>3. m \in era.known /\ m \notin era.kept /\ m \notin era.seen
      BY <2>1, <2>2, <3>1 DEF PlanInv, Past
    <3> QED
      BY <2>2, <3>1, <3>2, <3>3 DEF ErasedNow
  <2>3. NoneCited'
    BY <1>0, <1>3, <2>1, <2>2, RedactCards DEF NoneCited
  <2>4. ASSUME NEW f \in Facts, NEW r \in Requests, ledger'[r] # Nil, Claim[r] = f, ledger'[r] # Rejected({})
        PROVE  \E q \in Requests : ledger'[q] # Nil /\ Claim[q] = f /\ ledger'[q].cards # {}
    <3>1. ~ErasedFact(f) /\ ledger[r] # Nil
      BY <1>3, <2>4, RedactCards
    <3>2. ASSUME NEW q \in Requests, ledger[q] # Nil, Claim[q] = f
          PROVE  /\ ledger'[q] # Nil /\ ledger'[q].cards = ledger[q].cards \ ErasedNow
                 /\ ledger[q] = Rejected({}) => ledger'[q] = ledger[q]
      <4>1. ledger[q] \in Event /\ q \in Recorded
        BY <3>2 DEF TypeOK, Recorded
      <4>2. ledger'[q] = [ledger[q] EXCEPT !.cards = ledger[q].cards \ ErasedNow,
                            !.marks = ledger[q].marks \cup (ledger[q].cards \cap ErasedNow)]
        BY <1>3, <3>1, <3>2, <4>1 DEF ForgetRedact, Event
      <4> QED
        <5>1. ledger'[q] # Nil /\ ledger'[q].cards = ledger[q].cards \ ErasedNow
          BY <4>1, <4>2, NilApart DEF Event
        <5>2. ASSUME ledger[q] = Rejected({}) PROVE ledger'[q] = ledger[q]
          <6>1. ledger[q].cards = {} /\ ledger[q].marks = {}
            BY <5>2 DEF Rejected
          <6>2. /\ ledger[q].cards \ ErasedNow = {}
                /\ ledger[q].marks \cup (ledger[q].cards \cap ErasedNow) = {}
            BY <6>1
          <6>3. ledger'[q] = [type |-> ledger[q].type, cards |-> {}, marks |-> {},
                              retracted |-> ledger[q].retracted]
            BY <4>1, <4>2, <6>2 DEF Event
          <6>4. ledger[q] = [type |-> "rejected", cards |-> {}, marks |-> {}, retracted |-> FALSE]
            BY <5>2 DEF Rejected
          <6> QED
            BY <6>3, <6>4
        <5> QED
          BY <5>1, <5>2
    <3>3. CASE CardsOf(Holders(f)) \cap ErasedNow = {}
      <4>1. \E q \in Requests : ledger[q] # Nil /\ Claim[q] = f /\ ledger[q].cards # {}
        BY <1>0, <2>4, <3>1, <3>2, <3>3 DEF Supported, CardsOf, Holders, Recorded
      <4> QED
        BY <3>2, <3>3, <4>1 DEF CardsOf, Holders, Recorded
    <3>4. CASE ~(CardsOf(Holders(f)) \subseteq ErasedNow)
      BY <3>2, <3>4 DEF CardsOf, Holders, Recorded
    <3> QED
      BY <3>1, <3>3, <3>4 DEF ErasedFact
  <2> QED
    BY <1>p, <2>3, <2>4 DEF AllSupported, Supported
<1> QED
  BY <1>1, <1>2, <1>3

\* What a forget reported erased stays erased: no later application, statement,
\* re-run or prune leaves a card of it in the ledger, and no value is held without
\* an unredacted card but by refusals that never cited one (apply_fact, _reconcile,
\* plan_redaction and _record_refusal).
THEOREM ErasureIsFinal == Spec => []ErasedFactsStayErased
<1>1. Init => ErasedFactsStayErased
  BY DEF Init, ErasedFactsStayErased, Recorded, Holders
<1>2. FactInv /\ ErasedFactsStayErased /\ [Next]_vars => ErasedFactsStayErased'
  BY StepErased
<1> QED
  BY <1>1, <1>2, FactInvariant, PTL DEF Spec

\* Only decisions retract for good: whatever prunes, failed forgets and indexing
\* went before, the evidence a retraction gives up was named in a forget
\* (prepare_fact_erasure, plan_retractions).
THEOREM OnlyDecisionsRetract == Spec => RetractionsAreDecided
<1>1. ASSUME FactInv, [Next]_vars, NEW r \in Requests, r \in Live(Claim[r]),
             ledger'[r] # Nil, ledger'[r].retracted, NEW m \in CardsOf(Live(Claim[r]))
      PROVE  m \in asked \cup (rows \ era.seen)
  <2>1. ledger[r] # Nil /\ ~ledger[r].retracted
    BY <1>1 DEF Live, Holders, Recorded
  <2>2. ForgetRetract
    <3>1. ~ForgetRedact
      BY <1>1, <2>1, RedactCards
    <3> QED
      BY <1>1, <2>1, <3>1, LedgerStep DEF FactInv, Added
  <2>3. Unsupported(Claim[r])
    BY <1>1, <2>1, <2>2 DEF ForgetRetract
  <2>4. Gone(m)
    BY <1>1, <2>3 DEF Unsupported
  <2>5. PICK q \in Requests : ledger[q] # Nil /\ m \in ledger[q].cards
    BY <1>1 DEF CardsOf, Live, Holders, Recorded
  <2>6. m \in Memos
    BY <1>1, <2>5 DEF FactInv, TypeOK, Event
  <2>7. CASE m \in rows
    BY <2>4, <2>7 DEF Gone
  <2>8. CASE m \notin rows /\ m \in era.chunks
    BY <1>1, <2>2, <2>8 DEF FactInv, PlanInv, Past, ForgetRetract
  <2>9. CASE m \notin rows /\ m \notin era.chunks
    <3>1. m \notin era.kept
      BY <2>4, <2>9 DEF Gone
    <3>2. m \notin pruned
      BY <1>1, <2>2, <2>5, <2>9, <3>1 DEF FactInv, PlanInv, Past, ForgetRetract
    <3> QED
      BY <1>1, <2>6, <2>9, <3>2 DEF FactInv, GoneIsRecorded
  <2> QED
    BY <2>7, <2>8, <2>9
<1>2. FactInv /\ [Next]_vars =>
        \A r \in Requests : (r \in Live(Claim[r]) /\ ledger'[r] # Nil /\ ledger'[r].retracted)
           => CardsOf(Live(Claim[r])) \subseteq asked \cup (rows \ era.seen)
  BY <1>1
<1> QED
  BY <1>2, FactInvariant, PTL DEF Spec, RetractionsAreDecided
=============================================================================
