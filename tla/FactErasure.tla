---------------------------- MODULE FactErasure ----------------------------
(***************************************************************************)
(* Fact applications against the erasure of the memos they rest on: the    *)
(* fact ledger's erasure lock (recall/fact_ledger.py), apply_fact          *)
(* (recall/provenance_controller.py), the reconcile of stated facts        *)
(* (recall/stated_facts.py), the indexer's prune (recall/index.py) and     *)
(* forget (recall_mcp/lifecycle.py) with its preparation, retraction and   *)
(* redaction (recall/fact_retraction.py, recall/fact_redaction.py).        *)
(*                                                                         *)
(* One tenant, on a store whose rows are the legacy table's, where a       *)
(* forgotten memo may be indexed again.  A memo is one chunk with one      *)
(* content, so a memo also names its chunk and its evidence card.  Facts   *)
(* do not contradict or supersede each other here.  An event whose value   *)
(* a redaction erased frees its request id and bears on nothing after it,  *)
(* so it is dropped from the ledger.                                       *)
(***************************************************************************)
EXTENDS Naturals, FiniteSets

CONSTANTS
    Memos,       \* memos, by their absolute source
    Facts,       \* fact values
    States,      \* States[m]: the facts memo m states
    Applied,     \* request ids of recall_apply_fact
    Stated,      \* request ids of statements, one for a memo and a fact it states
    Claim,       \* Claim[r]: the fact of request r
    Stater,      \* Stater[r]: the memo that makes statement r
    Citations,   \* the sets of cards that requests name and searches find
    Appliers,    \* server threads running apply_fact
    Reconcilers, \* processes reconciling stated facts
    MaxCalls,    \* calls of forget, prune and index
    MaxFaults,   \* errors and killed processes
    Nil

Requests == Applied \cup Stated

ASSUME RequestsApart ==
    /\ Applied \cap Stated = {}
    /\ States \in [Memos -> SUBSET Facts]
    /\ Claim \in [Requests -> Facts]
    /\ Stater \in [Stated -> Memos]
    /\ Citations \subseteq (SUBSET Memos) \ {{}}
    /\ \A r \in Stated : Claim[r] \in States[Stater[r]]

ASSUME Bounds == MaxCalls \in Nat /\ MaxFaults \in Nat

VARIABLES
    rows,        \* memos with rows in the store
    pruned,      \* memos whose latest chunk record is a prune
    forgotten,   \* memos some chunk record says were forgotten
    cards,       \* memos whose card the card table holds unredacted
    ledger,      \* request id -> the event holding its value, or Nil
    app, rec,    \* the appliers, the reconcilers
    idx,         \* the indexer (recall.index_lock admits one)
    era,         \* the forget in progress
    asked,       \* history: memos a forget named since they were last indexed
    done,        \* history: memos a forget reported erased, not indexed since
    calls, faults

vars == <<rows, pruned, forgotten, cards, ledger, app, rec, idx, era, asked, done, calls, faults>>

-----------------------------------------------------------------------------
(* Events.  cards are raw evidence cards, marks the memos of redacted ones. *)

Event == [type : {"asserted", "rejected"}, cards : SUBSET Memos,
          marks : SUBSET Memos, retracted : BOOLEAN]

ASSUME NilApart == Nil \notin Memos /\ Nil \notin Event

Rejected(C) == [type |-> "rejected", cards |-> C, marks |-> {}, retracted |-> FALSE]

Recorded == {r \in Requests : ledger[r] # Nil}

\* The requests whose events hold the value f (plan_redaction's holders).
Holders(f) == {r \in Recorded : Claim[r] = f}

\* The live assertions of f (plan_retractions).
Live(f) == {r \in Holders(f) : ledger[r].type = "asserted" /\ ~ledger[r].retracted}

\* retraction_key: a retraction hides every assertion of its fact from the very
\* cards it names, one appended after it included.
Retracted(f, C) ==
    \E r \in Holders(f) : ledger[r].retracted /\ ledger[r].cards = C /\ ledger[r].marks = {}

Asserted(f, C) == [type |-> "asserted", cards |-> C, marks |-> {}, retracted |-> Retracted(f, C)]

CardsOf(R) == UNION {ledger[r].cards : r \in R}

MarksOf(R) == UNION {ledger[r].marks : r \in R}

-----------------------------------------------------------------------------
(* The erasure lock.  A forget holds it exclusively from its plan to its   *)
(* redaction, applications, reconciles and prunes hold it shared.          *)

NobodyShares ==
    /\ \A w \in Appliers : app[w].pc \notin {"check", "append"}
    /\ \A w \in Reconcilers : rec[w].pc # "record"
    /\ idx.pc # "delete"

\* PostgreSQL grants a lock in turn: a shared request waits behind a forget
\* that holds the lock and behind one that waits for it.
ShareFree == era.pc = "idle"

Quiet == [pc |-> "idle", named |-> {}, erased |-> {}, chunks |-> {}, known |-> {},
          kept |-> {}, seen |-> {}]

\* A forget at work, past the lock.
Holding == era.pc \notin {"idle", "wait"}

-----------------------------------------------------------------------------
(* apply_fact: two passes at most, each under the lock from the card       *)
(* checks to the append, with the fresh search between them outside it.    *)

\* own are the cards the request names, cards the ones this pass rests on.
Resting == [pc |-> "idle", req |-> Nil, own |-> {}, cards |-> {}, fresh |-> FALSE]

ApplyCall(w, r, C) ==
    /\ app[w].pc = "idle"
    /\ app' = [app EXCEPT ![w] = [pc |-> "wait", req |-> r, own |-> C, cards |-> C, fresh |-> FALSE]]
    /\ UNCHANGED <<rows, pruned, forgotten, cards, ledger, rec, idx, era, asked, done, calls, faults>>

ApplyLock(w) ==
    /\ app[w].pc = "wait"
    /\ ShareFree
    /\ app' = [app EXCEPT ![w].pc = "check"]
    /\ UNCHANGED <<rows, pruned, forgotten, cards, ledger, rec, idx, era, asked, done, calls, faults>>

\* _resolve and _supported: the cards are in the card table, their chunks are
\* in the store, and one of them states the claim.
Usable(f, C) ==
    /\ C \subseteq cards
    /\ C \subseteq rows
    /\ \E m \in C : f \in States[m]

\* A known request is answered from its event, in both passes: a refusal, or an
\* assertion from the very cards it names.  Others go on, to be refused by the
\* ledger.
Answered(r, C) ==
    /\ ledger[r] # Nil
    /\ ledger[r].type = "rejected" \/ (ledger[r].cards = C /\ ledger[r].marks = {})

\* A first pass whose cards fail leaves the lock for the search, a second one
\* records its refusal, which holds the claim and cites nothing.
ApplyCheck(w) ==
    LET r == app[w].req
        C == app[w].cards
        answered == Answered(r, app[w].own) IN
    /\ app[w].pc = "check"
    /\ \/ /\ answered
          /\ app' = [app EXCEPT ![w] = Resting]
          /\ UNCHANGED ledger
       \/ /\ ~answered
          /\ Usable(Claim[r], C)
          /\ app' = [app EXCEPT ![w].pc = "append"]
          /\ UNCHANGED ledger
       \/ /\ ~answered
          /\ ~Usable(Claim[r], C)
          /\ ~app[w].fresh
          /\ app' = [app EXCEPT ![w].pc = "search"]
          /\ UNCHANGED ledger
       \/ /\ ~answered
          /\ ~Usable(Claim[r], C)
          /\ app[w].fresh
          /\ app' = [app EXCEPT ![w] = Resting]
          /\ ledger' = IF ledger[r] = Nil
                       THEN [ledger EXCEPT ![r] = Rejected({})] ELSE ledger
    /\ UNCHANGED <<rows, pruned, forgotten, cards, rec, idx, era, asked, done, calls, faults>>

\* The fresh search reads the store; a failed or empty one proposes nothing.
ApplySearch(w, C) ==
    /\ app[w].pc = "search"
    /\ C \subseteq rows
    /\ app' = [app EXCEPT ![w] = [@ EXCEPT !.pc = "register", !.cards = C]]
    /\ UNCHANGED <<rows, pruned, forgotten, cards, ledger, rec, idx, era, asked, done, calls, faults>>

\* register_evidence_cards, as every evidence search calls it: no lock, and no
\* second look at the store.
ApplyRegister(w) ==
    /\ app[w].pc = "register"
    /\ cards' = cards \cup app[w].cards
    /\ app' = [app EXCEPT ![w] = [@ EXCEPT !.pc = "wait", !.fresh = TRUE]]
    /\ UNCHANGED <<rows, pruned, forgotten, ledger, rec, idx, era, asked, done, calls, faults>>

\* apply_assertion: a request that is recorded already is replayed or refused.
ApplyAppend(w) ==
    LET r == app[w].req IN
    /\ app[w].pc = "append"
    /\ ledger' = IF ledger[r] = Nil
                 THEN [ledger EXCEPT ![r] = Asserted(Claim[r], app[w].cards)] ELSE ledger
    /\ app' = [app EXCEPT ![w] = Resting]
    /\ UNCHANGED <<rows, pruned, forgotten, cards, rec, idx, era, asked, done, calls, faults>>

\* An append that fails is recorded as a refusal citing the cards, when that
\* can be recorded; a killed thread, or a lock not had in time, records nothing.
ApplyFail(w) ==
    LET r == app[w].req IN
    /\ app[w].pc # "idle"
    /\ faults < MaxFaults
    /\ \/ UNCHANGED ledger
       \/ /\ app[w].pc = "append" /\ ledger[r] = Nil
          /\ ledger' = [ledger EXCEPT ![r] = Rejected(app[w].cards)]
    /\ app' = [app EXCEPT ![w] = Resting]
    /\ faults' = faults + 1
    /\ UNCHANGED <<rows, pruned, forgotten, cards, rec, idx, era, asked, done, calls>>

-----------------------------------------------------------------------------
(* The reconcile of stated facts: memos and ledger are read without the    *)
(* lock, the statements recorded in holds that first drop what is gone.    *)

Rested == [pc |-> "idle", todo |-> {}]

\* _admitted_memos.
ReconcileRead(w) ==
    /\ rec[w].pc = "idle"
    /\ rec' = [rec EXCEPT ![w] = [pc |-> "known", todo |-> {r \in Stated : Stater[r] \in rows}]]
    /\ UNCHANGED <<rows, pruned, forgotten, cards, ledger, app, idx, era, asked, done, calls, faults>>

\* _current_request_ids: what the ledger knows is not stated again.
ReconcileKnown(w) ==
    LET todo == rec[w].todo \ Recorded IN
    /\ rec[w].pc = "known"
    /\ rec' = [rec EXCEPT ![w] = IF todo = {} THEN Rested ELSE [pc |-> "wait", todo |-> todo]]
    /\ UNCHANGED <<rows, pruned, forgotten, cards, ledger, app, idx, era, asked, done, calls, faults>>

\* mutant: the memos read before the lock are taken to be there still.
ServedBefore(R) == R

\* _record_statements up to its first append: drop what vanished, put the cards.
StillServed(R) == {r \in R : Stater[r] \in rows}

ReconcileHold(w) ==
    LET todo == StillServed(rec[w].todo) IN
    /\ rec[w].pc = "wait"
    /\ ShareFree
    /\ cards' = cards \cup {Stater[r] : r \in todo}
    /\ rec' = [rec EXCEPT ![w] = IF todo = {} THEN Rested ELSE [pc |-> "record", todo |-> todo]]
    /\ UNCHANGED <<rows, pruned, forgotten, ledger, app, idx, era, asked, done, calls, faults>>

\* mutant: each statement takes the lock again, inside the hold, and is tried
\* again when it does not get it in time.
ReconcileNested(w) ==
    /\ rec[w].pc = "record"
    /\ \/ /\ ~ShareFree
          /\ UNCHANGED <<ledger, rec>>
       \/ /\ ShareFree
          /\ \E r \in rec[w].todo :
               /\ ledger' = IF ledger[r] = Nil
                            THEN [ledger EXCEPT ![r] = Asserted(Claim[r], {Stater[r]})] ELSE ledger
               /\ rec' = [rec EXCEPT ![w] = IF rec[w].todo = {r} THEN Rested
                                            ELSE [pc |-> "record", todo |-> rec[w].todo \ {r}]]
    /\ UNCHANGED <<rows, pruned, forgotten, cards, app, idx, era, asked, done, calls, faults>>

\* apply_stated, which takes no second hold; a hold past its deadline ends
\* after a statement, and the rest goes into the next one.
ReconcileRecord(w) ==
    /\ rec[w].pc = "record"
    /\ \E r \in rec[w].todo :
        /\ ledger' = IF ledger[r] = Nil
                     THEN [ledger EXCEPT ![r] = Asserted(Claim[r], {Stater[r]})] ELSE ledger
        /\ IF rec[w].todo = {r}
           THEN rec' = [rec EXCEPT ![w] = Rested]
           ELSE \E p \in {"record", "wait"} :
                  rec' = [rec EXCEPT ![w] = [pc |-> p, todo |-> rec[w].todo \ {r}]]
    /\ UNCHANGED <<rows, pruned, forgotten, cards, app, idx, era, asked, done, calls, faults>>

ReconcileFail(w) ==
    /\ rec[w].pc # "idle"
    /\ faults < MaxFaults
    /\ rec' = [rec EXCEPT ![w] = Rested]
    /\ faults' = faults + 1
    /\ UNCHANGED <<rows, pruned, forgotten, cards, ledger, app, idx, era, asked, done, calls>>

-----------------------------------------------------------------------------
(* The indexer.  It holds the erasure lock only for a prune, from the      *)
(* chunks it records to the delete.                                        *)

Index(m) ==
    /\ idx.pc = "idle"
    /\ calls < MaxCalls /\ calls' = calls + 1
    /\ rows' = rows \cup {m}
    /\ asked' = asked \ {m}
    /\ done' = done \ {m}
    /\ UNCHANGED <<pruned, forgotten, cards, ledger, app, rec, idx, era, faults>>

\* _prune_vanished finds m gone from disk, among rows it read before.
PruneCall(m) ==
    /\ idx.pc = "idle"
    /\ calls < MaxCalls /\ calls' = calls + 1
    /\ m \in rows
    /\ idx' = [pc |-> "wait", memo |-> m]
    /\ UNCHANGED <<rows, pruned, forgotten, cards, ledger, app, rec, era, asked, done, faults>>

\* mutant: a prune that does not wait for a forget.
PruneRecordUnlocked ==
    /\ idx.pc = "wait"
    /\ pruned' = pruned \cup ({idx.memo} \cap rows)
    /\ idx' = [idx EXCEPT !.pc = "delete"]
    /\ UNCHANGED <<rows, forgotten, cards, ledger, app, rec, era, asked, done, calls, faults>>

\* _record_pruned_chunks: a memo a forget took first has no chunk to record.
PruneRecord ==
    /\ idx.pc = "wait"
    /\ ShareFree
    /\ pruned' = pruned \cup ({idx.memo} \cap rows)
    /\ idx' = [idx EXCEPT !.pc = "delete"]
    /\ UNCHANGED <<rows, forgotten, cards, ledger, app, rec, era, asked, done, calls, faults>>

PruneDelete ==
    /\ idx.pc = "delete"
    /\ rows' = rows \ {idx.memo}
    /\ idx' = [pc |-> "idle", memo |-> Nil]
    /\ UNCHANGED <<pruned, forgotten, cards, ledger, app, rec, era, asked, done, calls, faults>>

PruneFail ==
    /\ idx.pc # "idle"
    /\ faults < MaxFaults
    /\ idx' = [pc |-> "idle", memo |-> Nil]
    /\ faults' = faults + 1
    /\ UNCHANGED <<rows, pruned, forgotten, cards, ledger, app, rec, era, asked, done, calls>>

-----------------------------------------------------------------------------
(* forget_memory.                                                          *)

ForgetCall(N) ==
    /\ era.pc = "idle"
    /\ calls < MaxCalls /\ calls' = calls + 1
    /\ era' = [Quiet EXCEPT !.pc = "wait", !.named = N]
    /\ UNCHANGED <<rows, pruned, forgotten, cards, ledger, app, rec, idx, asked, done, faults>>

\* The lock, then the sources the names resolve to.
ForgetLock ==
    /\ era.pc = "wait"
    /\ NobodyShares
    /\ era' = [era EXCEPT !.pc = "plan", !.erased = era.named \cap rows]
    /\ UNCHANGED <<rows, pruned, forgotten, cards, ledger, app, rec, idx, asked, done, calls, faults>>

\* _pruned_and_decided: the cited memos whose latest record is a prune.  Naming
\* one is a decision; the others stay evidence.
Unsettled(chunks) == (CardsOf(Recorded) \ chunks) \cap pruned

\* prepare_fact_erasure: which cards can be judged, which chunks this call
\* erases (now, in an earlier call, or by naming a pruned memo), recorded
\* before any row goes.
ForgetPrepare ==
    LET before == era.erased \cup (era.named \cap forgotten)
        decided == Unsettled(before) \cap era.named IN
    /\ era.pc = "plan"
    /\ era' = [era EXCEPT !.pc = "delete",
                          !.chunks = before \cup decided,
                          !.known = CardsOf(Recorded) \cup cards,
                          !.kept = Unsettled(before) \ decided]
    /\ forgotten' = forgotten \cup era.erased \cup decided
    /\ pruned' = pruned \ (era.erased \cup decided)
    /\ asked' = asked \cup era.named
    /\ UNCHANGED <<rows, cards, ledger, app, rec, idx, done, calls, faults>>

ForgetDelete ==
    /\ era.pc = "delete"
    /\ rows' = rows \ era.erased
    /\ asked' = asked \cup era.erased
    /\ era' = [era EXCEPT !.pc = "look"]
    /\ UNCHANGED <<pruned, forgotten, cards, ledger, app, rec, idx, done, calls, faults>>

\* remaining and chunk_gone keep what they see, after the deletion, for both
\* halves.  They look when first asked, at each chunk and once at the names; one
\* look stands for those here, as rows only come while the forget holds the lock.
ForgetLook ==
    /\ era.pc = "look"
    /\ era' = [era EXCEPT !.pc = "retract", !.seen = rows]
    /\ UNCHANGED <<rows, pruned, forgotten, cards, ledger, app, rec, idx, asked, done, calls, faults>>

\* gone: a card whose own chunk this call erased, or whose name serves nothing
\* and whose chunk was not merely pruned.  A redacted card is gone.
Gone(m) ==
    /\ m \notin era.seen
    /\ m \in era.chunks \/ (m \in era.known /\ m \notin era.kept)

\* plan_retractions: every live assertion of each fact this forget touches and
\* leaves without evidence.
Unsupported(f) ==
    /\ (CardsOf(Live(f)) \cup MarksOf(Live(f))) \cap era.named # {}
    /\ \A m \in CardsOf(Live(f)) : Gone(m)

ForgetRetract ==
    /\ era.pc = "retract"
    /\ ledger' = [r \in Requests |->
                    IF r \in Live(Claim[r]) /\ Unsupported(Claim[r])
                    THEN [ledger[r] EXCEPT !.retracted = TRUE] ELSE ledger[r]]
    /\ era' = [era EXCEPT !.pc = "redact"]
    /\ UNCHANGED <<rows, pruned, forgotten, cards, app, rec, idx, asked, done, calls, faults>>

\* plan_redaction's erasable cards.
ErasedNow ==
    {m \in Memos : /\ m \notin era.kept
                   /\ m \notin era.seen
                   /\ m \in era.chunks \/ (m \in era.named /\ m \in era.known)}

\* A value goes when a card of it goes now and no other raw one is left.
ErasedFact(f) ==
    /\ CardsOf(Holders(f)) \cap ErasedNow # {}
    /\ CardsOf(Holders(f)) \subseteq ErasedNow

\* redact, in one transaction, then the lock is let go and success reported.
ForgetRedact ==
    /\ era.pc = "redact"
    /\ ledger' = [r \in Requests |->
                    IF r \notin Recorded THEN Nil
                    ELSE IF ErasedFact(Claim[r]) THEN Nil
                    ELSE [ledger[r] EXCEPT !.cards = @ \ ErasedNow,
                                           !.marks = @ \cup (ledger[r].cards \cap ErasedNow)]]
    /\ cards' = cards \ ErasedNow
    /\ done' = done \cup (era.named \ rows)
    /\ era' = Quiet
    /\ UNCHANGED <<rows, pruned, forgotten, app, rec, idx, asked, calls, faults>>

\* mutant: what the failed call had found out stays behind.
ForgetFailKeeps ==
    /\ era.pc # "idle"
    /\ faults < MaxFaults
    /\ era' = [era EXCEPT !.pc = "idle"]
    /\ faults' = faults + 1
    /\ UNCHANGED <<rows, pruned, forgotten, cards, ledger, app, rec, idx, asked, done, calls>>

\* A lock not had in time, a step that raises (what follows it is skipped and
\* the caller told to call again), a killed process: the session's lock goes.
ForgetFail ==
    /\ era.pc # "idle"
    /\ faults < MaxFaults
    /\ era' = Quiet
    /\ faults' = faults + 1
    /\ UNCHANGED <<rows, pruned, forgotten, cards, ledger, app, rec, idx, asked, done, calls>>

-----------------------------------------------------------------------------
Init ==
    /\ rows = Memos
    /\ pruned = {} /\ forgotten = {} /\ cards = {}
    /\ ledger = [r \in Requests |-> Nil]
    /\ app = [w \in Appliers |-> Resting]
    /\ rec = [w \in Reconcilers |-> Rested]
    /\ idx = [pc |-> "idle", memo |-> Nil]
    /\ era = Quiet
    /\ asked = {} /\ done = {}
    /\ calls = 0 /\ faults = 0

ApplyStep(w) ==
    \/ ApplyLock(w) \/ ApplyCheck(w) \/ ApplyRegister(w) \/ ApplyAppend(w)
    \/ \E C \in Citations \cup {{}} : ApplySearch(w, C)

ReconcileStep(w) ==
    ReconcileKnown(w) \/ ReconcileHold(w) \/ ReconcileRecord(w)

PruneStep == PruneRecord \/ PruneDelete

ForgetStep ==
    \/ ForgetLock \/ ForgetPrepare \/ ForgetDelete
    \/ ForgetLook \/ ForgetRetract \/ ForgetRedact

Next ==
    \/ \E w \in Appliers :
         \/ \E r \in Applied, C \in Citations : ApplyCall(w, r, C)
         \/ ApplyStep(w)
         \/ ApplyFail(w)
    \/ \E w \in Reconcilers : ReconcileRead(w) \/ ReconcileStep(w) \/ ReconcileFail(w)
    \/ \E m \in Memos : Index(m) \/ PruneCall(m)
    \/ PruneStep \/ PruneFail
    \/ \E N \in (SUBSET Memos) \ {{}} : ForgetCall(N)
    \/ ForgetStep \/ ForgetFail

Spec == Init /\ [][Next]_vars

\* What has been called goes on; a waiting call gets the lock once it is free.
Fairness ==
    /\ \A w \in Appliers : WF_vars(ApplyStep(w))
    /\ \A w \in Reconcilers : WF_vars(ReconcileStep(w))
    /\ WF_vars(PruneStep)
    /\ WF_vars(ForgetStep)

FairSpec == Spec /\ Fairness

-----------------------------------------------------------------------------
(* Properties.                                                             *)

Caller == [pc : {"idle", "wait", "check", "append", "search", "register"},
           req : Applied \cup {Nil}, own : SUBSET Memos, cards : SUBSET Memos, fresh : BOOLEAN]

Eraser == [pc : {"idle", "wait", "plan", "delete", "look", "retract", "redact"},
           named : SUBSET Memos, erased : SUBSET Memos, chunks : SUBSET Memos,
           known : SUBSET Memos, kept : SUBSET Memos, seen : SUBSET Memos]

CallersOK ==
    /\ app \in [Appliers -> Caller]
    /\ \A w \in Appliers : IF app[w].pc = "idle" THEN app[w] = Resting ELSE app[w].req \in Applied

EraserOK ==
    /\ era \in Eraser
    /\ era.pc = "idle" => era = Quiet

\* Types, and that a call at rest remembers nothing.
TypeOK ==
    /\ rows \subseteq Memos /\ pruned \subseteq Memos /\ forgotten \subseteq Memos
    /\ cards \subseteq Memos /\ asked \subseteq Memos /\ done \subseteq Memos
    /\ ledger \in [Requests -> Event \cup {Nil}]
    /\ CallersOK
    /\ rec \in [Reconcilers -> [pc : {"idle", "known", "wait", "record"}, todo : SUBSET Stated]]
    /\ idx \in [pc : {"idle", "wait", "delete"}, memo : Memos \cup {Nil}]
    /\ (idx.pc = "idle") <=> (idx.memo = Nil)
    /\ EraserOK
    /\ calls \in 0 .. MaxCalls /\ faults \in 0 .. MaxFaults

\* What a forget reported erased stays erased: no event cites a card of a memo
\* it erased, so a value the ledger holds, again or still, rests on an unredacted
\* card of a memo no forget reported erased since it was indexed, or is held by
\* nothing but refusals that never cited a card.  The second is how an erased
\* value can be in the ledger without evidence: an application whose cards all
\* failed records the claim it was given, also one under way at the forget
\* (fact_redaction.py, STAKES-003 of provenance_controller.py, _record_refusal).
ErasedFactsStayErased ==
    /\ \A r \in Recorded : ledger[r].cards \cap done = {}
    /\ \A f \in Facts : \/ CardsOf(Holders(f)) # {}
                        \/ \A r \in Holders(f) : ledger[r] = Rejected({})

\* A retraction is for good, so only decisions make one: every memo whose card
\* supports the fact was named in a forget since it was last indexed, or came
\* back after this forget looked; none was merely pruned (fact_retraction.py).
RetractionsAreDecided ==
    [][\A r \in Requests :
          (r \in Live(Claim[r]) /\ ledger'[r] # Nil /\ ledger'[r].retracted)
             => CardsOf(Live(Claim[r])) \subseteq asked \cup (rows \ era.seen)]_vars

\* A forget that waits for the applications, reconciles and prunes in progress
\* is not left waiting: none of them waits for it (provenance_controller.py).
ForgetIsServed == (era.pc = "wait") ~> (era.pc # "wait")
=============================================================================
