----------------------------- MODULE LiteLanes -----------------------------
(***************************************************************************)
(* One lane of a lite file: recall/lite/writer_lock.py (lite_lane).        *)
(*                                                                         *)
(* Threads of several processes queue for a file lock.  Each waiter and    *)
(* the holder own a numbered ticket file, live exactly while its creator's *)
(* lock on it lasts; only the oldest live ticket tries the lane lock.  The *)
(* queue is edited under a mutex, which is itself a polled file lock.      *)
(*                                                                         *)
(* A section under the mutex is one action that starts with the mutex held *)
(* and ends by giving it back, except the enqueue, which is split where    *)
(* the counter file is empty.  Locks are let go without the mutex, and a   *)
(* process can die anywhere: the OS then drops its locks and the files     *)
(* stay.                                                                   *)
(***************************************************************************)
EXTENDS Naturals, FiniteSets

CONSTANTS
    Workers,      \* threads that ask for the lane
    PidOf,        \* the process of each thread
    Purposes,     \* what a request is for
    Jobs,         \* the purposes of each thread
    Coalescing,   \* the purposes asked for with coalesce=True
    MaxRequests,  \* bound: requests in one behaviour
    MaxFaults,    \* bound: crashes and failed writes in one behaviour
    Nil           \* no worker, no ticket

Pids == {PidOf[w] : w \in Workers}

ASSUME LaneNil == Nil \notin Workers /\ Nil \notin [seq : Nat, pid : Pids]
ASSUME LaneThreads == PidOf = [w \in Workers |-> PidOf[w]]
ASSUME LanePurposes == Coalescing \subseteq Purposes /\ Jobs \in [Workers -> SUBSET Purposes]
ASSUME LaneBounds == MaxRequests \in Nat /\ MaxFaults \in Nat

VARIABLES
    seqFile,   \* <lane>.seq; 0 when it is empty
    dir,       \* <lane>.queue/: the tickets, and who holds the lock of each
    lane,      \* who holds the lock of <lane>.lock
    holder,    \* <lane>.holder: the ticket it names
    mutex,     \* who holds the lock of <lane>.mutex
    pc, purpose,
    name,      \* the name of a worker's own ticket
    ahead,     \* history: the waiters that were queued before a worker
    asked, faults

vars == <<seqFile, dir, lane, holder, mutex, pc, purpose, name, ahead, asked, faults>>

Names == [seq : Nat, pid : Pids]
Tickets == [seq : Nat, pid : Pids, owner : Workers \cup {Nil}]
Steps == {"idle", "enter", "number", "stamp", "wait", "poll", "busy", "hold",
          "release", "free", "remove", "unlink"}

TypeOK ==
    /\ seqFile \in Nat
    /\ dir \subseteq Tickets
    /\ lane \in Workers \cup {Nil} /\ mutex \in Workers \cup {Nil}
    /\ holder \in Names \cup {Nil}
    /\ pc \in [Workers -> Steps]
    /\ purpose \in [Workers -> Purposes \cup {Nil}]
    /\ name \in [Workers -> Names \cup {Nil}]
    /\ ahead \in [Workers -> SUBSET Workers]
    /\ asked \in 0..MaxRequests /\ faults \in 0..MaxFaults

Init ==
    /\ seqFile = 0
    /\ dir = {}
    /\ lane = Nil /\ holder = Nil /\ mutex = Nil
    /\ pc = [w \in Workers |-> "idle"]
    /\ purpose = [w \in Workers |-> Nil]
    /\ name = [w \in Workers |-> Nil]
    /\ ahead = [w \in Workers |-> {}]
    /\ asked = 0 /\ faults = 0

---------------------------------------------------------------------------
(* Tickets *)

NameOf(t) == [seq |-> t.seq, pid |-> t.pid]

\* _live_tickets: the tickets whose lock cannot be taken; a section that lists
\* them deletes the others
Live == {t \in dir : t.owner # Nil}

\* the ticket a worker makes, as long as it keeps the ticket's lock
Ticket(w) == [seq |-> name[w].seq, pid |-> name[w].pid, owner |-> w]

\* queued, and not yet served
Waiting(w) == pc[w] \in {"wait", "poll", "busy"}

\* dir once these workers' locks are dropped
Unlocked(W) == {[t EXCEPT !.owner = IF @ \in W THEN Nil ELSE @] : t \in dir}

\* dir without the file of that name, whoever made it
Without(n) == {t \in dir : NameOf(t) # n}

\* the workers W are no longer waiting
Departed(W) == [w \in Workers |-> IF w \in W THEN {} ELSE ahead[w] \ W]

Go(w, step) == pc' = [pc EXCEPT ![w] = step]
Fault == faults < MaxFaults /\ faults' = faults + 1

---------------------------------------------------------------------------
(* The mutex *)

Section(step) ==
    CASE step = "enter" -> "number"
      [] step \in {"wait", "busy"} -> "poll"
      [] step = "release" -> "free"
      [] step = "remove" -> "unlink"

Outside == {"enter", "wait", "busy", "release", "remove"}

\* _mutex: a poll of the lock file finds it free
TakeMutex(w) ==
    /\ pc[w] \in Outside
    /\ mutex = Nil
    /\ mutex' = w
    /\ Go(w, Section(pc[w]))
    /\ UNCHANGED <<seqFile, dir, lane, holder, purpose, name, ahead, asked, faults>>

\* mutant: the ticket's lock is kept
LetGoLane(w) ==
    /\ lane' = IF lane = w THEN Nil ELSE lane
    /\ ahead' = Departed({w})
    /\ UNCHANGED dir

\* _let_go: the locks are dropped in every state they may be held in
LetGo(w) ==
    /\ lane' = IF lane = w THEN Nil ELSE lane
    /\ dir' = Unlocked({w})
    /\ ahead' = Departed({w})

\* it stays taken for MUTEX_WAIT_S (a suspended process): the call raises, with
\* the clean-up of the place it was at
MutexTimeout(w) ==
    /\ pc[w] \in Outside
    /\ mutex # Nil
    /\ LetGo(w)
    /\ Go(w, IF pc[w] \in {"wait", "busy"} THEN "remove" ELSE "idle")
    /\ UNCHANGED <<seqFile, holder, mutex, purpose, name, asked, faults>>

---------------------------------------------------------------------------
(* _acquire: the ticket *)

Request(w, p) ==
    /\ pc[w] = "idle"
    /\ asked < MaxRequests /\ asked' = asked + 1
    /\ purpose' = [purpose EXCEPT ![w] = p]
    /\ Go(w, "enter")
    /\ UNCHANGED <<seqFile, dir, lane, holder, mutex, name, ahead, faults>>

\* mutant: the holder's ticket counts as one that waits
AlikeAny(w) == {t \in Live : purpose[t.owner] = purpose[w]}

\* the queued tickets of the same purpose, the holder's left out
Alike(w) == {t \in Live : NameOf(t) # holder /\ purpose[t.owner] = purpose[w]}

Coalesces(w) == purpose[w] \in Coalescing /\ Alike(w) # {}

\* LiteWriterCoalesced
Coalesced(w) ==
    /\ pc[w] = "number"
    /\ Coalesces(w)
    /\ dir' = Live
    /\ mutex' = Nil
    /\ Go(w, "idle")
    /\ UNCHANGED <<seqFile, lane, holder, purpose, name, ahead, asked, faults>>

\* mutant: the number is the counter's, whatever is in the queue
InUseCounter == {seqFile}

\* the numbers _next_seq goes past: the counter's and those of the queued tickets
InUse == {seqFile} \cup {t.seq : t \in Live}

\* _next_seq, up to the rewrite of the counter, which starts by emptying it
Number(w) ==
    /\ pc[w] = "number"
    /\ ~Coalesces(w)
    /\ \E last \in InUse :
          /\ \A n \in InUse : n <= last
          /\ name' = [name EXCEPT ![w] = [seq |-> last + 1, pid |-> PidOf[w]]]
    /\ seqFile' = 0
    /\ dir' = Live
    /\ Go(w, "stamp")
    /\ UNCHANGED <<lane, holder, mutex, purpose, ahead, asked, faults>>

\* the counter is written, the ticket made and locked
Stamp(w) ==
    /\ pc[w] = "stamp"
    /\ seqFile' = name[w].seq
    /\ dir' = dir \cup {Ticket(w)}
    /\ ahead' = [ahead EXCEPT ![w] = {u \in Workers : Waiting(u)}]
    /\ mutex' = Nil
    /\ Go(w, "wait")
    /\ UNCHANGED <<lane, holder, purpose, name, asked, faults>>

\* a write raises: the counter's, which stays empty, or the ticket's
StampFails(w) ==
    /\ pc[w] = "stamp"
    /\ Fault
    /\ \/ Go(w, "idle") /\ UNCHANGED <<seqFile, dir>>
       \/ /\ Go(w, "remove")
          /\ seqFile' = name[w].seq
          /\ dir' = dir \cup {[seq |-> name[w].seq, pid |-> name[w].pid, owner |-> Nil]}
    /\ mutex' = Nil
    /\ UNCHANGED <<lane, holder, purpose, name, ahead, asked>>

---------------------------------------------------------------------------
(* _acquire: the wait *)

\* position = 1; a worker that does not find its ticket comes after all others
First(w) ==
    \/ \E t \in Live : NameOf(t) = name[w] /\ \A u \in Live : t.seq <= u.seq
    \/ Live = {}

Acquire(w) ==
    /\ pc[w] = "poll"
    /\ First(w)
    /\ lane = Nil /\ lane' = w
    /\ holder' = name[w]
    /\ dir' = Live
    /\ ahead' = Departed({w})
    /\ mutex' = Nil
    /\ Go(w, "hold")
    /\ UNCHANGED <<seqFile, purpose, name, asked, faults>>

Busy(w) ==
    /\ pc[w] = "poll"
    /\ ~First(w) \/ lane # Nil
    /\ dir' = Live
    /\ mutex' = Nil
    /\ Go(w, "busy")
    /\ UNCHANGED <<seqFile, lane, holder, purpose, name, ahead, asked, faults>>

\* LiteWriterBusy: the budget is spent; the locks go first, the file later
GiveUp(w) ==
    /\ pc[w] = "busy"
    /\ LetGo(w)
    /\ Go(w, "remove")
    /\ UNCHANGED <<seqFile, holder, mutex, purpose, name, asked, faults>>

Unlink(w) ==
    /\ pc[w] = "unlink"
    /\ dir' = Without(name[w])
    /\ mutex' = Nil
    /\ Go(w, "idle")
    /\ UNCHANGED <<seqFile, lane, holder, purpose, name, ahead, asked, faults>>

---------------------------------------------------------------------------
(* _release *)

\* the caller's block ends, or raises
Finish(w) ==
    /\ pc[w] = "hold"
    /\ Go(w, "release")
    /\ UNCHANGED <<seqFile, dir, lane, holder, mutex, purpose, name, ahead, asked, faults>>

Free(w) ==
    /\ pc[w] = "free"
    /\ holder' = Nil
    /\ lane' = Nil
    /\ dir' = Without(name[w])
    /\ mutex' = Nil
    /\ Go(w, "idle")
    /\ UNCHANGED <<seqFile, purpose, name, ahead, asked, faults>>

\* a file operation of a later section raises: the locks go all the same (after
\* the mutex, which nobody sees the difference of: who takes it in between finds
\* the lane and the ticket still held, as it would have before)
SectionFails(w) ==
    /\ pc[w] \in {"poll", "free"}
    /\ Fault
    /\ LetGo(w)
    /\ mutex' = Nil
    /\ Go(w, IF pc[w] = "poll" THEN "remove" ELSE "idle")
    /\ UNCHANGED <<seqFile, holder, purpose, name, asked>>

---------------------------------------------------------------------------
(* The process dies: every lock of its threads goes, no file does *)

Threads(p) == {w \in Workers : PidOf[w] = p}

Crash(p) ==
    /\ \E w \in Threads(p) : pc[w] # "idle"
    /\ Fault
    /\ pc' = [w \in Workers |-> IF w \in Threads(p) THEN "idle" ELSE pc[w]]
    /\ dir' = Unlocked(Threads(p))
    /\ lane' = IF lane \in Threads(p) THEN Nil ELSE lane
    /\ mutex' = IF mutex \in Threads(p) THEN Nil ELSE mutex
    /\ ahead' = Departed(Threads(p))
    /\ UNCHANGED <<seqFile, holder, purpose, name, asked>>

---------------------------------------------------------------------------
Proceed(w) ==
    \/ Coalesced(w) \/ Number(w) \/ Stamp(w)
    \/ Acquire(w) \/ Busy(w) \/ Unlink(w) \/ Finish(w) \/ Free(w)

Next ==
    \/ \E w \in Workers :
          \/ \E p \in Jobs[w] : Request(w, p)
          \/ TakeMutex(w) \/ MutexTimeout(w) \/ Proceed(w)
          \/ StampFails(w) \/ SectionFails(w) \/ GiveUp(w)
    \/ \E p \in Pids : Crash(p)

Spec == Init /\ [][Next]_vars

\* a holder's work ends, a section runs to its end, and a worker that polls
\* every few milliseconds for a mutex held for less gets it
FairSpec ==
    /\ Spec
    /\ \A w \in Workers : WF_vars(Proceed(w)) /\ SF_vars(TakeMutex(w))

---------------------------------------------------------------------------
(* Properties *)

\* its ticket file is gone, which only a thread of its own process could remove
\* by taking the name for that of its own
Lost(u) == Ticket(u) \notin dir /\ \E v \in Workers \ {u} : PidOf[v] = PidOf[u]

\* The lane goes to the waiter that was queued first, whoever timed out, died
\* or lost the counter in between (lite_lane's first come, first served); it
\* passes over no waiter but one that another thread of its process took the
\* ticket file from.
FirstComeFirstServed ==
    [][\A w \in Workers : lane' = w /\ lane # w => \A u \in ahead[w] : Lost(u)]_vars

\* A request is dropped as coalesced only while another of the same purpose is
\* still to be served, so that what it was made for is done afterwards: the
\* run in progress, which may be past it, does not count (LiteWriterCoalesced).
CoalescedIsServed ==
    [][\A w \in Workers :
          pc[w] = "number" /\ pc'[w] = "idle" /\ faults' = faults
              => \E u \in Workers \ {w} : Waiting(u) /\ purpose[u] = purpose[w]]_vars

\* Every waiter is served or gives up, also when those before it die
\* (_ticket_alive).
WaitersServed == \A w \in Workers : Waiting(w) ~> ~Waiting(w)
=============================================================================
