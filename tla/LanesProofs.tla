---------------------------- MODULE LanesProofs ----------------------------
(***************************************************************************)
(* Proofs about LiteLanes, for any number of threads, purposes, requests,  *)
(* crashes and failed writes.                                              *)
(*                                                                         *)
(* Arrival order rests on tickets that stay where they are while their     *)
(* maker waits, unless it has a thread beside it that removes one of the   *)
(* same name (Ticketed), and on numbers that grow past whatever is queued  *)
(* (Numbered), also when the counter file was lost.                        *)
(***************************************************************************)
EXTENDS LiteLanes, TLAPS

Holding(w) == pc[w] \in {"hold", "release", "free"}
Inside == {"number", "stamp", "poll", "free", "unlink"}
Named(w) == pc[w] \notin {"idle", "enter", "number"}

\* sections exclude each other
Sections == \A w \in Workers : pc[w] \in Inside => mutex = w

\* a ticket's name carries its maker's process
OwnNames == \A w \in Workers : Named(w) => name[w] \in Names /\ name[w].pid = PidOf[w]

\* the lane's holder is on record
Recorded == \A w \in Workers : Holding(w) => lane = w /\ holder = name[w]

\* a locked ticket is that of a worker that waits or holds
Owned ==
    \A t \in dir : t.owner # Nil =>
        (Waiting(t.owner) \/ Holding(t.owner)) /\ NameOf(t) = name[t.owner]

LaneInv == TypeOK /\ Sections /\ OwnNames /\ Recorded /\ Owned

\* another thread of the same process
Beside(w) == {v \in Workers \ {w} : PidOf[v] = PidOf[w]}

\* a worker that waits or holds has its ticket in the queue, if it is the one
\* thread of its process
Ticketed ==
    \A w \in Workers : Waiting(w) \/ Holding(w) => Ticket(w) \in dir \/ Beside(w) # {}

\* a number about to be stamped is past all that are queued
Numbered == \A w \in Workers : pc[w] = "stamp" => \A t \in dir : t.seq < name[w].seq

\* who came before and has its ticket has the smaller number
Ordered ==
    \A w \in Workers : \A u \in ahead[w] :
        Waiting(w) /\ Waiting(u) /\ (Ticket(u) \in dir => name[u].seq < name[w].seq)

QueueInv == Ticketed /\ Numbered /\ Ordered

---------------------------------------------------------------------------
LEMMA UnlockedTickets ==
    ASSUME dir \subseteq Tickets, NEW W
    PROVE  /\ Unlocked(W) \subseteq Tickets
           /\ \A t \in Unlocked(W) : t.owner # Nil => t \in dir /\ t.owner \notin W
           /\ \A t \in dir : t.owner \notin W => t \in Unlocked(W)
           /\ \A t \in Unlocked(W) : \E u \in dir : t.seq = u.seq
           /\ \A w \in Workers \ W : Ticket(w) \in Unlocked(W) <=> Ticket(w) \in dir
<1>1. /\ Unlocked(W) \subseteq Tickets
      /\ \A t \in Unlocked(W) : t.owner # Nil => t \in dir /\ t.owner \notin W
      /\ \A t \in dir : t.owner \notin W => t \in Unlocked(W)
      /\ \A t \in Unlocked(W) : \E u \in dir : t.seq = u.seq
    BY LaneNil DEF Unlocked, Tickets
<1>2. ASSUME NEW w \in Workers \ W PROVE Ticket(w) \in Unlocked(W) <=> Ticket(w) \in dir
  <2>1. Ticket(w).owner = w /\ w # Nil
      BY LaneNil DEF Ticket
  <2> QED BY <1>1, <2>1
<1> QED BY <1>1, <1>2

LEMMA LaneInit == Init => LaneInv
BY LaneBounds DEF Init, LaneInv, TypeOK, Sections, OwnNames, Recorded, Owned, Steps, Inside, Named, Holding, Waiting, Names, Tickets

\* LetGo, with what the worker does next.
LEMMA LetGoStep ==
    ASSUME LaneInv, NEW w \in Workers, LetGo(w), NEW step \in {"idle", "remove"},
           Go(w, step), step = "remove" => Named(w),
           mutex' \in {mutex, Nil}, mutex' = Nil => mutex = w \/ mutex = Nil,
           faults' \in 0..MaxFaults,
           UNCHANGED <<seqFile, holder, purpose, name, asked>>
    PROVE  LaneInv'
<1> USE DEF LaneInv, LetGo, Go
<1>1. TypeOK'
    BY UnlockedTickets DEF TypeOK, Steps, Departed
<1>2. Sections' /\ OwnNames' /\ Recorded'
    BY DEF TypeOK, Sections, OwnNames, Recorded, Inside, Named, Holding, Steps
<1>3. Owned'
  <2>1. \A t \in dir' : t.owner # Nil => t \in dir /\ t.owner # w
      BY UnlockedTickets DEF TypeOK
  <2> QED BY <2>1 DEF TypeOK, Owned, Waiting, Holding, NameOf, Tickets
<1> QED BY <1>1, <1>2, <1>3

LEMMA LaneStep == LaneInv /\ [Next]_vars => LaneInv'
<1> SUFFICES ASSUME LaneInv, [Next]_vars PROVE LaneInv'
    OBVIOUS
<1> USE LaneBounds, LaneNil DEF LaneInv, Go, Steps, Fault
<1>1. ASSUME NEW w \in Workers, NEW p \in Purposes, Request(w, p) PROVE LaneInv'
  <2>1. TypeOK'
      BY <1>1 DEF Request, TypeOK
  <2>2. Sections' /\ OwnNames' /\ Recorded' /\ Owned'
      BY <1>1 DEF Request, TypeOK, Sections, OwnNames, Recorded, Owned, Inside, Named, Holding, Waiting, NameOf, Tickets
  <2> QED BY <2>1, <2>2
<1>2. ASSUME NEW w \in Workers, TakeMutex(w) PROVE LaneInv'
  <2>1. Section(pc[w]) \in {"number", "poll", "free", "unlink"}
      BY <1>2 DEF TakeMutex, Outside, Section
  <2>2. /\ pc[w] = "enter" <=> Section(pc[w]) = "number"
        /\ pc[w] \in {"wait", "busy"} <=> Section(pc[w]) = "poll"
        /\ pc[w] = "release" <=> Section(pc[w]) = "free"
      BY <1>2 DEF TakeMutex, Outside, Section
  <2>3. TypeOK'
      BY <1>2, <2>1 DEF TakeMutex, TypeOK
  <2>4. Sections' /\ OwnNames' /\ Recorded'
      BY <1>2, <2>1, <2>2 DEF TakeMutex, Outside, TypeOK, Sections, OwnNames, Recorded, Inside, Named, Holding
  <2>5. Owned'
      BY <1>2, <2>1, <2>2 DEF TakeMutex, Outside, TypeOK, Owned, Holding, Waiting, NameOf, Tickets
  <2> QED BY <2>3, <2>4, <2>5
<1>3. ASSUME NEW w \in Workers, MutexTimeout(w) PROVE LaneInv'
    BY <1>3, LetGoStep DEF MutexTimeout, Outside, Named, TypeOK
<1>4. ASSUME NEW w \in Workers, Coalesced(w) PROVE LaneInv'
  <2>1. TypeOK'
      BY <1>4 DEF Coalesced, TypeOK, Live
  <2>2. Sections' /\ OwnNames' /\ Recorded' /\ Owned'
      BY <1>4 DEF Coalesced, Live, TypeOK, Sections, OwnNames, Recorded, Owned, Inside, Named, Holding, Waiting, NameOf, Tickets
  <2> QED BY <2>1, <2>2
<1>5. ASSUME NEW w \in Workers, Number(w) PROVE LaneInv'
  <2>1. PICK last \in InUse : name' = [name EXCEPT ![w] = [seq |-> last + 1, pid |-> PidOf[w]]]
      BY <1>5 DEF Number
  <2>2. last \in Nat /\ PidOf[w] \in Pids
      BY <2>1 DEF InUse, Live, TypeOK, Tickets, Pids
  <2>3. [seq |-> last + 1, pid |-> PidOf[w]] \in Names
      BY <2>2 DEF Names
  <2>4. TypeOK'
      BY <1>5, <2>1, <2>3 DEF Number, TypeOK, Live
  <2>5. Sections' /\ OwnNames' /\ Recorded'
      BY <1>5, <2>1, <2>3 DEF Number, TypeOK, Sections, OwnNames, Recorded, Inside, Named, Holding
  <2>6. Owned'
      BY <1>5, <2>1 DEF Number, Live, TypeOK, Owned, Holding, Waiting, NameOf, Tickets
  <2> QED BY <2>4, <2>5, <2>6
<1>6. ASSUME NEW w \in Workers, Stamp(w) PROVE LaneInv'
  <2>1. name[w] \in Names
      BY <1>6 DEF Stamp, OwnNames, Named
  <2>2. Ticket(w) \in Tickets /\ name[w].seq \in Nat
      BY <2>1 DEF Names, Tickets, Ticket
  <2>3. TypeOK'
      BY <1>6, <2>2 DEF Stamp, TypeOK
  <2>4. Sections' /\ OwnNames' /\ Recorded'
      BY <1>6 DEF Stamp, TypeOK, Sections, OwnNames, Recorded, Inside, Named, Holding
  <2>5. Owned'
      BY <1>6, <2>1 DEF Stamp, Ticket, TypeOK, Owned, Holding, Waiting, NameOf, Names, Tickets
  <2> QED BY <2>3, <2>4, <2>5
<1>7. ASSUME NEW w \in Workers, StampFails(w) PROVE LaneInv'
  <2>1. name[w] \in Names
      BY <1>7 DEF StampFails, OwnNames, Named
  <2>2. [seq |-> name[w].seq, pid |-> name[w].pid, owner |-> Nil] \in Tickets /\ name[w].seq \in Nat
      BY <2>1 DEF Names, Tickets
  <2>3. TypeOK'
      BY <1>7, <2>2 DEF StampFails, TypeOK
  <2>4. Sections' /\ OwnNames' /\ Recorded'
      BY <1>7 DEF StampFails, TypeOK, Sections, OwnNames, Recorded, Inside, Named, Holding
  <2>5. Owned'
      BY <1>7 DEF StampFails, TypeOK, Owned, Holding, Waiting, NameOf, Tickets
  <2> QED BY <2>3, <2>4, <2>5
<1>8. ASSUME NEW w \in Workers, Acquire(w) PROVE LaneInv'
  <2>1. TypeOK'
      BY <1>8 DEF Acquire, TypeOK, Live, Departed, OwnNames, Named
  <2>2. Sections' /\ OwnNames'
      BY <1>8 DEF Acquire, TypeOK, Sections, OwnNames, Inside, Named
  <2>3. Recorded'
      BY <1>8 DEF Acquire, TypeOK, Recorded, Holding
  <2>4. Owned'
      BY <1>8 DEF Acquire, Live, TypeOK, Owned, Holding, Waiting, NameOf, Tickets
  <2> QED BY <2>1, <2>2, <2>3, <2>4
<1>9. ASSUME NEW w \in Workers, Busy(w) PROVE LaneInv'
  <2>1. TypeOK'
      BY <1>9 DEF Busy, TypeOK, Live
  <2>2. Sections' /\ OwnNames' /\ Recorded' /\ Owned'
      BY <1>9 DEF Busy, Live, TypeOK, Sections, OwnNames, Recorded, Owned, Inside, Named, Holding, Waiting, NameOf, Tickets
  <2> QED BY <2>1, <2>2
<1>10. ASSUME NEW w \in Workers, GiveUp(w) PROVE LaneInv'
    BY <1>10, LetGoStep DEF GiveUp, Named, TypeOK
<1>11. ASSUME NEW w \in Workers, Unlink(w) PROVE LaneInv'
  <2>1. TypeOK'
      BY <1>11 DEF Unlink, TypeOK, Without
  <2>2. Sections' /\ OwnNames' /\ Recorded' /\ Owned'
      BY <1>11 DEF Unlink, Without, TypeOK, Sections, OwnNames, Recorded, Owned, Inside, Named, Holding, Waiting, NameOf, Tickets
  <2> QED BY <2>1, <2>2
<1>12. ASSUME NEW w \in Workers, Finish(w) PROVE LaneInv'
  <2>1. TypeOK'
      BY <1>12 DEF Finish, TypeOK
  <2>2. Sections' /\ OwnNames' /\ Recorded' /\ Owned'
      BY <1>12 DEF Finish, TypeOK, Sections, OwnNames, Recorded, Owned, Inside, Named, Holding, Waiting, NameOf, Tickets
  <2> QED BY <2>1, <2>2
<1>13. ASSUME NEW w \in Workers, Free(w) PROVE LaneInv'
  <2>1. TypeOK'
      BY <1>13 DEF Free, TypeOK, Without
  <2>2. Sections' /\ OwnNames' /\ Recorded'
      BY <1>13 DEF Free, TypeOK, Sections, OwnNames, Recorded, Inside, Named, Holding
  <2>3. Owned'
      BY <1>13 DEF Free, Without, TypeOK, Owned, Holding, Waiting, NameOf, Tickets
  <2> QED BY <2>1, <2>2, <2>3
<1>14. ASSUME NEW w \in Workers, SectionFails(w) PROVE LaneInv'
  <2>1. mutex = w /\ Named(w)
      BY <1>14 DEF SectionFails, Sections, Inside, Named
  <2>2. faults' \in 0..MaxFaults
      BY <1>14 DEF SectionFails, TypeOK
  <2>3. CASE pc[w] = "poll"
      BY <1>14, <2>1, <2>2, <2>3, LetGoStep DEF SectionFails
  <2>4. CASE pc[w] = "free"
      BY <1>14, <2>1, <2>2, <2>4, LetGoStep DEF SectionFails
  <2> QED BY <1>14, <2>3, <2>4 DEF SectionFails
<1>15. ASSUME NEW p \in Pids, Crash(p) PROVE LaneInv'
  <2>1. TypeOK'
      BY <1>15, UnlockedTickets DEF Crash, TypeOK, Departed, Threads
  <2>2. Sections' /\ OwnNames' /\ Recorded'
      BY <1>15 DEF Crash, TypeOK, Sections, OwnNames, Recorded, Inside, Named, Holding, Threads
  <2>3. \A t \in dir' : t.owner # Nil => t \in dir /\ t.owner \notin Threads(p)
      BY <1>15, UnlockedTickets DEF Crash, TypeOK
  <2>4. Owned'
      BY <1>15, <2>3 DEF Crash, TypeOK, Owned, Holding, Waiting, NameOf, Tickets
  <2> QED BY <2>1, <2>2, <2>4
<1>16. CASE UNCHANGED vars
    BY <1>16 DEF vars, TypeOK, Sections, OwnNames, Recorded, Owned, Named, Holding, Waiting, NameOf
<1>17. \A w \in Workers : Jobs[w] \subseteq Purposes
    BY LanePurposes
<1> QED
    BY <1>1, <1>2, <1>3, <1>4, <1>5, <1>6, <1>7, <1>8, <1>9, <1>10, <1>11, <1>12, <1>13, <1>14, <1>15,
       <1>16, <1>17
    DEF Next, Proceed

\* A request is dropped as coalesced only while another of its purpose has yet
\* to be served (LiteWriterCoalesced), for any number of threads and processes:
\* a locked ticket that is not the recorded holder's is one that waits.
THEOREM CoalescedAlwaysServed == Spec => CoalescedIsServed
<1>1. LaneInv /\ [Next]_vars =>
        \A w \in Workers : pc[w] = "number" /\ pc'[w] = "idle" /\ faults' = faults
            => \E u \in Workers \ {w} : Waiting(u) /\ purpose[u] = purpose[w]
  <2> SUFFICES ASSUME LaneInv, [Next]_vars, NEW w \in Workers,
                      pc[w] = "number", pc'[w] = "idle", faults' = faults
               PROVE  \E u \in Workers \ {w} : Waiting(u) /\ purpose[u] = purpose[w]
      OBVIOUS
  <2>1. Coalesced(w)
    <3> USE DEF Go, LaneInv, TypeOK
    <3>1. ASSUME NEW v \in Workers, v # w \/ pc[v] # "number",
                 \/ \E p \in Purposes : Request(v, p)
                 \/ TakeMutex(v) \/ MutexTimeout(v) \/ GiveUp(v)
                 \/ Coalesced(v) \/ Number(v) \/ Stamp(v) \/ Acquire(v) \/ Busy(v)
                 \/ Unlink(v) \/ Finish(v) \/ Free(v)
          PROVE  FALSE
        BY <3>1 DEF Request, TakeMutex, MutexTimeout, GiveUp, Coalesced, Number, Stamp,
                    Acquire, Busy, Unlink, Finish, Free, Outside
    <3>2. ASSUME NEW v \in Workers, StampFails(v) \/ SectionFails(v) PROVE FALSE
        BY <3>2 DEF StampFails, SectionFails, Fault
    <3>3. ASSUME NEW p \in Pids, Crash(p) PROVE FALSE
        BY <3>3 DEF Crash, Fault
    <3>4. pc' # pc
        BY DEF Steps
    <3>5. ~Number(w)
        BY DEF Number
    <3> QED
        BY <3>1, <3>2, <3>3, <3>4, <3>5
        DEF Next, Proceed, vars, Request, TakeMutex, MutexTimeout, GiveUp, Stamp, Acquire,
            Busy, Unlink, Finish, Free, Outside
  <2>2. PICK t \in Live : NameOf(t) # holder /\ purpose[t.owner] = purpose[w]
      BY <2>1 DEF Coalesced, Coalesces, Alike
  <2>3. t \in dir /\ t.owner \in Workers
      BY <2>2 DEF Live, LaneInv, TypeOK, Tickets
  <2>4. Waiting(t.owner)
      BY <2>2, <2>3 DEF Live, LaneInv, Owned, Recorded
  <2> QED
      BY <2>2, <2>3, <2>4 DEF Waiting
<1> QED
    BY <1>1, LaneInit, LaneStep, PTL DEF Spec, CoalescedIsServed

---------------------------------------------------------------------------
LEMMA QueueInit == Init => QueueInv
BY DEF Init, QueueInv, Ticketed, Numbered, Ordered, Waiting, Holding

\* Dropping the locks of W disturbs no one outside W.
LEMMA DepartedStep ==
    ASSUME LaneInv, LaneInv', QueueInv, NEW W \in SUBSET Workers,
           dir' = Unlocked(W), ahead' = Departed(W), name' = name,
           \A w \in W : pc'[w] \in {"idle", "remove"},
           \A w \in Workers \ W : pc'[w] = pc[w]
    PROVE  QueueInv'
<1> USE DEF LaneInv, TypeOK, QueueInv
<1>1. \A w \in Workers \ W : Ticket(w)' \in dir' <=> Ticket(w) \in dir
    BY UnlockedTickets DEF Ticket
<1>2. Ticketed'
    BY <1>1 DEF Ticketed, Waiting, Holding
<1>3. \A t \in dir' : \E u \in dir : t.seq = u.seq
    BY UnlockedTickets
<1>4. Numbered'
    BY <1>3 DEF Numbered
<1>5. Ordered'
    BY <1>1 DEF Ordered, Departed, Waiting
<1> QED BY <1>2, <1>4, <1>5

LEMMA QueueStep ==
    ASSUME LaneInv, LaneInv', QueueInv, [Next]_vars
    PROVE  QueueInv'
<1> USE LaneNil DEF LaneInv, TypeOK, QueueInv, Go
<1>1. ASSUME NEW w \in Workers, NEW p \in Purposes, Request(w, p) PROVE QueueInv'
    BY <1>1 DEF Request, Ticket, Ticketed, Numbered, Ordered, Waiting, Holding
<1>2. ASSUME NEW w \in Workers, TakeMutex(w) PROVE QueueInv'
  <2>1. /\ Section(pc[w]) \in {"number", "poll", "free", "unlink"}
        /\ pc[w] \in {"wait", "busy"} <=> Section(pc[w]) = "poll"
        /\ pc[w] = "release" <=> Section(pc[w]) = "free"
      BY <1>2 DEF TakeMutex, Outside, Section
  <2> QED
      BY <1>2, <2>1 DEF TakeMutex, Outside, Ticket, Ticketed, Numbered, Ordered, Waiting, Holding
<1>3. ASSUME NEW w \in Workers, MutexTimeout(w) \/ GiveUp(w) \/ SectionFails(w)
      PROVE  QueueInv'
  <2>1. LetGo(w) /\ pc'[w] \in {"idle", "remove"} /\ name' = name
      BY <1>3 DEF MutexTimeout, GiveUp, SectionFails
  <2>2. \A v \in Workers \ {w} : pc'[v] = pc[v]
      BY <1>3 DEF MutexTimeout, GiveUp, SectionFails
  <2>3. /\ dir' = Unlocked({w}) /\ ahead' = Departed({w})
        /\ {w} \in SUBSET Workers
        /\ \A v \in {w} : pc'[v] \in {"idle", "remove"}
      BY <2>1 DEF LetGo
  <2> HIDE DEF LaneInv, QueueInv
  <2> QED
      BY <2>1, <2>2, <2>3, DepartedStep
<1>4. ASSUME NEW w \in Workers, Coalesced(w) PROVE QueueInv'
    BY <1>4 DEF Coalesced, Live, Ticket, Ticketed, Numbered, Ordered, Waiting, Holding
<1>5. ASSUME NEW w \in Workers, Number(w) PROVE QueueInv'
  <2>1. PICK last \in InUse : /\ \A n \in InUse : n <= last
                             /\ name' = [name EXCEPT ![w] = [seq |-> last + 1, pid |-> PidOf[w]]]
      BY <1>5 DEF Number
  <2>2. last \in Nat /\ \A t \in Live : t.seq \in Nat /\ t.seq <= last
      BY <2>1 DEF InUse, Live, Tickets
  <2>3. Numbered'
    <3>1. \A v \in Workers : pc'[v] = "stamp" => v = w
        BY <1>5 DEF Number, Sections, Inside
    <3> QED BY <1>5, <2>1, <2>2, <3>1 DEF Number, Numbered
  <2>4. ~Waiting(w) /\ ~Holding(w) /\ ~Waiting(w)' /\ ~Holding(w)'
      BY <1>5 DEF Number, Waiting, Holding
  <2>5. \A v \in Workers \ {w} :
          /\ (Waiting(v)' <=> Waiting(v)) /\ (Holding(v)' <=> Holding(v))
          /\ name'[v] = name[v] /\ Ticket(v)' = Ticket(v)
      BY <1>5, <2>1 DEF Number, Waiting, Holding, Ticket
  <2>6. \A v \in Workers : Ticket(v) \in dir' <=> Ticket(v) \in dir
      BY <1>5 DEF Number, Live, Ticket
  <2>7. Ticketed'
      BY <2>4, <2>5, <2>6 DEF Ticketed
  <2>8. ahead' = ahead /\ \A v \in Workers : w \notin ahead[v]
      BY <1>5, <2>4 DEF Number, Ordered
  <2>9. Ordered'
      BY <2>4, <2>5, <2>6, <2>8 DEF Ordered
  <2> QED BY <2>3, <2>7, <2>9
<1>6. ASSUME NEW w \in Workers, Stamp(w) PROVE QueueInv'
  <2>1. \A v \in Workers : pc'[v] # "stamp"
      BY <1>6 DEF Stamp, Sections, Inside
  <2>0. \A v \in Workers : Ticket(v)' = Ticket(v)
      BY <1>6 DEF Stamp, Ticket
  <2>2. Ticketed'
      BY <1>6, <2>0 DEF Stamp, Ticketed, Waiting, Holding
  <2>3. \A u \in Workers : Ticket(u) \in dir => name[u].seq < name[w].seq
      BY <1>6 DEF Stamp, Numbered, Ticket
  <2>5. \A u \in Workers \ {w} : Ticket(u) \in dir' => Ticket(u) \in dir
      BY <1>6 DEF Stamp, Ticket
  <2>6. \A v \in Workers : w \notin ahead[v]
      BY <1>6 DEF Stamp, Ordered, Waiting
  <2>7. \A v \in Workers \ {w} : ahead'[v] = ahead[v]
      BY <1>6 DEF Stamp
  <2>8. ahead'[w] = {u \in Workers : Waiting(u)} /\ ~Waiting(w)
      BY <1>6 DEF Stamp, Waiting
  <2>4. Ordered'
    <3> SUFFICES ASSUME NEW v \in Workers, NEW u \in ahead'[v]
                 PROVE  /\ Waiting(v)' /\ Waiting(u)'
                        /\ Ticket(u) \in dir' => name[u].seq < name[v].seq
        BY <1>6, <2>0 DEF Stamp, Ordered
    <3>1. CASE v = w
        BY <1>6, <2>3, <2>5, <2>8, <3>1 DEF Stamp, Waiting
    <3>2. CASE v # w
        BY <1>6, <2>5, <2>6, <2>7, <3>2 DEF Stamp, Ordered, Waiting
    <3> QED BY <3>1, <3>2
  <2> QED BY <2>1, <2>2, <2>4 DEF Numbered
<1>7. ASSUME NEW w \in Workers, StampFails(w) PROVE QueueInv'
  <2>1. \A v \in Workers : pc'[v] # "stamp"
      BY <1>7 DEF StampFails, Sections, Inside
  <2>2. Ticketed' /\ Ordered'
      BY <1>7 DEF StampFails, Ticket, Ticketed, Ordered, Waiting, Holding
  <2> QED BY <2>1, <2>2 DEF Numbered
<1>8. ASSUME NEW w \in Workers, Acquire(w) PROVE QueueInv'
    BY <1>8 DEF Acquire, Live, Departed, Ticket, Ticketed, Numbered, Ordered, Waiting, Holding
<1>9. ASSUME NEW w \in Workers, Busy(w) PROVE QueueInv'
    BY <1>9 DEF Busy, Live, Ticket, Ticketed, Numbered, Ordered, Waiting, Holding
<1>10. ASSUME NEW w \in Workers, Unlink(w) \/ Free(w) PROVE QueueInv'
  <2>1. /\ Named(w)
        /\ dir' = Without(name[w])
        /\ pc' = [pc EXCEPT ![w] = "idle"]
        /\ UNCHANGED <<name, ahead>>
        /\ ~Waiting(w)
      BY <1>10 DEF Unlink, Free, Named, Waiting
  <2>2. \A v \in Workers \ {w} : Named(v) /\ name[v] = name[w] => w \in Beside(v)
      BY <2>1 DEF OwnNames, Beside
  <2>3. Ticketed'
    <3> SUFFICES ASSUME NEW v \in Workers, (Waiting(v) \/ Holding(v))'
                 PROVE  Ticket(v) \in dir' \/ Beside(v) # {}
        BY <2>1 DEF Ticketed, Ticket
    <3>1. v # w /\ (Waiting(v) \/ Holding(v))
        BY <2>1 DEF Waiting, Holding
    <3>2. Named(v) /\ name[v] \in Names
        BY <3>1 DEF OwnNames, Named, Waiting, Holding
    <3>3. NameOf(Ticket(v)) = name[v]
        BY <3>2 DEF Names, NameOf, Ticket
    <3>4. Ticket(v) \in dir \/ Beside(v) # {}
        BY <3>1 DEF Ticketed
    <3> QED BY <2>1, <2>2, <3>1, <3>2, <3>3, <3>4 DEF Without
  <2>4. Numbered' /\ Ordered'
      BY <2>1 DEF Without, Ticket, Numbered, Ordered, Waiting
  <2> QED BY <2>3, <2>4
<1>11. ASSUME NEW w \in Workers, Finish(w) PROVE QueueInv'
    BY <1>11 DEF Finish, Ticket, Ticketed, Numbered, Ordered, Waiting, Holding
<1>12. ASSUME NEW p \in Pids, Crash(p) PROVE QueueInv'
    BY <1>12, DepartedStep DEF Crash, Threads
<1>13. CASE UNCHANGED vars
    BY <1>13 DEF vars, Ticket, Ticketed, Numbered, Ordered, Waiting, Holding
<1>14. \A w \in Workers : Jobs[w] \subseteq Purposes
    BY LanePurposes
<1> QED
    BY <1>1, <1>2, <1>3, <1>4, <1>5, <1>6, <1>7, <1>8, <1>9, <1>10, <1>11, <1>12, <1>13, <1>14
    DEF Next, Proceed

\* The lane goes to whoever was queued first (lite_lane), whoever timed out, died
\* or lost the counter file in between, for any number of threads in any number of
\* processes; only a waiter whose ticket file is gone is passed over, and only one
\* that is not alone in its process can lose it.
THEOREM ArrivalOrderKept == Spec => FirstComeFirstServed
<1>1. Init => LaneInv /\ QueueInv
    BY LaneInit, QueueInit
<1>2. LaneInv /\ QueueInv /\ [Next]_vars => (LaneInv /\ QueueInv)'
    BY LaneStep, QueueStep
<1>3. LaneInv /\ QueueInv /\ [Next]_vars =>
        \A w \in Workers : lane' = w /\ lane # w => \A u \in ahead[w] : Lost(u)
  <2> SUFFICES ASSUME LaneInv, QueueInv, [Next]_vars, NEW w \in Workers, lane' = w, lane # w,
                      NEW u \in ahead[w]
               PROVE  Lost(u)
      OBVIOUS
  <2>1. Acquire(w)
      BY LaneNil
      DEF Next, Proceed, vars, Request, TakeMutex, MutexTimeout, LetGo, GiveUp, SectionFails,
          StampFails, Coalesced, Number, Stamp, Acquire, Busy, Unlink, Finish, Free, Crash
  <2>2. u \in Workers /\ Waiting(u) /\ (Ticket(u) \in dir => name[u].seq < name[w].seq)
      BY DEF QueueInv, Ordered, LaneInv, TypeOK
  <2>3. name[w] \in Names /\ name[u] \in Names
      BY <2>1, <2>2 DEF Acquire, LaneInv, OwnNames, Named, Waiting
  <2>4. ASSUME Ticket(u) \in dir PROVE FALSE
    <3>1. Ticket(u) \in Live /\ Ticket(u).seq = name[u].seq
        BY <2>2, <2>4, LaneNil DEF Live, Ticket
    <3>2. PICK t \in Live : NameOf(t) = name[w] /\ \A v \in Live : t.seq <= v.seq
        BY <2>1, <3>1 DEF Acquire, First
    <3>3. t.seq = name[w].seq
        BY <3>2 DEF NameOf
    <3>4. name[w].seq <= name[u].seq
        BY <3>1, <3>2, <3>3
    <3> QED BY <2>2, <2>3, <2>4, <3>4 DEF Names
  <2>5. Beside(u) # {}
      BY <2>2, <2>4 DEF QueueInv, Ticketed
  <2> QED BY <2>2, <2>4, <2>5 DEF Lost, Beside
<1> QED
    BY <1>1, <1>2, <1>3, PTL DEF Spec, FirstComeFirstServed

---------------------------------------------------------------------------
\* a thread of the same process whose ticket had the same name removes the file
Takes(v, u) ==
    PidOf[v] = PidOf[u] /\ name[v] = name[u] /\ pc[v] \in {"unlink", "free"}

\* Who waits keeps its ticket, but for that.
TicketsStay ==
    [][\A u \in Workers :
          Waiting(u) /\ Waiting(u)' /\ Ticket(u) \in dir /\ Ticket(u)' \notin dir'
              => \E v \in Workers \ {u} : Takes(v, u)]_vars

\* A waiter loses its ticket file in one way only, in the section of _acquire or
\* _release in which another thread of its process removes its own by its name.
THEOREM TicketsAreKept == Spec => TicketsStay
<1>1. LaneInv /\ [Next]_vars =>
        \A u \in Workers :
           Waiting(u) /\ Waiting(u)' /\ Ticket(u) \in dir /\ Ticket(u)' \notin dir'
              => \E v \in Workers \ {u} : Takes(v, u)
  <2> SUFFICES ASSUME LaneInv, [Next]_vars, NEW u \in Workers, Waiting(u), Waiting(u)',
                      Ticket(u) \in dir, Ticket(u)' \notin dir'
               PROVE  \E v \in Workers \ {u} : Takes(v, u)
      OBVIOUS
  <2> USE LaneNil DEF LaneInv, TypeOK, Go
  <2>0. Ticket(u) \in Live /\ Ticket(u).owner = u
      BY DEF Live, Ticket
  <2>1. ASSUME NEW w \in Workers,
               \/ \E p \in Purposes : Request(w, p)
               \/ TakeMutex(w) \/ Finish(w) \/ Stamp(w) \/ StampFails(w)
               \/ Coalesced(w) \/ Acquire(w) \/ Busy(w)
        PROVE  FALSE
      BY <2>0, <2>1 DEF Request, TakeMutex, Finish, Stamp, StampFails, Coalesced, Acquire, Busy, Ticket
  <2>2. ASSUME NEW w \in Workers, Number(w) PROVE FALSE
      BY <2>0, <2>2 DEF Number, Waiting, Ticket
  <2>3. ASSUME NEW w \in Workers, MutexTimeout(w) \/ GiveUp(w) \/ SectionFails(w) PROVE FALSE
    <3>1. dir' = Unlocked({w}) /\ name' = name /\ pc'[w] \in {"idle", "remove"}
        BY <2>3 DEF MutexTimeout, GiveUp, SectionFails, LetGo
    <3>2. u # w
        BY <3>1 DEF Waiting
    <3> QED BY <3>1, <3>2, UnlockedTickets DEF Ticket
  <2>4. ASSUME NEW p \in Pids, Crash(p) PROVE FALSE
    <3>1. u \notin Threads(p)
        BY <2>4 DEF Crash, Waiting
    <3> QED BY <2>4, <3>1, UnlockedTickets DEF Crash, Ticket
  <2>5. ASSUME NEW w \in Workers, Unlink(w) \/ Free(w) PROVE \E v \in Workers \ {u} : Takes(v, u)
    <3>1. w # u /\ pc[w] \in {"unlink", "free"} /\ dir' = Without(name[w]) /\ name' = name
        BY <2>5 DEF Unlink, Free, Waiting
    <3>2. NameOf(Ticket(u)) = name[w]
        BY <3>1 DEF Without, Ticket
    <3>3. name[u] \in Names /\ name[u].pid = PidOf[u] /\ name[w].pid = PidOf[w]
        BY <3>1 DEF OwnNames, Named, Waiting
    <3>4. NameOf(Ticket(u)) = name[u]
        BY <3>3 DEF Names, NameOf, Ticket
    <3> QED BY <3>1, <3>2, <3>3, <3>4 DEF Takes
  <2>6. CASE UNCHANGED vars
      BY <2>6 DEF vars, Ticket
  <2> QED
      BY <2>1, <2>2, <2>3, <2>4, <2>5, <2>6, LanePurposes DEF Next, Proceed
<1> QED
    BY <1>1, LaneInit, LaneStep, PTL DEF Spec, TicketsStay
=============================================================================
