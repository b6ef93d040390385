----------------------------- MODULE RingBuffer -----------------------------
(***************************************************************************)
(* The lock-free single-producer single-consumer ring buffer               *)
(* (src/src/engine/RingBuffer.h) between the QuickFIX thread, which pushes *)
(* and spins while the ring is full (MatchingEngine::submit), and the      *)
(* engine thread, which pops in run() until stop() was called and the ring *)
(* is empty.  One step is one memory access.                               *)
(*                                                                         *)
(* Memory model.  head_ is stored only by the producer and tail_ only by   *)
(* the consumer, each reads its own index exactly.  An acquire load of the *)
(* other thread's index may return an older value, but never one older     *)
(* than a value it has already seen, or than one a happens-before edge has *)
(* made visible: lag_head and lag_tail count the stores that the reader    *)
(* may still miss.  The slots of buf_ are plain memory.                    *)
(***************************************************************************)
EXTENDS Integers, Sequences

CONSTANTS N,         \* slots, kQueueSize
          MaxItems   \* bound: items pushed

ASSUME NAssumption == N \in Nat /\ N > 1
ASSUME MaxItemsAssumption == MaxItems \in Nat

VARIABLES
    buf_, head_, tail_,
    lag_head,   \* stores to head_ the consumer may not see yet
    lag_tail,   \* stores to tail_ the producer may not see yet
    ppc,        \* producer: idle, load (tail_), write (the slot), store (head_)
    cpc,        \* consumer: top, empty, load (head_), read (the slot), store (tail_), exited
    item,       \* the consumer's local WorkItem
    main,       \* the main thread: serving, closing (producer joined), stopping
    sent, rcvd  \* completed pushes and pops; the k-th item pushed is k

vars == << buf_, head_, tail_, lag_head, lag_tail, ppc, cpc, item, main, sent, rcvd >>

Slots == 0 .. (N - 1)
Moved == 0      \* a slot nothing was written to, or whose item was moved out

stop_ == main = "stopping"

\* Mutation of Succ: the mask is missing.
SuccUnmasked(i) == i + 1

\* (i + 1) & (N - 1)
Succ(i) == IF i + 1 = N THEN 0 ELSE i + 1
\* The position n <= N steps after, or before, position i.
Fwd(i, n) == IF i + n < N THEN i + n ELSE i + n - N
Back(i, n) == IF i - n >= 0 THEN i - n ELSE i - n + N

Init ==
    /\ buf_ = [i \in Slots |-> Moved]
    /\ head_ = 0
    /\ tail_ = 0
    /\ lag_head = 0
    /\ lag_tail = 0
    /\ ppc = "idle"
    /\ cpc = "top"
    /\ item = Moved
    /\ main = "serving"
    /\ sent = 0
    /\ rcvd = 0

---------------------------------------------------------------------------
(* The producer: submit, cancel, replace or requestSnapshot                *)

\* A message arrived; push loads its own head_.
PushBegin ==
    /\ ppc = "idle"
    /\ main = "serving"
    /\ sent < MaxItems
    /\ ppc' = "load"
    /\ UNCHANGED << buf_, head_, tail_, lag_head, lag_tail, cpc, item, main, sent, rcvd >>

\* Mutation of PushLoadTail: the ring is never full.
PushLoadTailUnchecked(lag) ==
    /\ ppc = "load"
    /\ lag <= lag_tail
    /\ lag_tail' = lag
    /\ ppc' = "write"
    /\ UNCHANGED << buf_, head_, tail_, lag_head, cpc, item, main, sent, rcvd >>

\* The acquire load of tail_; when the ring looks full, push fails and submit retries.
PushLoadTail(lag) ==
    /\ ppc = "load"
    /\ lag <= lag_tail
    /\ lag_tail' = lag
    /\ ppc' = IF Succ(head_) = Back(tail_, lag) THEN "load" ELSE "write"
    /\ UNCHANGED << buf_, head_, tail_, lag_head, cpc, item, main, sent, rcvd >>

\* Mutation of PushWrite: the slot after the one that is published.
PushWriteNext ==
    /\ ppc = "write"
    /\ buf_' = [buf_ EXCEPT ![Succ(head_)] = sent + 1]
    /\ ppc' = "store"
    /\ UNCHANGED << head_, tail_, lag_head, lag_tail, cpc, item, main, sent, rcvd >>

PushWrite ==
    /\ ppc = "write"
    /\ buf_' = [buf_ EXCEPT ![head_] = sent + 1]
    /\ ppc' = "store"
    /\ UNCHANGED << head_, tail_, lag_head, lag_tail, cpc, item, main, sent, rcvd >>

\* The release store of head_.
PushStoreHead ==
    /\ ppc = "store"
    /\ head_' = Succ(head_)
    /\ lag_head' = lag_head + 1
    /\ sent' = sent + 1
    /\ ppc' = "idle"
    /\ UNCHANGED << buf_, tail_, lag_tail, cpc, item, main, rcvd >>

---------------------------------------------------------------------------
(* The consumer: MatchingEngine::run                                       *)

\* The acquire load of stop_ returns FALSE, possibly after stop() stored TRUE.
SeeNoStop ==
    /\ cpc = "top"
    /\ cpc' = "load"
    /\ UNCHANGED << buf_, head_, tail_, lag_head, lag_tail, ppc, item, main, sent, rcvd >>

\* Mutation of SeeStop: a relaxed load, which makes nothing visible.
SeeStopRelaxed ==
    /\ cpc = "top"
    /\ stop_
    /\ cpc' = "empty"
    /\ UNCHANGED << buf_, head_, tail_, lag_head, lag_tail, ppc, item, main, sent, rcvd >>

\* It returns TRUE: whatever the producer stored before it was joined is visible.
SeeStop ==
    /\ cpc = "top"
    /\ stop_
    /\ lag_head' = 0
    /\ cpc' = "empty"
    /\ UNCHANGED << buf_, head_, tail_, lag_tail, ppc, item, main, sent, rcvd >>

\* Mutation of CheckEmpty: the loop is not left.
CheckEmptyLoops(lag) ==
    /\ cpc = "empty"
    /\ lag <= lag_head
    /\ lag_head' = lag
    /\ cpc' = "load"
    /\ UNCHANGED << buf_, head_, tail_, lag_tail, ppc, item, main, sent, rcvd >>

\* queue_.empty() loads head_.
CheckEmpty(lag) ==
    /\ cpc = "empty"
    /\ lag <= lag_head
    /\ lag_head' = lag
    /\ cpc' = IF tail_ = Back(head_, lag) THEN "exited" ELSE "load"
    /\ UNCHANGED << buf_, head_, tail_, lag_tail, ppc, item, main, sent, rcvd >>

\* Mutation of PopLoadHead: an empty ring is read all the same.
PopLoadHeadUnchecked(lag) ==
    /\ cpc = "load"
    /\ lag <= lag_head
    /\ lag_head' = lag
    /\ cpc' = "read"
    /\ UNCHANGED << buf_, head_, tail_, lag_tail, ppc, item, main, sent, rcvd >>

\* Mutation of PopLoadHead: a cached head_ is never loaded again.
PopLoadHeadCached(lag) ==
    /\ cpc = "load"
    /\ lag = lag_head
    /\ cpc' = IF tail_ = Back(head_, lag) THEN "top" ELSE "read"
    /\ UNCHANGED << buf_, head_, tail_, lag_head, lag_tail, ppc, item, main, sent, rcvd >>

\* pop's acquire load of head_.
PopLoadHead(lag) ==
    /\ cpc = "load"
    /\ lag <= lag_head
    /\ lag_head' = lag
    /\ cpc' = IF tail_ = Back(head_, lag) THEN "top" ELSE "read"
    /\ UNCHANGED << buf_, head_, tail_, lag_tail, ppc, item, main, sent, rcvd >>

\* item = std::move(buf_[t])
PopRead ==
    /\ cpc = "read"
    /\ item' = buf_[tail_]
    /\ buf_' = [buf_ EXCEPT ![tail_] = Moved]
    /\ cpc' = "store"
    /\ UNCHANGED << head_, tail_, lag_head, lag_tail, ppc, main, sent, rcvd >>

\* The release store of tail_; run serves the item and loops.
PopStoreTail ==
    /\ cpc = "store"
    /\ tail_' = Succ(tail_)
    /\ lag_tail' = lag_tail + 1
    /\ rcvd' = rcvd + 1
    /\ cpc' = "top"
    /\ UNCHANGED << buf_, head_, lag_head, ppc, item, main, sent >>

---------------------------------------------------------------------------
(* The main thread: acceptor.stop() joins the producer, then engine.stop() *)

JoinProducer ==
    /\ main = "serving"
    /\ ppc = "idle"
    /\ main' = "closing"
    /\ UNCHANGED << buf_, head_, tail_, lag_head, lag_tail, ppc, cpc, item, sent, rcvd >>

Stop ==
    /\ main = "closing"
    /\ main' = "stopping"
    /\ UNCHANGED << buf_, head_, tail_, lag_head, lag_tail, ppc, cpc, item, sent, rcvd >>

Exited == cpc = "exited" /\ UNCHANGED vars

Push == \/ PushBegin \/ PushWrite \/ PushStoreHead
        \/ \E lag \in 0 .. N : PushLoadTail(lag)
Run == \/ SeeNoStop \/ SeeStop \/ PopRead \/ PopStoreTail
       \/ \E lag \in 0 .. N : CheckEmpty(lag) \/ PopLoadHead(lag)

Next == Push \/ Run \/ JoinProducer \/ Stop \/ Exited

Spec == Init /\ [][Next]_vars

---------------------------------------------------------------------------
(* Properties                                                              *)

\* The indices stay inside the array, a view is never more than one round behind, and
\* each thread is at one of its steps.
TypeOK ==
    /\ buf_ \in [Slots -> Nat]
    /\ head_ \in Slots
    /\ tail_ \in Slots
    /\ lag_head \in 0 .. (N - 1)
    /\ lag_tail \in 0 .. (N - 1)
    /\ ppc \in {"idle", "load", "write", "store"}
    /\ cpc \in {"top", "empty", "load", "read", "store", "exited"}
    /\ item \in Nat
    /\ main \in {"serving", "closing", "stopping"}
    /\ sent \in Nat
    /\ rcvd \in Nat

\* The producer never writes the slot the consumer is moving an item out of:
\* the slots are plain memory, and such a pair of accesses would be a data race.
NoSlotRace == ~(ppc = "write" /\ cpc = "read" /\ head_ = tail_)

\* Items come out in the order they went in, none twice and none lost, also after
\* the indices have wrapped around and when either thread acts on a stale index.
InOrder == cpc = "store" => item = rcvd + 1

\* The engine leaves its loop only when it has received every item that was
\* pushed: stop_ is loaded with acquire, after the producer was joined.
ExitsDrained == cpc = "exited" => rcvd = sent

---------------------------------------------------------------------------
(* The queue it implements                                                 *)

\* Items between the consumer's and the producer's position, without the one the
\* consumer has already moved out.
Occupied == IF head_ >= tail_ THEN head_ - tail_ ELSE head_ - tail_ + N
Skip == IF cpc = "store" THEN 1 ELSE 0

Fifo == INSTANCE WorkQueue WITH
    Capacity <- N - 1,
    queue    <- [i \in 1 .. (Occupied - Skip) |-> buf_[Fwd(tail_, i - 1 + Skip)]],
    taken    <- item

\* The ring buffer is a FIFO of N - 1 items: a push takes effect at the store of
\* head_, a pop at the move out of the slot.
ImplementsFifo == Fifo!Spec
============================================================================
