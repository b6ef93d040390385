------------------------- MODULE RingBufferProofs -------------------------
(***************************************************************************)
(* The safety of the ring buffer, for every size N > 1 and any number of   *)
(* items.  The inductive invariant says how far apart the two indices are, *)
(* how stale each thread's view of the other index may be, and what every  *)
(* slot between them holds.                                                *)
(***************************************************************************)
EXTENDS RingBuffer, SequenceTheorems, TLAPS

\* Items pushed and not yet popped.
Count == sent - rcvd

\* head_ is Count slots after tail_, and never catches up with it from behind.
Distance == Count \in 0 .. (N - 1) /\ head_ = Fwd(tail_, Count)

\* The consumer's view of head_ is not behind tail_, and is ahead of it once pop
\* has seen an item; the producer's view of tail_ leaves one slot free, and one
\* more once push has seen room.
Views ==
    /\ lag_head <= Count
    /\ cpc \in {"read", "store"} => lag_head < Count
    /\ lag_tail + Count <= N - 1
    /\ ppc \in {"write", "store"} => lag_tail + Count < N - 1

\* The slots from tail_ to head_ hold the next items in order.
Contents ==
    /\ \A i \in 0 .. (N - 1) :
           i < Count /\ ~(i = 0 /\ cpc = "store") => buf_[Fwd(tail_, i)] = rcvd + 1 + i
    /\ ppc = "store" => buf_[head_] = sent + 1
    /\ cpc = "store" => item = rcvd + 1
    /\ cpc # "store" => item = rcvd

\* The shutdown handshake.
Shutdown ==
    /\ main # "serving" => ppc = "idle"
    /\ cpc = "empty" => main = "stopping" /\ lag_head = 0
    /\ cpc = "exited" => main = "stopping" /\ Count = 0

IInv == TypeOK /\ Distance /\ Views /\ Contents /\ Shutdown

---------------------------------------------------------------------------

\* An empty ring with both threads at the top of their loops.
LEMMA InitIInv == Init => IInv
  BY NAssumption DEF Init, IInv, TypeOK, Distance, Views, Contents, Shutdown, Count, Slots,
                     Moved, Fwd

\* One case per memory access.
LEMMA NextIInv == IInv /\ [Next]_vars => IInv'
<1> SUFFICES ASSUME IInv, [Next]_vars PROVE IInv'
  OBVIOUS
<1> USE NAssumption
<1>1. CASE PushBegin
  BY <1>1 DEF IInv, TypeOK, Distance, Views, Contents, Shutdown, Count, Slots, PushBegin
<1>2. ASSUME NEW lag \in 0 .. N, PushLoadTail(lag) PROVE IInv'
  BY <1>2 DEF IInv, TypeOK, Distance, Views, Contents, Shutdown, Count, Slots, PushLoadTail,
              Succ, Back, Fwd
<1>3. CASE PushWrite
  <2>1. TypeOK' /\ Distance' /\ Views' /\ Shutdown'
    BY <1>3 DEF IInv, TypeOK, Distance, Views, Shutdown, Count, Slots, PushWrite
  <2>2. Contents'
    <3>1. \A i \in 0 .. (N - 1) : i < Count => Fwd(tail_, i) \in Slots /\ Fwd(tail_, i) # head_
      BY DEF IInv, TypeOK, Distance, Fwd, Slots, Count
    <3>2. ppc' = "store" /\ cpc' = cpc /\ item' = item /\ rcvd' = rcvd /\ sent' = sent
            /\ tail_' = tail_ /\ head_' = head_ /\ buf_' = [buf_ EXCEPT ![head_] = sent + 1]
      BY <1>3 DEF PushWrite
    <3> QED BY <3>1, <3>2 DEF IInv, TypeOK, Contents, Count, Fwd
  <2> QED BY <2>1, <2>2 DEF IInv
<1>4. CASE PushStoreHead
  <2>1. TypeOK' /\ Distance' /\ Views' /\ Shutdown'
    BY <1>4 DEF IInv, TypeOK, Distance, Views, Shutdown, Count, Slots, PushStoreHead, Succ, Fwd
  <2>2. Contents'
    <3>1. /\ ppc = "store" /\ ppc' = "idle" /\ cpc' = cpc /\ rcvd' = rcvd /\ sent' = sent + 1
          /\ tail_' = tail_ /\ buf_' = buf_ /\ item' = item
      BY <1>4 DEF PushStoreHead
    <3>2. Count' = Count + 1 /\ Count \in 0 .. (N - 1)
      BY <3>1 DEF IInv, TypeOK, Distance, Count
    <3>3. buf_[Fwd(tail_, Count)] = rcvd + 1 + Count
      BY <3>1 DEF IInv, TypeOK, Distance, Contents, Count
    <3>4. ASSUME NEW i \in 0 .. (N - 1), i < Count + 1, ~(i = 0 /\ cpc = "store")
          PROVE  buf_[Fwd(tail_, i)] = rcvd + 1 + i
      <4>1. CASE i = Count BY <4>1, <3>3
      <4>2. CASE i < Count BY <4>2, <3>4 DEF IInv, Contents
      <4> QED BY <3>2, <3>4, <4>1, <4>2
    <3> QED BY <3>1, <3>2, <3>4 DEF IInv, Contents, Fwd
  <2> QED BY <2>1, <2>2 DEF IInv
<1>5. CASE SeeNoStop
  BY <1>5 DEF IInv, TypeOK, Distance, Views, Contents, Shutdown, Count, Slots, SeeNoStop
<1>6. CASE SeeStop
  BY <1>6 DEF IInv, TypeOK, Distance, Views, Contents, Shutdown, Count, Slots, SeeStop, stop_
<1>7. ASSUME NEW lag \in 0 .. N, CheckEmpty(lag) PROVE IInv'
  BY <1>7 DEF IInv, TypeOK, Distance, Views, Contents, Shutdown, Count, Slots, CheckEmpty,
              Back, Fwd
<1>8. ASSUME NEW lag \in 0 .. N, PopLoadHead(lag) PROVE IInv'
  BY <1>8 DEF IInv, TypeOK, Distance, Views, Contents, Shutdown, Count, Slots, PopLoadHead,
              Back, Fwd
<1>9. CASE PopRead
  <2>1. TypeOK' /\ Distance' /\ Views' /\ Shutdown'
    BY <1>9 DEF IInv, TypeOK, Distance, Views, Shutdown, Count, Slots, PopRead, Moved
  <2>2. Contents'
    <3>1. \A i \in 1 .. (N - 1) : i < Count => Fwd(tail_, i) \in Slots /\ Fwd(tail_, i) # tail_
      BY DEF IInv, TypeOK, Distance, Fwd, Slots, Count
    <3>2. buf_[tail_] = rcvd + 1 /\ head_ # tail_
      <4>1. 0 \in 0 .. (N - 1) /\ 0 < Count /\ Fwd(tail_, 0) = tail_ /\ cpc # "store"
        BY <1>9 DEF IInv, TypeOK, Views, Fwd, Slots, PopRead, Count
      <4>2. buf_[Fwd(tail_, 0)] = rcvd + 1 + 0
        BY <4>1 DEF IInv, Contents
      <4>3. head_ # tail_
        BY <4>1 DEF IInv, TypeOK, Distance, Fwd, Slots, Count
      <4> QED BY <4>1, <4>2, <4>3 DEF IInv, TypeOK
    <3>3. cpc' = "store" /\ ppc' = ppc /\ item' = buf_[tail_] /\ rcvd' = rcvd /\ sent' = sent
            /\ tail_' = tail_ /\ head_' = head_ /\ buf_' = [buf_ EXCEPT ![tail_] = Moved]
            /\ cpc = "read"
      BY <1>9 DEF PopRead
    <3>4. ASSUME NEW i \in 0 .. (N - 1), i < Count, i # 0
          PROVE  buf_'[Fwd(tail_, i)] = rcvd + 1 + i
      <4>1. i \in 1 .. (N - 1)
        BY <3>4
      <4>2. buf_'[Fwd(tail_, i)] = buf_[Fwd(tail_, i)]
        BY <3>1, <3>3, <3>4, <4>1 DEF IInv, TypeOK
      <4> QED BY <3>3, <3>4, <4>2 DEF IInv, Contents
    <3>5. ppc = "store" => buf_'[head_] = sent + 1
      BY <3>2, <3>3 DEF IInv, TypeOK, Contents
    <3>6. Count' = Count
      BY <3>3 DEF Count
    <3> QED BY <3>2, <3>3, <3>4, <3>5, <3>6 DEF Contents, Fwd
  <2> QED BY <2>1, <2>2 DEF IInv
<1>10. CASE PopStoreTail
  <2>1. TypeOK' /\ Distance' /\ Views' /\ Shutdown'
    BY <1>10 DEF IInv, TypeOK, Distance, Views, Shutdown, Count, Slots, PopStoreTail, Succ, Fwd
  <2>2. Contents'
    <3>1. ASSUME NEW i \in 0 .. (N - 1), i < Count - 1
          PROVE  buf_[Fwd(Succ(tail_), i)] = rcvd + 1 + 1 + i
      <4>1. i + 1 \in 0 .. (N - 1) /\ i + 1 < Count /\ i + 1 # 0
        BY <3>1 DEF IInv, TypeOK, Distance, Count
      <4>2. Fwd(Succ(tail_), i) = Fwd(tail_, i + 1)
        BY <4>1 DEF IInv, TypeOK, Succ, Fwd, Slots
      <4>3. buf_[Fwd(tail_, i + 1)] = rcvd + 1 + (i + 1)
        BY <4>1 DEF IInv, Contents
      <4> QED BY <4>2, <4>3 DEF IInv, TypeOK
    <3>2. cpc' = "top" /\ ppc' = ppc /\ rcvd' = rcvd + 1 /\ sent' = sent
            /\ tail_' = Succ(tail_) /\ head_' = head_ /\ buf_' = buf_
      BY <1>10 DEF PopStoreTail
    <3>3. Count' = Count - 1
      BY <3>2 DEF Count, IInv, TypeOK
    <3>4. ppc = "store" => buf_[head_] = sent + 1
      BY DEF IInv, Contents
    <3>5. item' = rcvd + 1
      BY <1>10 DEF PopStoreTail, IInv, Contents
    <3> QED BY <3>1, <3>2, <3>3, <3>4, <3>5 DEF Contents
  <2> QED BY <2>1, <2>2 DEF IInv
<1>11. CASE JoinProducer
  BY <1>11 DEF IInv, TypeOK, Distance, Views, Contents, Shutdown, Count, Slots, JoinProducer
<1>12. CASE Stop
  BY <1>12 DEF IInv, TypeOK, Distance, Views, Contents, Shutdown, Count, Slots, Stop
<1>13. CASE UNCHANGED vars
  BY <1>13 DEF IInv, TypeOK, Distance, Views, Contents, Shutdown, Count, Slots, vars, Fwd
<1> QED
  BY <1>1, <1>2, <1>3, <1>4, <1>5, <1>6, <1>7, <1>8, <1>9, <1>10, <1>11, <1>12, <1>13
     DEF Next, Push, Run, Exited

\* The strengthened invariant holds in every reachable state of the two threads.
THEOREM RingInvariant == Spec => []IInv
  BY InitIInv, NextIInv, PTL DEF Spec

\* The indices stay inside the ring and the views inside their bounds, whatever
\* stale value a load returns.
THEOREM RingTypeOK == Spec => []TypeOK
  BY RingInvariant, PTL DEF IInv

\* push never writes the slot that pop is moving an item out of.
THEOREM RingNoSlotRace == Spec => []NoSlotRace
<1>1. IInv => NoSlotRace
  BY NAssumption DEF IInv, TypeOK, Distance, Views, Count, Slots, Fwd, NoSlotRace
<1> QED BY <1>1, RingInvariant, PTL

\* pop hands out the items in the order push took them, each once.
THEOREM RingInOrder == Spec => []InOrder
<1>1. IInv => InOrder
  BY DEF IInv, Contents, InOrder
<1> QED BY <1>1, RingInvariant, PTL

\* The engine thread leaves its loop only when it has received every item.
THEOREM RingExitsDrained == Spec => []ExitsDrained
<1>1. IInv => ExitsDrained
  BY DEF IInv, TypeOK, Shutdown, Count, ExitsDrained
<1> QED BY <1>1, RingInvariant, PTL

---------------------------------------------------------------------------
(* Refinement: the queue of WorkQueue is read off the numbers              *)

\* The items after b, k of them.
Items(b, k) == [i \in 1 .. k |-> b + i]

\* The queue as a sequence of consecutive items.
LEMMA ItemsSeq ==
    ASSUME NEW b \in Nat, NEW k \in Nat
    PROVE  Items(b, k) \in Seq(Nat) /\ Len(Items(b, k)) = k
<1>1. Items(b, k) \in [1 .. k -> Nat]
  BY DEF Items
<1> QED BY <1>1, SeqDef

\* A push extends it by the next item.
LEMMA ItemsAppend ==
    ASSUME NEW b \in Nat, NEW k \in Nat
    PROVE  Items(b, k + 1) = Append(Items(b, k), b + k + 1)
  BY ItemsSeq DEF Items

\* A pop takes its first item.
LEMMA ItemsTail ==
    ASSUME NEW b \in Nat, NEW k \in Nat, k > 0
    PROVE  /\ Items(b, k) # << >>
           /\ Head(Items(b, k)) = b + 1
           /\ Tail(Items(b, k)) = Items(b + 1, k - 1)
<1>1. Items(b, k) \in Seq(Nat) /\ Len(Items(b, k)) = k /\ Items(b, k) # << >>
  BY ItemsSeq
<1>2. Head(Items(b, k)) = b + 1
  BY <1>1 DEF Items
<1>3. /\ Tail(Items(b, k)) \in Seq(Nat)
      /\ Len(Tail(Items(b, k))) = k - 1
      /\ \A i \in 1 .. (k - 1) : Tail(Items(b, k))[i] = Items(b, k)[i + 1]
  BY <1>1, HeadTailProperties
<1>4. Items(b + 1, k - 1) \in Seq(Nat) /\ Len(Items(b + 1, k - 1)) = k - 1
  BY ItemsSeq
<1>5. \A i \in 1 .. (k - 1) : Tail(Items(b, k))[i] = Items(b + 1, k - 1)[i]
  BY <1>3 DEF Items
<1>6. Tail(Items(b, k)) = Items(b + 1, k - 1)
  BY <1>3, <1>4, <1>5, SeqEqual
<1> QED BY <1>1, <1>2, <1>6

Queue == [i \in 1 .. (Occupied - Skip) |-> buf_[Fwd(tail_, i - 1 + Skip)]]

\* The slots from tail_ to head_ are that sequence.
LEMMA QueueContents ==
    ASSUME IInv
    PROVE  /\ Skip \in {0, 1} /\ item = rcvd + Skip
           /\ Count - Skip \in 0 .. (N - 1)
           /\ Occupied = Count
           /\ Queue = Items(item, Count - Skip)
<1> USE NAssumption
<1>1. Skip \in {0, 1} /\ item = rcvd + Skip
  BY DEF IInv, TypeOK, Contents, Skip
<1>2. Count - Skip \in 0 .. (N - 1)
  BY DEF IInv, TypeOK, Distance, Views, Count, Skip
<1>3. Occupied = Count
  BY DEF IInv, TypeOK, Distance, Occupied, Fwd, Slots, Count
<1>4. ASSUME NEW i \in 1 .. (Count - Skip)
      PROVE  buf_[Fwd(tail_, i - 1 + Skip)] = item + i
  <2>1. i - 1 + Skip \in 0 .. (N - 1) /\ i - 1 + Skip < Count
    BY <1>1, <1>2 DEF IInv, TypeOK, Distance, Count
  <2>2. ~(i - 1 + Skip = 0 /\ cpc = "store")
    BY DEF Skip
  <2>3. buf_[Fwd(tail_, i - 1 + Skip)] = rcvd + 1 + (i - 1 + Skip)
    BY <2>1, <2>2 DEF IInv, Contents
  <2> QED BY <1>1, <2>3 DEF IInv, TypeOK
<1> QED BY <1>1, <1>2, <1>3, <1>4 DEF Queue, Items

\* Every step of the threads is a push, a pop, or invisible.
LEMMA StepIsFifoStep ==
    ASSUME IInv, IInv', [Next]_vars
    PROVE  [Fifo!Next]_(Fifo!vars)
<1> DEFINE k == Count - Skip
<1>1. Queue = Items(item, k) /\ k \in 0 .. (N - 1)
  BY QueueContents
<1>2. Queue' = Items(item', k') /\ k' \in 0 .. (N - 1)
  <2>1. (Queue = Items(item, Count - Skip) /\ Count - Skip \in 0 .. (N - 1))'
    BY QueueContents, PTL
  <2> QED BY <2>1 DEF Items
<1>3. item \in Nat /\ item' \in Nat /\ k \in Nat /\ k' \in Nat
  BY <1>1, <1>2 DEF IInv, TypeOK
<1> HIDE DEF k
<1>4. CASE k' = k /\ item' = item
  BY <1>1, <1>2, <1>4 DEF Fifo!vars, Queue
<1>5. CASE PushStoreHead
  <2>1. k' = k + 1 /\ item' = item
    BY <1>5 DEF k, PushStoreHead, Count, Skip, IInv, TypeOK
  <2>2. Len(Queue) = k
    BY <1>1, <1>3, ItemsSeq
  <2>3. Len(Queue) < N - 1
    BY <1>2, <1>3, <2>1, <2>2, NAssumption
  <2>4. Queue' = Append(Queue, item + Len(Queue) + 1)
    BY <1>1, <1>2, <1>3, <2>1, <2>2, ItemsAppend
  <2> QED BY <2>1, <2>3, <2>4 DEF Fifo!Next, Fifo!Push, Queue
<1>6. CASE PopRead
  <2>1. k' = k - 1 /\ item' = item + 1 /\ k > 0
    <3>1. Skip = 0 /\ Skip' = 1 /\ Count' = Count /\ Count \in Int
      BY <1>6 DEF PopRead, Skip, Count, IInv, TypeOK
    <3>2. item' = rcvd + 1 /\ item = rcvd
      BY <1>6 DEF PopRead, IInv, Contents
    <3> QED BY <1>3, <3>1, <3>2 DEF k
  <2>2. Queue # << >> /\ Head(Queue) = item + 1 /\ Queue' = Tail(Queue)
    BY <1>1, <1>2, <1>3, <2>1, ItemsTail
  <2> QED BY <2>1, <2>2 DEF Fifo!Next, Fifo!Pop, Queue
<1>7. CASE PopStoreTail
  BY <1>4, <1>7 DEF PopStoreTail, k, Count, Skip, IInv, TypeOK
<1>8. PushStoreHead \/ PopRead \/ PopStoreTail \/ (k' = k /\ item' = item)
  <2>1. sent' = sent /\ rcvd' = rcvd /\ Skip' = Skip => k' = k
    BY DEF k, Count
  <2>2. PushStoreHead \/ PopRead \/ PopStoreTail
          \/ (sent' = sent /\ rcvd' = rcvd /\ Skip' = Skip /\ item' = item)
    BY DEF Next, vars, Push, Run, PushBegin, PushLoadTail, PushWrite, SeeNoStop, SeeStop,
           CheckEmpty, PopLoadHead, JoinProducer, Stop, Exited, Skip
  <2> QED BY <2>1, <2>2
<1> QED BY <1>4, <1>5, <1>6, <1>7, <1>8

\* The lock-free ring buffer implements the bounded FIFO that the model of the
\* matching engine uses for queue_: for every size, no item is lost, duplicated,
\* reordered or torn.
THEOREM RingImplementsFifo == Spec => ImplementsFifo
<1>1. Init => Fifo!Init
  BY NAssumption DEF Init, Fifo!Init, Occupied, Skip, Moved, Slots
<1>2. IInv /\ IInv' /\ [Next]_vars => [Fifo!Next]_(Fifo!vars)
  BY StepIsFifoStep
<1> QED BY <1>1, <1>2, RingInvariant, PTL DEF Spec, ImplementsFifo, Fifo!Spec
============================================================================
