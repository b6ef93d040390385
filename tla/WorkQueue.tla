----------------------------- MODULE WorkQueue -----------------------------
(***************************************************************************)
(* What the matching engine assumes of its work queue: a bounded FIFO.     *)
(* The k-th item pushed is called k.  This is the queue_ of module         *)
(* MatchingEngine, whose Push and Pop take the same steps.                 *)
(***************************************************************************)
EXTENDS Naturals, Sequences

CONSTANT Capacity

VARIABLES
    queue,   \* pushed and not yet taken
    taken    \* the item taken last, 0 before the first

vars == << queue, taken >>

Init == queue = << >> /\ taken = 0

Push ==
    /\ Len(queue) < Capacity
    /\ queue' = Append(queue, taken + Len(queue) + 1)
    /\ UNCHANGED taken

Pop ==
    /\ queue # << >>
    /\ taken' = Head(queue)
    /\ queue' = Tail(queue)

Next == Push \/ Pop

Spec == Init /\ [][Next]_vars
============================================================================
