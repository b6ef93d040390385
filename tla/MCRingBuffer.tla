--------------------------- MODULE MCRingBuffer ---------------------------
EXTENDS RingBuffer

\* The threads run (the engine thread spins, submit retries) and, as C++ demands
\* of atomics, a store becomes visible to the other thread's loads in finite time.
Fairness ==
    /\ WF_vars(PushWrite \/ PushStoreHead \/ \E lag \in 0 .. N : PushLoadTail(lag))
    /\ WF_vars(Run)
    /\ SF_vars(PushLoadTail(0))
    /\ SF_vars(PopLoadHead(0))
    /\ SF_vars(SeeStop)

FairSpec == Spec /\ Fairness

\* Every pushed item reaches the engine, and stop() returns.
AllReceived == \A k \in 1 .. MaxItems : sent = k ~> rcvd >= k
StopReturns == stop_ ~> cpc = "exited"
============================================================================
