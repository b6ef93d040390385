---------------------------- MODULE LatencyStats ----------------------------
(***************************************************************************)
(* The latency samples the gateway keeps (src/src/gateway/LatencyStats.h): *)
(* three bounded vectors, one each for acknowledgements, cancels and       *)
(* fills.  A sample is named by the order it was taken for; its two        *)
(* durations are left out.                                                 *)
(***************************************************************************)
EXTENDS Naturals, Sequences

CONSTANT Capacity   \* samples a vector holds

ASSUME CapacityAssumption == Capacity \in Nat \ {0}

VARIABLE stats   \* kind -> samples_

Kinds == {"ack", "cancel", "fill"}

StatsInit == stats = [k \in Kinds |-> << >>]

\* record: what does not fit is dropped.
Record(kind, sample) ==
    stats' = [stats EXCEPT ![kind] = IF Len(@) < Capacity THEN Append(@, sample) ELSE @]

\* Mutation of ResetStats: only the acknowledgements are cleared.
ResetAcks == stats' = [stats EXCEPT !["ack"] = << >>]

\* FixGateway::reset_stats.
ResetStats == stats' = [k \in Kinds |-> << >>]
=============================================================================
