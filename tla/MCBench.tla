------------------------------ MODULE MCBench ------------------------------
EXTENDS Bench

CONSTANTS bench, ui

MCPlans == << {<< "match" >>, << "mixed" >>}, {<< "add" >>, << "cancel" >>, << "mixed" >>} >>

\* A tag, and a commit after it.
MCVersions == {[tag |-> "v1.0", ahead |-> 0], [tag |-> "v1.0", ahead |-> 3]}

============================================================================
