---------------------------- MODULE MCUiServer ----------------------------
EXTENDS UiServer

\* An order that has ended, beside one that is new or open.
MCLeft == {<< NotYet, 0 >>, << Qty, 0 >>}
============================================================================
