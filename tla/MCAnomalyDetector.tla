-------------------------- MODULE MCAnomalyDetector --------------------------
(* Aggregates for TLC: two metrics stand for the three of the code.        *)
EXTENDS AnomalyDetector

\* In bytes every threshold is met exactly: 4 is twice the mean of 2, 2, 2, one
\* and a half times that of 2, 2, 4, and one and a fifth that of 2, 4, 4.  In
\* flows the mean may be zero.
SomeFlows == { [bytes |-> 2, flows |-> 0], [bytes |-> 4, flows |-> 3] }
=============================================================================
