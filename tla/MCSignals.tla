----------------------------- MODULE MCSignals ------------------------------
(* Instances of Signals for TLC.                                           *)
EXTENDS Signals
CONSTANTS t1, t2, g1, b1, b2

TwoTasksPrio == [t \in {t1, t2} |-> IF t = t1 THEN 1 ELSE 2]
TwoTexts == {<<1>>, <<2, 1>>}
WaitQueues == {g1} \cup {ReadQ(b) : b \in Buffers} \cup {WriteQ(b) : b \in Buffers}
=============================================================================
