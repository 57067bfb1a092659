---------------------------- MODULE MCBakeryDist ----------------------------
EXTENDS BakeryDist

Once == [h \in 1..N |-> 1]
LastTwice == [h \in 1..N |-> IF h = N THEN 2 ELSE 1]
=============================================================================
