---------------------------- MODULE MCSharedForm ----------------------------
EXTENDS SharedForm

CONSTANTS b1, b2, guitar, bass, drums

Two == {b1, b2}
Instruments == {guitar, bass, drums}
SelOnly == {"instSel"}
SelAndBand == {"instSel", "bandVal"}
Band == {"bandVal"}
TwoAndOne == [f \in SelAndBand |-> IF f \in Band THEN 1 ELSE 2]
ThreeEdits == [f \in SelOnly |-> 3]
=============================================================================
