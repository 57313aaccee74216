---------------------------- MODULE MCLogManager ----------------------------
EXTENDS IonianRpc

CONSTANTS a1, a2

MCVals == {Leaf(a1), Leaf(a2)}
MCVals1 == {Leaf(a1)}
=============================================================================
