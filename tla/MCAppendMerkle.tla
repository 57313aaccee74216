--------------------------- MODULE MCAppendMerkle ---------------------------
(* Model-checking instance of AppendMerkle: leaves are the hashes of two   *)
(* distinct entries.                                                        *)
EXTENDS AppendMerkle

CONSTANTS e1, e2

MCVals == {Leaf(e1), Leaf(e2)}
=============================================================================
