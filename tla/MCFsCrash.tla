------------------------------ MODULE MCFsCrash ------------------------------
(* Values of the constants of FsCrash: two names, each as long as a dot.   *)
EXTENDS FsCrash, TLC
CONSTANTS a, b
MCNames == {a, b}
MCNameLen == [n \in MCNames \cup {".", ".."} |-> 1]
MCSymmetry == Permutations(MCNames)
=============================================================================
