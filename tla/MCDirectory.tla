---------------------------- MODULE MCDirectory -----------------------------
(* Three names, one of which needs 16 bytes where the others need 12: a    *)
(* block of 68 bytes holds the three with 4 to spare when they are packed, *)
(* and fewer when a removal leaves the slack elsewhere than at the end.    *)
EXTENDS Directory

MCNames == {"a", "b", "longer"}
MCNameLen == [n \in MCNames \cup {".", ".."} |->
                CASE n = ".." -> 2 [] n = "longer" -> 6 [] OTHER -> 1]
=============================================================================
