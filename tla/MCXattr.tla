------------------------------ MODULE MCXattr ------------------------------
(* Instances of Xattr for TLC. *)
EXTENDS Xattr

\* read has the interesting loop; the other values only have to come, change and go.
FewLengths == [n \in Names |-> CASE n = "decmpfs" -> {0, 1, 2}
                                  [] n = "resource fork" -> {1}
                                  [] OTHER -> {0, 1}]
=============================================================================
