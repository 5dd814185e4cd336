------------------------------ MODULE Replicas ------------------------------
(***************************************************************************)
(* What the federation of registries promises, whoever mirrors whom and    *)
(* whatever is lost on the way: a registry only ever gains blocks and      *)
(* never changes a row, and a block that appears in one was either created *)
(* there or stood in a registry it was copied from.  A copy has all that   *)
(* the root of the block covers; in the other fields it may differ from    *)
(* what was created, in which case it and its copies are altered.          *)
(***************************************************************************)
CONSTANTS
    Host, Block,
    Made,       \* Made[h]: the blocks that may be created on h
    Portable    \* the blocks that may be copied

VARIABLE rows   \* rows[h]: the rows of h's registry, by block

Init == rows = [h \in Host |-> [b \in {} |-> "whole"]]

(* The first row of a block stays.                                         *)
Gain(h, b, row) ==
    rows' = [rows EXCEPT ![h] =
                [c \in DOMAIN rows[h] \cup {b} |-> IF c \in DOMAIN rows[h] THEN rows[h][c] ELSE row]]

Create(h, b) ==
    /\ b \in Made[h]
    /\ Gain(h, b, "whole")

Copy(from, to, b, row) ==
    /\ b \in DOMAIN rows[from]
    /\ row \in {rows[from][b], "altered"}
    /\ Gain(to, b, row)

Next ==
    \/ \E h \in Host, b \in Block : Create(h, b)
    \/ \E from, to \in Host, b \in Portable, row \in {"whole", "altered"} : Copy(from, to, b, row)

Spec == Init /\ [][Next]_rows
=============================================================================
