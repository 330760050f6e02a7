---------------------------------- MODULE Rows ----------------------------------
(***************************************************************************)
(* Some rows of a table: what a repository lists, and what a command leaves  *)
(* of it. Profiles and Routings use it.                                     *)
(***************************************************************************)
EXTENDS Naturals, Sequences

\* The rows of a list that are wanted, in their order.
RowsIn(list, wanted) ==
    LET kept[i \in 0 .. Len(list)] ==
            IF i = 0 THEN <<>>
            ELSE IF list[i] \in wanted THEN Append(kept[i - 1], list[i]) ELSE kept[i - 1]
    IN  kept[Len(list)]
=============================================================================
