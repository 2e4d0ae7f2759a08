-------------------------------- MODULE Picked --------------------------------
(***************************************************************************)
(* What the readings of the fixture scripts pick out of a list: the        *)
(* comprehensions and loops that keep some of it and its order.            *)
(***************************************************************************)
EXTENDS Naturals, Sequences

(* The numbers of I up to n in order, and the records of a table at them.  *)
InOrder(I, n) ==
    LET order[k \in 0..n] == IF k = 0 THEN <<>>
                             ELSE IF k \in I THEN Append(order[k - 1], k) ELSE order[k - 1]
    IN  order[n]
Those(table, I) ==
    LET order == InOrder(I, Len(table)) IN [k \in DOMAIN order |-> table[order[k]]]
===============================================================================
