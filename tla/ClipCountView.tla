---------------------------- MODULE ClipCountView ----------------------------
(***************************************************************************)
(* What the aggregate item promises its readers: at every moment it is the *)
(* exact count of SOME assignment of a contribution to every index row,    *)
(* and that assignment changes one row at a time.                          *)
(***************************************************************************)
EXTENDS ClipCountIndexes

VARIABLES
    counted,    \* the contribution each row is counted with
    counts      \* the published value of every counter

Init == /\ counted = [r \in Rows |-> {}]
        /\ counts = [c \in Counters |-> 0]

\* One row is recounted; every counter follows in the same step.
Recount(r) ==
    \E item \in Contents :
        /\ counted' = [counted EXCEPT ![r] = Contribution(r, item)]
        /\ counts' = CountsOf(counted')

Next == \E r \in Rows : Recount(r)

Spec == Init /\ [][Next]_<<counted, counts>>
=============================================================================
