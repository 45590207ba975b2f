----------------------------- MODULE OrderedMap -----------------------------
(***************************************************************************)
(* What a B+tree promises its callers: a map from keys to rows, which a    *)
(* call changes at one key.  A row is the number of the call that made it, *)
(* once for each piece it is kept in.                                      *)
(***************************************************************************)
EXTENDS Naturals

CONSTANTS Key, Pieces, Absent

VARIABLES map, count

Init == map = [k \in Key |-> Absent] /\ count = 0

\* The rows of one key before and after an insert, or a delete.
Put(new, n)       == new = [i \in 1 .. n |-> count']
Remove(old, new)  == old # Absent /\ new = Absent

\* The call changes the row of one key, and no other.
Next ==
  /\ count' = count + 1
  /\ LET old == map
         new == map'
     IN  \E k \in Key :
           /\ Remove(old[k], new[k]) \/ \E n \in Pieces : Put(new[k], n)
           /\ \A l \in Key \ {k} : new[l] = old[l]

Spec == Init /\ [][Next]_<<map, count>>
=============================================================================
