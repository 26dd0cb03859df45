------------------------------- MODULE Lists -------------------------------
(***************************************************************************)
(* Filtering a list in place, in order: what the pool's pruneDead and      *)
(* sweep do with the slots of an entry, and the upload panel's filters     *)
(* with its rows.  A recursive function, so that it can be proved about.   *)
(***************************************************************************)
EXTENDS Integers, Sequences

\* The list without the elements of the set "gone".
Without(list, gone) ==
    LET kept[n \in 0..Len(list)] ==
            IF n = 0 THEN <<>>
            ELSE IF list[n] \in gone THEN kept[n - 1]
            ELSE Append(kept[n - 1], list[n])
    IN  kept[Len(list)]

=============================================================================
