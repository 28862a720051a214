-------------------------------- MODULE Loops --------------------------------
(***************************************************************************)
(* A loop over numbered things: the rows of a table by primary key, or the *)
(* items of a list by position, from the first to the last.                *)
(***************************************************************************)
EXTENDS Integers, FiniteSetsExt

LastOf(keys) == Max(keys \cup {0})

\* What Do makes of start, done for one key after the other.
ForEach(keys, Do(_, _), start) ==
    LET after[k \in 0 .. LastOf(keys)] ==
            IF k = 0 THEN start
            ELSE IF k \in keys THEN Do(after[k - 1], k) ELSE after[k - 1]
    IN  after[LastOf(keys)]
==============================================================================
