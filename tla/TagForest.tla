------------------------------ MODULE TagForest ------------------------------
(***************************************************************************)
(* What a taxonomy promises of its tags: a forest.  A tag is known by its  *)
(* path, the identities of its ancestors from the root down to itself.     *)
(* Giving a tag a new value changes no path.  TagTree, which keeps parents *)
(* and cached lineages of values instead, is shown to implement this.      *)
(***************************************************************************)
EXTENDS Naturals, Sequences, SequencesExt

CONSTANT Tags      \* the identities a tag can have

VARIABLE path      \* the path of every existing tag

vars == <<path>>

\* The tags t and everything under it.
Under(t) == {u \in DOMAIN path : IsPrefix(path[t], path[u])}

\* The paths a new child's path is put after: no parent means the root.
Places == {<< >>} \cup {path[p] : p \in DOMAIN path}

Init == path = << >>

Add(t, place) ==
    /\ t \notin DOMAIN path
    /\ path' = [u \in DOMAIN path \cup {t} |->
                    IF u = t THEN Append(place, t) ELSE path[u]]

\* A tag moves with everything under it, but never below itself.
Move(t, place) ==
    /\ ~ IsPrefix(path[t], place)
    /\ path' = [u \in DOMAIN path |->
                    IF u \in Under(t)
                    THEN place \o SubSeq(path[u], Len(path[t]), Len(path[u]))
                    ELSE path[u]]

\* Tags are deleted with everything under them.
Delete(ts) ==
    path' = [u \in DOMAIN path \ UNION {Under(t) : t \in ts} |-> path[u]]

Next ==
    \/ \E t \in Tags, place \in Places : Add(t, place)
    \/ \E t \in DOMAIN path, place \in Places : Move(t, place)
    \/ \E ts \in SUBSET DOMAIN path : Delete(ts)

Spec == Init /\ [][Next]_vars
==============================================================================
