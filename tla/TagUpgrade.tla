------------------------------ MODULE TagUpgrade ------------------------------
(***************************************************************************)
(* The data migrations of tags: 0020 computes the depth and lineage of     *)
(* every tag from the parents, one level at a time, and 0022 makes up an   *)
(* external id for every tag without one.  They are run here on every tree *)
(* of tags that requests can make, after taking the columns out of it.     *)
(***************************************************************************)
EXTENDS TagTree

CONSTANT Levels      \* levels below the roots that 0020 walks down: 19

ASSUME TagUpgradeAssumption == Levels \in Nat /\ TAXONOMY_MAX_DEPTH <= Levels

-----------------------------------------------------------------------------
(* 0020_tag_depth_and_lineage.                                             *)

\* The new columns hold their defaults.
WithoutLineage(rows) ==
    [t \in DOMAIN rows |-> [rows[t] EXCEPT !.depth = 0, !.lineage = << >>]]

\* Mutant: a tag is written once, at the first level that reaches it.
PopulateLevelOnce(rows, level) ==
    [t \in DOMAIN rows |->
        LET parent == rows[t].parent
        IN  IF parent = NoTag \/ rows[t].depth # 0 THEN rows[t]
            ELSE [rows[t] EXCEPT !.depth = level,
                                 !.lineage = Append(rows[parent].lineage, rows[t].value)]]

\* Every tag whose parent has the depth above, as all parents are read before
\* the first update.  Deeper tags start with depth 0 like the roots, so their
\* children are written too early, and again when their own level comes.
PopulateLevel(rows, level) ==
    [t \in DOMAIN rows |->
        LET parent == rows[t].parent
        IN  IF parent = NoTag \/ rows[parent].depth # level - 1
            THEN rows[t]
            ELSE [rows[t] EXCEPT !.depth = level,
                                 !.lineage = Append(rows[parent].lineage, rows[t].value)]]

\* populate_depth_and_lineage.  It stops at the first level without tags, where
\* the levels below would change nothing.
PopulateDepthAndLineage(rows) ==
    LET roots == [t \in DOMAIN rows |->
                    IF rows[t].parent = NoTag
                    THEN [rows[t] EXCEPT !.depth = 0, !.lineage = <<rows[t].value>>]
                    ELSE rows[t]]
        after[k \in 0..Levels] ==
            IF k = 0 THEN roots ELSE PopulateLevel(after[k - 1], k)
    IN  after[Levels]

-----------------------------------------------------------------------------
(* 0022_tag_external_id_not_null.                                          *)

\* Mutant: the ids already in use are not looked at.
FirstCandidate(value, existing) == <<value, 1>>

\* The first of _tag_external_id_candidate(value, 1), (value, 2), ... not taken.
FreeCandidate(value, existing) ==
    LET free == {n \in 1 .. Cardinality(existing) + 1 : <<value, n>> \notin existing}
    IN  <<value, CHOOSE n \in free : \A k \in free : n <= k>>

\* The tag with key t gets the first id that nobody has so far.
BackfillTag(rows, ids, t) ==
    [u \in DOMAIN ids \cup {t} |->
        IF u = t THEN FreeCandidate(rows[t].value, Range(ids)) ELSE ids[u]]

\* backfill: the external ids of all tags when those of missing have none.  Ids
\* are made up in the order of the keys.
Backfill(rows, missing) ==
    LET after[k \in 0..lastTag] ==
            IF k = 0 THEN [t \in DOMAIN rows \ missing |-> rows[t].external_id]
            ELSE IF k \in missing THEN BackfillTag(rows, after[k - 1], k)
            ELSE after[k - 1]
    IN  after[lastTag]

-----------------------------------------------------------------------------
(* Properties.                                                             *)

\* Rebuilding depth and lineage from the parents gives what save() kept up to
\* date through every addition, renaming, move and deletion.  The tree must not
\* be deeper than 0020 walks: save() limits the depth of the tag it saves, but
\* the cascade takes what is below a moved tag to any depth.
PopulateRestoresTheCopies ==
    (\A t \in DOMAIN tags : tags[t].depth <= Levels) =>
        PopulateDepthAndLineage(WithoutLineage(tags)) = tags

\* Whichever tags lack an external id, the ones made up for them collide neither
\* with each other nor with the ids of the rest: a renamed tag keeps the id made
\* from its old value, which another tag may have now.
BackfilledIdsAreUnique ==
    \A missing \in SUBSET DOMAIN tags :
        LET ids == Backfill(tags, missing) IN
        /\ \A s, t \in DOMAIN tags : ids[s] = ids[t] => s = t
        /\ \A t \in missing : ids[t][1] = tags[t].value
==============================================================================
