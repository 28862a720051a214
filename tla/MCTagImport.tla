----------------------------- MODULE MCTagImport -----------------------------
EXTENDS TagImport
CONSTANTS v1, v2, v3
MCValues == {v1, v2, v3}
MCGivenExternalIds == {NoExternalId}
MCSymmetry == Permutations(MCValues)

Id(v) == <<v, 1>>
Row(v, value, parent) ==
    [id |-> Id(v), value |-> value, parent_id |-> IF parent = Absent THEN Absent ELSE Id(parent)]

\* Nothing, or what adding three tags one after the other makes, and moving one
\* with a subtag: a chain of three is then deeper than a save allows.
Added(rows, v, parent) == Saved(rows, Len(rows), NewTag(rows, v, parent, NoExternalId))
MCStartTags ==
    {<< >>} \cup
    {Added(Added(Added(<< >>, v1, 0), v2, p), v3, q) : p \in {1}, q \in 1 .. 2} \cup
    {Added(Added(Added(<< >>, v1, 0), v2, 0), v3, 2)}

\* Rows that name their tag by its first value, below any other tag.
OwnRows == {Row(v, v, p) : v \in MCValues, p \in MCValues \cup {Absent}} \
           {Row(v, v, v) : v \in MCValues}

Distinct(file) == \A j, k \in DOMAIN file : j # k => file[j].id # file[k].id
OneRoot(file) == Cardinality({k \in DOMAIN file : file[k].parent_id = Absent}) = 1

\* No rows or one; three rows in any order, one without a parent; two rows, one
\* below the other, with two values in common or not; a row without a value.
MCFiles ==
    {<< >>} \cup {<<row>> : row \in OwnRows}
    \cup {file \in [1 .. 3 -> OwnRows] : Distinct(file) /\ OneRoot(file)}
    \cup {<<Row(v, x, Absent), Row(w, w, v)>> : v, w, x \in MCValues}
    \cup {<<[Row(v, v, Absent) EXCEPT !.value = Absent]>> : v \in MCValues}
==============================================================================
