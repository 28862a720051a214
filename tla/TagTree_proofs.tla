--------------------------- MODULE TagTree_proofs ----------------------------
(***************************************************************************)
(* Theorems about tags: where requests do not overlap and nobody moves a   *)
(* tag below itself, the cached depth and lineage follow the parents, the  *)
(* queries see the tree, and migration 0020 rebuilds the copies.  Whatever *)
(* requests do, migration 0022 makes up external ids that do not collide.  *)
(* And about tagged objects: their tags are counted as the tree has them,  *)
(* are copied and written as asked for, and come back when a deleted one   *)
(* does.                                                                   *)
(***************************************************************************)
EXTENDS TagUpgrade, ObjectTags,
        SequenceTheorems, FiniteSetTheorems, WellFoundedInduction, TLAPS

-----------------------------------------------------------------------------
(* Sequences                                                               *)

\* IsPrefix, position by position.
LEMMA PrefixByPosition ==
    ASSUME NEW S, NEW s \in Seq(S), NEW t \in Seq(S)
    PROVE  IsPrefix(s, t) <=> /\ Len(s) <= Len(t)
                              /\ \A k \in 1 .. Len(s) : s[k] = t[k]
<1>1. CASE Len(s) <= Len(t)
  <2>1. \A k \in 1 .. Len(s) : s[k] \in S /\ t[k] \in S
    BY <1>1, ElementOfSeq
  <2>2. /\ SubSeq(s, 1, Len(s)) \in Seq(S) /\ Len(SubSeq(s, 1, Len(s))) = Len(s)
        /\ \A k \in 1 .. Len(s) : SubSeq(s, 1, Len(s))[k] = s[k]
    BY <2>1, SubSeqProperties, LenProperties
  <2>3. /\ SubSeq(t, 1, Len(s)) \in Seq(S) /\ Len(SubSeq(t, 1, Len(s))) = Len(s)
        /\ \A k \in 1 .. Len(s) : SubSeq(t, 1, Len(s))[k] = t[k]
    BY <2>1, SubSeqProperties, LenProperties
  <2>4. (\A k \in 1 .. Len(s) : s[k] = t[k])
            => SubSeq(s, 1, Len(s)) = SubSeq(t, 1, Len(s))
    <3>1. SUFFICES ASSUME \A k \in 1 .. Len(s) : s[k] = t[k]
                   PROVE  SubSeq(s, 1, Len(s)) = SubSeq(t, 1, Len(s))
      OBVIOUS
    <3>2. \A k \in 1 .. Len(SubSeq(s, 1, Len(s))) :
              SubSeq(s, 1, Len(s))[k] = SubSeq(t, 1, Len(s))[k]
      BY <2>2, <2>3, <3>1
    <3> QED  BY <2>2, <2>3, <3>2, SeqEqual
  <2>5. SubSeq(s, 1, Len(s)) = SubSeq(t, 1, Len(s))
            => \A k \in 1 .. Len(s) : s[k] = t[k]
    BY <2>2, <2>3
  <2> QED  BY <1>1, <2>4, <2>5 DEF IsPrefix
<1>2. CASE ~ (Len(s) <= Len(t))
  BY <1>2 DEF IsPrefix
<1> QED  BY <1>1, <1>2

\* What is a prefix of a longer sequence: a prefix of the shorter, or all.
LEMMA PrefixOfAppend ==
    ASSUME NEW S, NEW s \in Seq(S), NEW t \in Seq(S), NEW v \in S
    PROVE  IsPrefix(s, Append(t, v)) <=> IsPrefix(s, t) \/ s = Append(t, v)
<1> DEFINE u == Append(t, v)
<1>1. /\ u \in Seq(S) /\ Len(u) = Len(t) + 1
      /\ \A k \in 1 .. Len(t) : u[k] = t[k]
  BY AppendProperties
<1>2. Len(s) \in Nat /\ Len(t) \in Nat
  BY LenProperties
<1> HIDE DEF u
<1>3. IsPrefix(s, u) <=> Len(s) <= Len(u) /\ \A k \in 1 .. Len(s) : s[k] = u[k]
  BY <1>1, PrefixByPosition
<1>4. IsPrefix(s, t) <=> Len(s) <= Len(t) /\ \A k \in 1 .. Len(s) : s[k] = t[k]
  BY PrefixByPosition
<1>5. CASE Len(s) <= Len(t)
  <2>1. s # u  BY <1>1, <1>2, <1>5
  <2>2. (\A k \in 1 .. Len(s) : s[k] = u[k]) <=> (\A k \in 1 .. Len(s) : s[k] = t[k])
    BY <1>1, <1>2, <1>5
  <2> QED  BY <1>1, <1>2, <1>3, <1>4, <1>5, <2>1, <2>2 DEF u
<1>6. CASE Len(s) > Len(t)
  <2>1. ~ IsPrefix(s, t)  BY <1>2, <1>4, <1>6
  <2>2. IsPrefix(s, u) => s = u
    <3>1. ASSUME IsPrefix(s, u) PROVE s = u
      <4>1. Len(s) = Len(u) /\ \A k \in 1 .. Len(s) : s[k] = u[k]
        BY <1>1, <1>2, <1>3, <1>6, <3>1
      <4> QED  BY <1>1, <4>1, SeqEqual
    <3> QED  BY <3>1
  <2>3. s = u => IsPrefix(s, u)
    BY <1>1, <1>2, <1>3
  <2> QED  BY <2>1, <2>2, <2>3 DEF u
<1> QED  BY <1>2, <1>5, <1>6

\* A lineage with another beginning in place of its own.
Regrown(old, new, s) == new \o SubSeq(s, Len(old) + 1, Len(s))

\* Replacing the beginning and appending commute.
LEMMA RegrownAppend ==
    ASSUME NEW S, NEW old \in Seq(S), NEW new \in Seq(S), NEW s \in Seq(S), NEW v \in S,
           Len(old) <= Len(s)
    PROVE  /\ Regrown(old, new, s) \in Seq(S)
           /\ Len(Regrown(old, new, s)) = Len(new) + Len(s) - Len(old)
           /\ Regrown(old, new, Append(s, v)) = Append(Regrown(old, new, s), v)
<1> DEFINE u == Append(s, v)
           p == SubSeq(s, Len(old) + 1, Len(s))
           q == SubSeq(u, Len(old) + 1, Len(u))
<1>1. Len(old) \in Nat /\ Len(new) \in Nat /\ Len(s) \in Nat
  BY LenProperties
<1>2. u \in Seq(S) /\ Len(u) = Len(s) + 1 /\ u[Len(s) + 1] = v
      /\ \A k \in 1 .. Len(s) : u[k] = s[k]
  BY AppendProperties
<1> HIDE DEF u
<1>3. /\ p \in Seq(S) /\ Len(p) = Len(s) - Len(old)
      /\ \A k \in 1 .. Len(s) - Len(old) : p[k] = s[Len(old) + k]
  <2>1. \A k \in Len(old) + 1 .. Len(s) : s[k] \in S
    BY <1>1, ElementOfSeq
  <2> QED  BY <1>1, <2>1, SubSeqProperties
<1>4. /\ q \in Seq(S) /\ Len(q) = Len(s) + 1 - Len(old)
      /\ \A k \in 1 .. Len(s) + 1 - Len(old) : q[k] = u[Len(old) + k]
  <2>1. \A k \in Len(old) + 1 .. Len(u) : u[k] \in S
    BY <1>1, <1>2, ElementOfSeq
  <2> QED  BY <1>1, <1>2, <2>1, SubSeqProperties
<1> HIDE DEF p, q
<1>5. q = Append(p, v)
  <2>1. /\ Append(p, v) \in Seq(S) /\ Len(Append(p, v)) = Len(p) + 1
        /\ Append(p, v)[Len(p) + 1] = v
        /\ \A k \in 1 .. Len(p) : Append(p, v)[k] = p[k]
    BY <1>3, AppendProperties
  <2>2. ASSUME NEW k \in 1 .. Len(q) PROVE q[k] = Append(p, v)[k]
    <3>1. CASE k <= Len(s) - Len(old)
      <4>1. Len(old) + k \in 1 .. Len(s) /\ k \in 1 .. Len(p)
        BY <1>1, <1>3, <3>1
      <4>2. u[Len(old) + k] = s[Len(old) + k]  BY <1>2, <4>1
      <4> QED  BY <1>1, <1>3, <1>4, <2>1, <3>1, <4>1, <4>2
    <3>2. CASE k = Len(s) + 1 - Len(old)
      <4>1. Len(old) + k = Len(s) + 1 /\ k = Len(p) + 1
        BY <1>1, <1>3, <3>2
      <4> QED  BY <1>1, <1>2, <1>4, <2>1, <4>1
    <3>3. k <= Len(s) - Len(old) \/ k = Len(s) + 1 - Len(old)
      <4>1. Len(q) = Len(s) + 1 - Len(old)  BY <1>4
      <4>2. k \in 1 .. Len(s) + 1 - Len(old)  BY <4>1
      <4> QED  BY <1>1, <4>2
    <3> QED  BY <3>1, <3>2, <3>3
  <2>3. Len(q) = Len(Append(p, v))  BY <1>1, <1>3, <1>4, <2>1
  <2> QED  BY <1>4, <2>1, <2>2, <2>3, SeqEqual
<1>6. new \o Append(p, v) = Append(new \o p, v)
  <2>1. <<v>> \in Seq(S)  OBVIOUS
  <2>2. new \o p \in Seq(S) /\ Len(new \o p) = Len(new) + Len(p)
    BY <1>3, ConcatProperties
  <2>3. new \o Append(p, v) = new \o (p \o <<v>>)  BY <1>3, AppendIsConcat
  <2>4. @ = (new \o p) \o <<v>>  BY <1>3, <2>1, ConcatAssociative
  <2>5. @ = Append(new \o p, v)  BY <2>2, AppendIsConcat
  <2> QED  BY <2>3, <2>4, <2>5
<1>7. new \o p \in Seq(S) /\ Len(new \o p) = Len(new) + Len(p)
  BY <1>3, ConcatProperties
<1>8. Regrown(old, new, s) = new \o p /\ Regrown(old, new, u) = new \o q
  BY DEF Regrown, p, q
<1> QED  BY <1>1, <1>3, <1>5, <1>6, <1>7, <1>8 DEF u

\* What is replaced entirely becomes the replacement.
LEMMA RegrownSelf ==
    ASSUME NEW S, NEW old \in Seq(S), NEW new \in Seq(S)
    PROVE  Regrown(old, new, old) = new
<1>1. SubSeq(old, Len(old) + 1, Len(old)) = << >>
  BY SubSeqEmpty, LenProperties
<1> QED  BY <1>1, ConcatEmptySeq DEF Regrown

-----------------------------------------------------------------------------
(* Trees                                                                   *)

\* What a tag below p has in front of its own value; the level above it.
LineageAt(rows, p) == IF p = NoTag THEN << >> ELSE rows[p].lineage
DepthAt(rows, p) == IF p = NoTag THEN -1 ELSE rows[p].depth

\* A row with the columns of Tag.
Columns(external_ids, parents) ==
    [value : Values, external_id : external_ids, parent : parents,
     depth : Int, lineage : Seq(Values)]

\* A row with its own parent and external id, whatever they are.
HasColumns(row) == row \in Columns({row.external_id}, {row.parent})

\* A row with as many values in its lineage as its depth says.
RowOK(row) ==
    /\ HasColumns(row)
    /\ row.value \in Values
    /\ row.depth \in Int
    /\ row.lineage \in Seq(Values)
    /\ Len(row.lineage) = row.depth + 1

\* The columns of a row that the cascade updates.
LEMMA UpdatedColumns ==
    ASSUME NEW row, RowOK(row), NEW old, NEW new,
           new.depth - old.depth \in Int,
           Regrown(old.lineage, new.lineage, row.lineage) \in Seq(Values)
    PROVE  /\ HasColumns(Updated(row, old, new))
           /\ Updated(row, old, new).value = row.value
           /\ Updated(row, old, new).external_id = row.external_id
           /\ Updated(row, old, new).parent = row.parent
           /\ Updated(row, old, new).depth = row.depth + (new.depth - old.depth)
           /\ Updated(row, old, new).lineage = Regrown(old.lineage, new.lineage, row.lineage)
<1> DEFINE d == row.depth + (new.depth - old.depth)
           l == Regrown(old.lineage, new.lineage, row.lineage)
           updated == [row EXCEPT !.depth = d, !.lineage = l]
<1>1. Updated(row, old, new) = updated
  BY DEF Updated, Regrown
<1>2. d \in Int /\ l \in Seq(Values) /\ HasColumns(row)
  BY DEF RowOK
<1> HIDE DEF d, l
<1>3. /\ updated \in Columns({row.external_id}, {row.parent})
      /\ updated.value = row.value /\ updated.external_id = row.external_id
      /\ updated.parent = row.parent /\ updated.depth = d /\ updated.lineage = l
  BY <1>2 DEF HasColumns, Columns
<1> HIDE DEF updated
<1>4. HasColumns(updated)  BY <1>3 DEF HasColumns
<1> QED  BY <1>1, <1>3, <1>4 DEF d, l

\* The cascade leaves parents and external ids alone.
LEMMA UpdatedKeeps ==
    ASSUME NEW row, RowOK(row), NEW old, NEW new
    PROVE  /\ Updated(row, old, new).external_id = row.external_id
           /\ Updated(row, old, new).parent = row.parent
<1> DEFINE d == row.depth + (new.depth - old.depth)
           l == new.lineage \o SubSeq(row.lineage, Len(old.lineage) + 1, Len(row.lineage))
<1>1. Updated(row, old, new) = [row EXCEPT !.depth = d, !.lineage = l]
  BY DEF Updated
<1>2. row \in Columns({row.external_id}, {row.parent})
  BY DEF RowOK, HasColumns
<1> HIDE DEF d, l
<1> QED  BY <1>1, <1>2 DEF Columns

\* A row whose copies are those of a tag below its parent.
Below(rows, row) ==
    /\ row.parent \in DOMAIN rows \cup {NoTag}
    /\ row.depth = DepthAt(rows, row.parent) + 1
    /\ row.lineage = Append(LineageAt(rows, row.parent), row.value)

\* The rows of a taxonomy: no two of one value, and each below its parent.
GoodTree(rows) ==
    /\ NoTag \notin DOMAIN rows
    /\ \A t \in DOMAIN rows : RowOK(rows[t]) /\ Below(rows, rows[t])
    /\ \A t, u \in DOMAIN rows : rows[t].value = rows[u].value => t = u

\* A row with its parent's values is in order.
LEMMA RowBelow ==
    ASSUME NEW rows, GoodTree(rows), NEW p \in DOMAIN rows \cup {NoTag}
    PROVE  /\ DepthAt(rows, p) \in Int /\ LineageAt(rows, p) \in Seq(Values)
           /\ Len(LineageAt(rows, p)) = DepthAt(rows, p) + 1
<1>1. CASE p = NoTag
  BY <1>1, EmptySeq DEF DepthAt, LineageAt
<1>2. CASE p # NoTag
  <2>1. RowOK(rows[p])  BY <1>2 DEF GoodTree
  <2> QED  BY <1>2, <2>1 DEF DepthAt, LineageAt, RowOK
<1> QED  BY <1>1, <1>2

\* The row of a tag saved below parent.
SavedBelow(rows, row, parent) ==
    /\ row = [value |-> row.value, external_id |-> row.external_id,
              parent |-> row.parent, depth |-> row.depth, lineage |-> row.lineage]
    /\ row.value \in Values
    /\ row.parent = parent
    /\ Below(rows, row)

\* Saved below a row that is in order, a row is in order.
LEMMA SavedRowOK ==
    ASSUME NEW rows, GoodTree(rows), NEW row, NEW parent, SavedBelow(rows, row, parent)
    PROVE  RowOK(row)
<1>1. parent \in DOMAIN rows \cup {NoTag}  BY DEF SavedBelow, Below
<1>2. /\ DepthAt(rows, parent) \in Int /\ LineageAt(rows, parent) \in Seq(Values)
      /\ Len(LineageAt(rows, parent)) = DepthAt(rows, parent) + 1
  BY <1>1, RowBelow
<1>3. /\ row.value \in Values /\ row.depth = DepthAt(rows, parent) + 1
      /\ row.lineage = Append(LineageAt(rows, parent), row.value)
  BY DEF SavedBelow, Below
<1>4. row.lineage \in Seq(Values) /\ Len(row.lineage) = Len(LineageAt(rows, parent)) + 1
  BY <1>2, <1>3, AppendProperties
<1>5. row.depth \in Int  BY <1>2, <1>3
<1>6. HasColumns(row)
  BY <1>3, <1>4, <1>5 DEF SavedBelow, HasColumns, Columns
<1> QED  BY <1>2, <1>3, <1>4, <1>5, <1>6 DEF RowOK

\* The rows with one inserted or replaced.
Put(rows, key, new) == [t \in DOMAIN rows \cup {key} |-> IF t = key THEN new ELSE rows[t]]

\* A tag added below one that is there.
LEMMA AddedTagGood ==
    ASSUME NEW rows, GoodTree(rows), NEW key, key \notin DOMAIN rows, key # NoTag,
           NEW new, NEW parent, SavedBelow(rows, new, parent),
           \A t \in DOMAIN rows : rows[t].value # new.value
    PROVE  GoodTree(Put(rows, key, new))
<1> DEFINE after == Put(rows, key, new)
<1>1. /\ DOMAIN after = DOMAIN rows \cup {key}
      /\ after[key] = new /\ \A t \in DOMAIN rows : after[t] = rows[t]
  BY DEF Put
<1>2. \A p \in DOMAIN rows \cup {NoTag} : /\ DepthAt(after, p) = DepthAt(rows, p)
                                          /\ LineageAt(after, p) = LineageAt(rows, p)
  BY <1>1 DEF DepthAt, LineageAt
<1> HIDE DEF after
<1>3. RowOK(new) /\ Below(after, new)
  <2>1. RowOK(new)  BY SavedRowOK
  <2>2. Below(rows, new)  BY DEF SavedBelow
  <2> QED  BY <1>1, <1>2, <2>1, <2>2 DEF Below
<1>4. \A t \in DOMAIN rows : RowOK(rows[t]) /\ Below(after, rows[t])
  BY <1>1, <1>2 DEF GoodTree, Below
<1>5. \A t, u \in DOMAIN after : after[t].value = after[u].value => t = u
  BY <1>1 DEF GoodTree
<1>6. NoTag \notin DOMAIN after
  BY <1>1 DEF GoodTree
<1>7. GoodTree(after)
  BY <1>1, <1>3, <1>4, <1>5, <1>6 DEF GoodTree
<1> QED  BY <1>7 DEF after

\* A lineage starts with a tag's exactly if the parent's does, or it is the tag's.
LEMMA PrefixThroughParent ==
    ASSUME NEW rows, GoodTree(rows), NEW key \in DOMAIN rows,
           NEW t \in DOMAIN rows \ {key}
    PROVE  /\ Len(rows[key].lineage) > 0
           /\ IsPrefix(rows[key].lineage, rows[t].lineage)
                <=> /\ rows[t].parent # NoTag
                    /\ IsPrefix(rows[key].lineage, rows[rows[t].parent].lineage)
<1> DEFINE old == rows[key].lineage
           above == LineageAt(rows, rows[t].parent)
           v == rows[t].value
<1>1. /\ RowOK(rows[key]) /\ Below(rows, rows[key])
      /\ RowOK(rows[t]) /\ Below(rows, rows[t])
  BY DEF GoodTree
<1>2. /\ rows[t].parent \in DOMAIN rows \cup {NoTag}
      /\ rows[key].parent \in DOMAIN rows \cup {NoTag}
  BY <1>1 DEF Below
<1>3. above \in Seq(Values) /\ LineageAt(rows, rows[key].parent) \in Seq(Values)
  BY <1>2, RowBelow
<1>4. old = Append(LineageAt(rows, rows[key].parent), rows[key].value)
      /\ rows[t].lineage = Append(above, v)
  BY <1>1 DEF Below
<1>5. v \in Values /\ rows[key].value \in Values /\ v # rows[key].value
  BY <1>1 DEF RowOK, GoodTree
<1>6. old # Append(above, v)
  BY <1>3, <1>4, <1>5, AppendInjective
<1>7. old \in Seq(Values) /\ Len(old) = Len(LineageAt(rows, rows[key].parent)) + 1
  BY <1>3, <1>4, <1>5, AppendProperties
<1>8. IsPrefix(old, Append(above, v)) <=> IsPrefix(old, above)
  BY <1>3, <1>5, <1>6, <1>7, PrefixOfAppend
<1>9. Len(old) > 0
  BY <1>3, <1>7, LenProperties
<1>10. rows[t].parent = NoTag => ~ IsPrefix(old, above)
  BY <1>9 DEF LineageAt, IsPrefix
<1>11. rows[t].parent # NoTag => above = rows[rows[t].parent].lineage
  BY DEF LineageAt
<1> QED  BY <1>4, <1>8, <1>9, <1>10, <1>11

\* A tag renamed or moved, and what is below it taken along.
LEMMA CascadeGood ==
    ASSUME NEW rows, GoodTree(rows), NEW key \in DOMAIN rows,
           NEW new, NEW parent, SavedBelow(rows, new, parent), parent # key,
           parent # NoTag => ~ IsPrefix(rows[key].lineage, rows[parent].lineage),
           \A t \in DOMAIN rows \ {key} : rows[t].value # new.value
    PROVE  GoodTree(Cascade(Put(rows, key, new), key, rows[key], new))
<1> DEFINE old == rows[key]
           after == Cascade(Put(rows, key, new), key, old, new)
           Moves(t) == /\ t # key /\ old.lineage # new.lineage
                       /\ IsPrefix(old.lineage, rows[t].lineage)
           Grown(t) == Updated(rows[t], old, new)
<1>1. /\ DOMAIN after = DOMAIN rows
      /\ after[key] = new
      /\ \A t \in DOMAIN rows \ {key} : after[t] = IF Moves(t) THEN Grown(t) ELSE rows[t]
  <2>1. /\ DOMAIN Put(rows, key, new) = DOMAIN rows /\ Put(rows, key, new)[key] = new
        /\ \A t \in DOMAIN rows \ {key} : Put(rows, key, new)[t] = rows[t]
    BY DEF Put
  <2> QED  BY <2>1 DEF Cascade
<1>2. RowOK(new) /\ RowOK(old) /\ Below(rows, new) /\ new.parent = parent
  BY SavedRowOK DEF GoodTree, SavedBelow
<1>10. /\ old.lineage \in Seq(Values) /\ new.lineage \in Seq(Values)
             /\ old.depth \in Int /\ new.depth \in Int
             /\ Len(old.lineage) = old.depth + 1 /\ Len(new.lineage) = new.depth + 1
  BY <1>2 DEF RowOK
<1>11. \A t \in DOMAIN rows :
            /\ rows[t].value \in Values /\ rows[t].lineage \in Seq(Values)
            /\ rows[t].depth \in Int /\ Len(rows[t].lineage) = rows[t].depth + 1
  BY DEF GoodTree, RowOK
<1>12. ASSUME NEW s \in Seq(Values), NEW v \in Values, Len(old.lineage) <= Len(s)
       PROVE  /\ Regrown(old.lineage, new.lineage, s) \in Seq(Values)
              /\ Len(Regrown(old.lineage, new.lineage, s))
                   = Len(new.lineage) + Len(s) - Len(old.lineage)
              /\ Regrown(old.lineage, new.lineage, Append(s, v))
                   = Append(Regrown(old.lineage, new.lineage, s), v)
  <2> DEFINE lold == old.lineage
             lnew == new.lineage
  <2>1. lold \in Seq(Values) /\ lnew \in Seq(Values) /\ Len(lold) <= Len(s)
    BY <1>10, <1>12
  <2> HIDE DEF lold, lnew
  <2>2. /\ Regrown(lold, lnew, s) \in Seq(Values)
        /\ Len(Regrown(lold, lnew, s)) = Len(lnew) + Len(s) - Len(lold)
        /\ Regrown(lold, lnew, Append(s, v)) = Append(Regrown(lold, lnew, s), v)
    BY <2>1, RegrownAppend
  <2> QED  BY <2>2 DEF lold, lnew
<1>3. \A t \in DOMAIN rows \ {key} : Moves(t) =>
        /\ RowOK(Grown(t))
        /\ Grown(t).value = rows[t].value /\ Grown(t).parent = rows[t].parent
        /\ Grown(t).depth = rows[t].depth + (new.depth - old.depth)
        /\ Grown(t).lineage = Regrown(old.lineage, new.lineage, rows[t].lineage)
  <2>1. SUFFICES ASSUME NEW t \in DOMAIN rows \ {key}, Moves(t)
                 PROVE  /\ RowOK(Grown(t))
                        /\ Grown(t).value = rows[t].value /\ Grown(t).parent = rows[t].parent
                        /\ Grown(t).depth = rows[t].depth + (new.depth - old.depth)
                        /\ Grown(t).lineage = Regrown(old.lineage, new.lineage, rows[t].lineage)
    OBVIOUS
  <2>2. RowOK(rows[t])  BY DEF GoodTree
  <2>4. Len(old.lineage) <= Len(rows[t].lineage)
    BY <2>1 DEF IsPrefix
  <2>5. /\ Regrown(old.lineage, new.lineage, rows[t].lineage) \in Seq(Values)
        /\ Len(Regrown(old.lineage, new.lineage, rows[t].lineage))
             = Len(new.lineage) + Len(rows[t].lineage) - Len(old.lineage)
    BY <1>11, <1>12, <2>4
  <2>6. new.depth - old.depth \in Int  BY <1>10
  <2>7. /\ HasColumns(Grown(t))
        /\ Grown(t).value = rows[t].value /\ Grown(t).parent = rows[t].parent
        /\ Grown(t).external_id = rows[t].external_id
        /\ Grown(t).depth = rows[t].depth + (new.depth - old.depth)
        /\ Grown(t).lineage = Regrown(old.lineage, new.lineage, rows[t].lineage)
    BY <2>2, <2>5, <2>6, UpdatedColumns
  <2> HIDE DEF Grown
  <2>8. /\ Grown(t).value \in Values /\ Grown(t).depth \in Int
        /\ Grown(t).lineage \in Seq(Values)
        /\ Len(Grown(t).lineage) = Grown(t).depth + 1
    <3>1. rows[t].value \in Values /\ rows[t].depth \in Int
          /\ Len(rows[t].lineage) = rows[t].depth + 1
      BY <1>11
    <3>2. Grown(t).value \in Values /\ Grown(t).lineage \in Seq(Values)
      BY <2>5, <2>7, <3>1
    <3>3. Grown(t).depth = rows[t].depth + (new.depth - old.depth)
      BY <2>7
    <3>4. Len(Grown(t).lineage) = Len(new.lineage) + Len(rows[t].lineage) - Len(old.lineage)
      BY <2>5, <2>7
    <3>5. Grown(t).depth \in Int  BY <1>10, <3>1, <3>3
    <3>6. Len(Grown(t).lineage) = Grown(t).depth + 1
      <4>1. Len(Grown(t).lineage) = (new.depth + 1) + (rows[t].depth + 1) - (old.depth + 1)
        BY <1>10, <3>1, <3>4
      <4>2. (new.depth + 1) + (rows[t].depth + 1) - (old.depth + 1)
              = rows[t].depth + (new.depth - old.depth) + 1
        <5> DEFINE a == new.depth
                   b == rows[t].depth
                   c == old.depth
        <5>1. a \in Int /\ b \in Int /\ c \in Int  BY <1>10, <3>1
        <5> HIDE DEF a, b, c
        <5>2. (a + 1) + (b + 1) - (c + 1) = b + (a - c) + 1  BY <5>1
        <5> QED  BY <5>2 DEF a, b, c
      <4> QED  BY <3>3, <4>1, <4>2
    <3> QED  BY <3>2, <3>5, <3>6
  <2> QED  BY <2>7, <2>8 DEF RowOK
<1> HIDE DEF after, Grown
<1>4. \A t \in DOMAIN rows \ {key} :
        /\ RowOK(after[t])
        /\ after[t].value = rows[t].value /\ after[t].parent = rows[t].parent
  BY <1>1, <1>3 DEF GoodTree
<1>5. Below(after, new)
  <2>1. CASE parent = NoTag
    BY <1>2, <2>1 DEF Below, DepthAt, LineageAt
  <2>2. CASE parent # NoTag
    <3>1. parent \in DOMAIN rows \ {key}  BY <1>2, <2>2 DEF Below
    <3>2. after[parent] = rows[parent]  BY <1>1, <2>2, <3>1
    <3> QED  BY <1>1, <1>2, <2>2, <3>1, <3>2 DEF Below, DepthAt, LineageAt
  <2> QED  BY <2>1, <2>2
<1>6. ASSUME NEW t \in DOMAIN rows \ {key} PROVE Below(after, after[t])
  <2> DEFINE p == rows[t].parent
             v == rows[t].value
  <2>1. RowOK(rows[t]) /\ Below(rows, rows[t])
    BY DEF GoodTree
  <2>2. p \in DOMAIN rows \cup {NoTag} /\ v \in Values
    BY <2>1 DEF Below, RowOK
  <2>3. IsPrefix(old.lineage, rows[t].lineage)
          <=> p # NoTag /\ IsPrefix(old.lineage, rows[p].lineage)
    BY PrefixThroughParent
  <2>4. CASE p = NoTag
    <3>1. after[t] = rows[t]  BY <1>1, <2>3, <2>4
    <3> QED  BY <1>1, <2>1, <2>4, <3>1 DEF Below, DepthAt, LineageAt
  <2>5. CASE p = key
    <3>1. rows[t].lineage = Append(old.lineage, v) /\ rows[t].depth = old.depth + 1
          /\ key # NoTag
      BY <2>1, <2>5 DEF Below, LineageAt, DepthAt, GoodTree
    <3>2. CASE old.lineage = new.lineage
      <4>1. after[t] = rows[t]  BY <1>1, <3>2
      <4>2. new.depth = old.depth  BY <1>2, <3>2 DEF RowOK
      <4> QED  BY <1>1, <2>1, <2>5, <3>1, <3>2, <4>1, <4>2 DEF Below, DepthAt, LineageAt
    <3>3. CASE old.lineage # new.lineage
      <4>1. IsPrefix(old.lineage, old.lineage)
        BY DEF IsPrefix, RowOK
      <4>2. Moves(t)  BY <2>3, <2>5, <3>1, <3>3, <4>1
      <4>3. /\ after[t].lineage = Regrown(old.lineage, new.lineage, Append(old.lineage, v))
            /\ after[t].depth = new.depth + 1
        <5>1. after[t] = Grown(t)  BY <1>1, <4>2
        <5>2. /\ after[t].depth = rows[t].depth + (new.depth - old.depth)
              /\ after[t].lineage = Regrown(old.lineage, new.lineage, rows[t].lineage)
          BY <1>3, <4>2, <5>1
        <5> QED  BY <1>10, <3>1, <5>2
      <4>4. Regrown(old.lineage, new.lineage, Append(old.lineage, v))
              = Append(new.lineage, v)
        <5>1. Len(old.lineage) <= Len(old.lineage)  BY <1>10
        <5>2. Regrown(old.lineage, new.lineage, old.lineage) = new.lineage
          BY <1>10, RegrownSelf
        <5>3. Regrown(old.lineage, new.lineage, Append(old.lineage, v))
                = Append(Regrown(old.lineage, new.lineage, old.lineage), v)
          BY <1>10, <2>2, <5>1, RegrownAppend
        <5> QED  BY <5>2, <5>3
      <4> QED  BY <1>1, <1>4, <2>5, <3>1, <4>3, <4>4 DEF Below, DepthAt, LineageAt
    <3> QED  BY <3>2, <3>3
  <2>6. CASE p # NoTag /\ p # key
    <3>1. p \in DOMAIN rows \ {key}  BY <2>2, <2>6
    <3>2. rows[t].lineage = Append(rows[p].lineage, v) /\ rows[t].depth = rows[p].depth + 1
      BY <2>1, <2>6 DEF Below, LineageAt, DepthAt
    <3>3. Moves(t) <=> Moves(p)  BY <2>3, <2>6
    <3>4. CASE ~ Moves(p)
      BY <1>1, <2>1, <2>6, <3>1, <3>3, <3>4 DEF Below, DepthAt, LineageAt
    <3>5. CASE Moves(p)
      <4>1. RowOK(rows[p])  BY <3>1 DEF GoodTree
      <4>2. Len(old.lineage) <= Len(rows[p].lineage)  BY <3>5 DEF IsPrefix
      <4>3. Regrown(old.lineage, new.lineage, Append(rows[p].lineage, v))
              = Append(Regrown(old.lineage, new.lineage, rows[p].lineage), v)
        BY <1>11, <1>12, <2>2, <3>1, <4>2
      <4>4. /\ after[t].lineage = Append(after[p].lineage, v)
            /\ after[t].depth = after[p].depth + 1
        <5>1. after[t] = Grown(t) /\ after[p] = Grown(p)
          BY <1>1, <3>1, <3>3, <3>5
        <5>2. /\ after[t].depth = rows[t].depth + (new.depth - old.depth)
              /\ after[t].lineage = Regrown(old.lineage, new.lineage, rows[t].lineage)
          BY <1>3, <3>3, <3>5, <5>1
        <5>3. /\ after[p].depth = rows[p].depth + (new.depth - old.depth)
              /\ after[p].lineage = Regrown(old.lineage, new.lineage, rows[p].lineage)
          BY <1>3, <3>1, <3>5, <5>1
        <5>4. rows[p].depth \in Int  BY <1>11, <3>1
        <5>5. after[t].lineage = Append(after[p].lineage, v)
          BY <3>2, <4>3, <5>2, <5>3
        <5>6. after[t].depth = after[p].depth + 1
          <6>1. after[t].depth = rows[p].depth + 1 + (new.depth - old.depth)
            BY <3>2, <5>2
          <6>2. new.depth \in Int /\ old.depth \in Int  BY <1>10
          <6> QED  BY <5>3, <5>4, <6>1, <6>2
        <5> QED  BY <5>5, <5>6
      <4> QED  BY <1>1, <1>4, <2>6, <3>1, <4>4 DEF Below, DepthAt, LineageAt
    <3> QED  BY <3>4, <3>5
  <2> QED  BY <2>4, <2>5, <2>6
<1>7. \A t, u \in DOMAIN after : after[t].value = after[u].value => t = u
  BY <1>1, <1>4 DEF GoodTree
<1>8. NoTag \notin DOMAIN after
  BY <1>1 DEF GoodTree
<1>9. GoodTree(after)
  BY <1>1, <1>2, <1>4, <1>5, <1>6, <1>7, <1>8 DEF GoodTree
<1> QED  BY <1>9 DEF after

\* What is left after a deletion: the parent of a tag that is left is left too.
LEMMA WithoutGood ==
    ASSUME NEW rows, GoodTree(rows), NEW ts
    PROVE  GoodTree(Without(rows, ts))
<1> DEFINE gone == WithSubtagsIn(rows, ts)
           after == Without(rows, ts)
<1>1. /\ DOMAIN after = DOMAIN rows \ gone
      /\ \A t \in DOMAIN after : after[t] = rows[t]
  BY DEF Without
<1>2. ASSUME NEW t \in DOMAIN rows, rows[t].parent \in gone PROVE t \in gone
  <2>1. SUFFICES ASSUME NEW closed \in SUBSET DOMAIN rows, ts \subseteq closed,
                        \A u \in closed : ChildrenIn(rows, u) \subseteq closed
                 PROVE  t \in closed
    BY DEF WithSubtagsIn
  <2>2. rows[t].parent \in closed  BY <1>2, <2>1 DEF WithSubtagsIn
  <2> QED  BY <2>1, <2>2 DEF ChildrenIn
<1> HIDE DEF gone, after
<1>3. ASSUME NEW t \in DOMAIN after PROVE RowOK(after[t]) /\ Below(after, after[t])
  <2>1. t \in DOMAIN rows /\ t \notin gone /\ after[t] = rows[t]  BY <1>1
  <2>2. RowOK(rows[t]) /\ Below(rows, rows[t])  BY <2>1 DEF GoodTree
  <2>3. rows[t].parent \in DOMAIN after \cup {NoTag}
    BY <1>1, <1>2, <2>1, <2>2 DEF Below
  <2>4. rows[t].parent # NoTag => after[rows[t].parent] = rows[rows[t].parent]
    BY <1>1, <2>3
  <2> QED  BY <2>1, <2>2, <2>3, <2>4 DEF Below, DepthAt, LineageAt
<1>4. GoodTree(after)
  BY <1>1, <1>3 DEF GoodTree
<1> QED  BY <1>4 DEF after

-----------------------------------------------------------------------------
(* Queries                                                                 *)

\* A nonempty set of natural numbers has a least one.
LEMMA LeastNatural ==
    ASSUME NEW T, T \subseteq Nat, T # {}
    PROVE  \E x \in T : \A y \in T : x <= y
<1> DEFINE R == OpToRel(<, Nat)
<1>1. IsWellFoundedOn(R, Nat)
  BY NatLessThanWellFounded
<1>2. \A x, y \in Nat : y < x => <<y, x>> \in R
  BY DEF OpToRel
<1> HIDE DEF R
<1>3. PICK x \in T : \A y \in T : ~ (<<y, x>> \in R)
  BY <1>1, WFMin
<1>4. ASSUME NEW y \in T PROVE x <= y
  <2>1. x \in Nat /\ y \in Nat  OBVIOUS
  <2>2. ~ (y < x)  BY <1>2, <1>3, <2>1
  <2> QED  BY <2>1, <2>2
<1> QED  BY <1>4

\* Among tags there is one of the least depth.
LEMMA ShallowestTag ==
    ASSUME NEW rows, GoodTree(rows), NEW ts \in SUBSET DOMAIN rows, ts # {}
    PROVE  \E t \in ts : \A u \in ts : Len(rows[t].lineage) <= Len(rows[u].lineage)
<1> DEFINE T == {Len(rows[t].lineage) : t \in ts}
<1>1. ASSUME NEW t \in ts PROVE Len(rows[t].lineage) \in Nat
  <2>1. rows[t].lineage \in Seq(Values)  BY DEF GoodTree, RowOK
  <2> QED  BY <2>1, LenProperties
<1>2. T \subseteq Nat /\ T # {}
  BY <1>1
<1>3. \A t \in ts : Len(rows[t].lineage) \in T
  OBVIOUS
<1>4. \A n \in T : \E t \in ts : n = Len(rows[t].lineage)
  OBVIOUS
<1> HIDE DEF T
<1>5. PICK n \in T : \A m \in T : n <= m
  BY <1>2, LeastNatural
<1> QED  BY <1>3, <1>4, <1>5

\* A tag is one level below its parent.
LEMMA ParentIsShallower ==
    ASSUME NEW rows, GoodTree(rows), NEW t \in DOMAIN rows, rows[t].parent # NoTag
    PROVE  /\ rows[t].parent \in DOMAIN rows
           /\ Len(rows[t].lineage) \in Nat /\ Len(rows[rows[t].parent].lineage) \in Nat
           /\ Len(rows[t].lineage) = Len(rows[rows[t].parent].lineage) + 1
<1> DEFINE p == rows[t].parent
<1>1. p \in DOMAIN rows  BY DEF GoodTree, Below
<1>2. /\ rows[p].lineage \in Seq(Values) /\ rows[t].value \in Values
      /\ rows[t].lineage = Append(rows[p].lineage, rows[t].value)
  BY <1>1 DEF GoodTree, RowOK, Below, LineageAt
<1> QED  BY <1>1, <1>2, AppendProperties, LenProperties

\* Every tag's lineage starts with itself.
LEMMA OwnLineage ==
    ASSUME NEW rows, GoodTree(rows), NEW t \in DOMAIN rows
    PROVE  IsPrefix(rows[t].lineage, rows[t].lineage)
<1>1. rows[t].lineage \in Seq(Values)  BY DEF GoodTree, RowOK
<1> QED  BY <1>1, LenProperties DEF IsPrefix

\* What the database would delete with a set of tags, following parents, are
\* the tags with a lineage that starts with that of one of them.
LEMMA SubtagsByLineage ==
    ASSUME NEW rows, GoodTree(rows), NEW ts \in SUBSET DOMAIN rows, NEW u \in DOMAIN rows
    PROVE  u \in WithSubtagsIn(rows, ts)
             <=> \E t \in ts : IsPrefix(rows[t].lineage, rows[u].lineage)
<1> DEFINE Sub(x) == \E t \in ts : IsPrefix(rows[t].lineage, rows[x].lineage)
           Whole(c) == ts \subseteq c /\ \A x \in c : ChildrenIn(rows, x) \subseteq c
<1>1. u \in WithSubtagsIn(rows, ts) <=> \A c \in SUBSET DOMAIN rows : Whole(c) => u \in c
  BY DEF WithSubtagsIn
<1>2. Whole({x \in DOMAIN rows : Sub(x)})
  <2>1. ts \subseteq {x \in DOMAIN rows : Sub(x)}
    BY OwnLineage
  <2>2. ASSUME NEW x \in DOMAIN rows, Sub(x), NEW c \in ChildrenIn(rows, x)
        PROVE  c \in DOMAIN rows /\ Sub(c)
    <3>1. c \in DOMAIN rows /\ rows[c].parent = x /\ x # NoTag
      BY DEF ChildrenIn, GoodTree
    <3>2. PICK t \in ts : IsPrefix(rows[t].lineage, rows[x].lineage)
      BY <2>2
    <3>3. CASE c = t
      BY <3>1, <3>3, OwnLineage
    <3>4. CASE c # t
      BY <3>1, <3>2, <3>4, PrefixThroughParent
    <3> QED  BY <3>3, <3>4
  <2> QED  BY <2>1, <2>2
<1>3. ASSUME NEW c \in SUBSET DOMAIN rows, Whole(c), Sub(u) PROVE u \in c
  <2> DEFINE bad == {x \in DOMAIN rows : Sub(x) /\ x \notin c}
  <2>1. SUFFICES ASSUME u \notin c PROVE FALSE
    OBVIOUS
  <2>2. bad # {} /\ bad \in SUBSET DOMAIN rows
    BY <1>3, <2>1
  <2> HIDE DEF bad
  <2>3. PICK x \in bad : \A y \in bad : Len(rows[x].lineage) <= Len(rows[y].lineage)
    BY <2>2, ShallowestTag
  <2>4. x \in DOMAIN rows /\ Sub(x) /\ x \notin c
    BY DEF bad
  <2>5. PICK t \in ts : IsPrefix(rows[t].lineage, rows[x].lineage)
    BY <2>4
  <2>6. x # t  BY <1>3, <2>4
  <2> DEFINE p == rows[x].parent
  <2>7. p # NoTag /\ IsPrefix(rows[t].lineage, rows[p].lineage)
    BY <2>4, <2>5, <2>6, PrefixThroughParent
  <2>8. /\ p \in DOMAIN rows
        /\ Len(rows[x].lineage) \in Nat /\ Len(rows[p].lineage) \in Nat
        /\ Len(rows[x].lineage) = Len(rows[p].lineage) + 1
    BY <2>4, <2>7, ParentIsShallower
  <2> HIDE DEF p
  <2>9. p \notin bad
    BY <2>3, <2>8
  <2>10. p \in c
    BY <2>7, <2>8, <2>9 DEF bad
  <2>11. x \in ChildrenIn(rows, p)
    BY <2>4 DEF ChildrenIn, p
  <2> QED  BY <1>3, <2>4, <2>10, <2>11
<1> QED  BY <1>1, <1>2, <1>3

\* A tag with another's lineage at the beginning of its own is deeper, unless
\* it is the same tag.
LEMMA SubtagsAreDeeper ==
    ASSUME NEW rows, GoodTree(rows), NEW t \in DOMAIN rows, NEW u \in DOMAIN rows,
           IsPrefix(rows[t].lineage, rows[u].lineage)
    PROVE  rows[u].depth > rows[t].depth <=> u # t
<1>1. RowOK(rows[t]) /\ RowOK(rows[u])  BY DEF GoodTree
<1>2. rows[t].depth \in Int /\ rows[u].depth \in Int
      /\ Len(rows[t].lineage) = rows[t].depth + 1 /\ Len(rows[u].lineage) = rows[u].depth + 1
  BY <1>1 DEF RowOK
<1>3. CASE u = t  BY <1>2, <1>3
<1>4. CASE u # t
  <2> DEFINE p == rows[u].parent
  <2>1. p # NoTag /\ IsPrefix(rows[t].lineage, rows[p].lineage)
    BY <1>4, PrefixThroughParent
  <2>2. /\ Len(rows[p].lineage) \in Nat
        /\ Len(rows[u].lineage) = Len(rows[p].lineage) + 1
    BY <2>1, ParentIsShallower
  <2>3. Len(rows[t].lineage) <= Len(rows[p].lineage)
    BY <2>1 DEF IsPrefix
  <2> HIDE DEF p
  <2> QED  BY <1>2, <1>4, <2>2, <2>3
<1> QED  BY <1>3, <1>4

\* The subtags of a subtag are subtags.
LEMMA SubtagsOfSubtags ==
    ASSUME NEW rows, GoodTree(rows), NEW t \in DOMAIN rows,
           NEW u \in WithSubtagsIn(rows, {t}), NEW m \in WithSubtagsIn(rows, {u})
    PROVE  m \in WithSubtagsIn(rows, {t}) /\ (u # t => m # t)
<1>1. u \in DOMAIN rows /\ m \in DOMAIN rows
  BY DEF WithSubtagsIn
<1>2. /\ IsPrefix(rows[t].lineage, rows[u].lineage)
      /\ IsPrefix(rows[u].lineage, rows[m].lineage)
  BY <1>1, SubtagsByLineage
<1>3. m \in WithSubtagsIn(rows, {t})
  BY <1>1 DEF WithSubtagsIn
<1>4. ASSUME u # t, m = t PROVE FALSE
  <2>1. /\ rows[t].depth \in Int /\ rows[u].depth \in Int
        /\ rows[u].depth > rows[t].depth /\ rows[t].depth > rows[u].depth
    BY <1>1, <1>2, <1>4, SubtagsAreDeeper DEF GoodTree, RowOK
  <2> QED  BY <2>1
<1> QED  BY <1>3, <1>4

\* The tags of a taxonomy are finitely many.
LEMMA FinitelyMany ==
    ASSUME NEW S, NEW n \in Nat, S \subseteq 1 .. n
    PROVE  IsFiniteSet(S)
<1>1. 1 \in Int /\ n \in Int  OBVIOUS
<1>2. IsFiniteSet(1 .. n)  BY <1>1, FS_Interval
<1> QED  BY <1>2, FS_Subset

\* descendant_count counts what is below a tag, following parents.
LEMMA DescendantsCounted ==
    ASSUME NEW rows, GoodTree(rows), IsFiniteSet(DOMAIN rows), NEW t \in DOMAIN rows
    PROVE  /\ {d \in DOMAIN rows : /\ rows[d].depth > rows[t].depth
                                   /\ IsPrefix(rows[t].lineage, rows[d].lineage)}
                = WithSubtagsIn(rows, {t}) \ {t}
           /\ Cardinality(WithSubtagsIn(rows, {t}) \ {t})
                = Cardinality(WithSubtagsIn(rows, {t})) - 1
<1> DEFINE sub == WithSubtagsIn(rows, {t})
<1>1. \A d \in DOMAIN rows : d \in sub <=> IsPrefix(rows[t].lineage, rows[d].lineage)
  BY SubtagsByLineage
<1>2. sub \subseteq DOMAIN rows
  BY DEF WithSubtagsIn
<1>3. t \in sub
  BY <1>1, OwnLineage
<1> HIDE DEF sub
<1>4. \A d \in DOMAIN rows : d \in sub => (rows[d].depth > rows[t].depth <=> d # t)
  BY <1>1, SubtagsAreDeeper
<1>5. IsFiniteSet(sub)
  BY <1>2, FS_Subset
<1>6. Cardinality(sub \ {t}) = Cardinality(sub) - 1
  BY <1>3, <1>5, FS_RemoveElement
<1> QED  BY <1>1, <1>2, <1>4, <1>6 DEF sub

\* What a deep list below a tag starts from.
DeeperBelow(rows, p) ==
    {t \in DOMAIN rows : /\ IsPrefix(rows[p].lineage, rows[t].lineage)
                         /\ rows[t].depth > rows[p].depth}

\* The deep list below a tag that one tag matches: that tag, and what is above
\* it, as far as they are below.
LEMMA SearchFindsTheWayDown ==
    ASSUME NEW rows, GoodTree(rows), NEW p \in DOMAIN rows, NEW m \in DOMAIN rows
    PROVE  {t \in DeeperBelow(rows, p) :
                WithSubtagsIn(rows, {t}) \cap {m} \cap DeeperBelow(rows, p) # {}}
             = {a \in WithSubtagsIn(rows, {p}) \ {p} : m \in WithSubtagsIn(rows, {a})}
<1> DEFINE initial == DeeperBelow(rows, p)
           sub == WithSubtagsIn(rows, {p})
<1>1. \A t \in DOMAIN rows : t \in sub <=> IsPrefix(rows[p].lineage, rows[t].lineage)
  BY SubtagsByLineage
<1>2. sub \subseteq DOMAIN rows
  BY DEF WithSubtagsIn
<1>3. initial = sub \ {p}
  BY <1>1, <1>2, SubtagsAreDeeper DEF DeeperBelow
<1>4. \A a \in sub \ {p} : m \in WithSubtagsIn(rows, {a}) => m \in sub \ {p}
  BY SubtagsOfSubtags
<1>5. {t \in initial : WithSubtagsIn(rows, {t}) \cap {m} \cap initial # {}}
        = {a \in sub \ {p} : m \in WithSubtagsIn(rows, {a})}
  <2> HIDE DEF initial, sub
  <2> QED  BY <1>3, <1>4
<1> QED  BY <1>5

-----------------------------------------------------------------------------
(* Paths                                                                   *)

\* Path of TagTree, for any table of rows.
TagFor(rows, v) == CHOOSE t \in DOMAIN rows : rows[t].value = v
PathIn(rows) ==
    [t \in DOMAIN rows |->
        [k \in 1 .. Len(rows[t].lineage) |-> TagFor(rows, rows[t].lineage[k])]]

\* Where a tag below p has its own path.
PathAt(rows, p) == IF p = NoTag THEN << >> ELSE PathIn(rows)[p]

\* The values of a lineage are those of tags.
LEMMA LineageNamesTags ==
    ASSUME NEW rows, GoodTree(rows), NEW t \in DOMAIN rows, NEW k \in 1 .. Len(rows[t].lineage)
    PROVE  /\ TagFor(rows, rows[t].lineage[k]) \in DOMAIN rows
           /\ rows[TagFor(rows, rows[t].lineage[k])].value = rows[t].lineage[k]
<1> DEFINE Named(x, j) == \E u \in DOMAIN rows : rows[u].value = rows[x].lineage[j]
           bad == {x \in DOMAIN rows : \E j \in 1 .. Len(rows[x].lineage) : ~ Named(x, j)}
<1>1. bad = {}
  <2>1. SUFFICES ASSUME bad # {} PROVE FALSE
    OBVIOUS
  <2>2. bad \in SUBSET DOMAIN rows  OBVIOUS
  <2> HIDE DEF bad
  <2>3. PICK x \in bad : \A y \in bad : Len(rows[x].lineage) <= Len(rows[y].lineage)
    BY <2>1, <2>2, ShallowestTag
  <2>4. PICK j \in 1 .. Len(rows[x].lineage) : ~ Named(x, j)
    BY DEF bad
  <2>5. x \in DOMAIN rows  BY <2>2
  <2> DEFINE p == rows[x].parent
             above == LineageAt(rows, p)
  <2>6. /\ p \in DOMAIN rows \cup {NoTag} /\ rows[x].value \in Values
        /\ rows[x].lineage = Append(above, rows[x].value)
    BY <2>5 DEF GoodTree, Below, RowOK
  <2>7. above \in Seq(Values)  BY <2>6, RowBelow
  <2> HIDE DEF above
  <2>8. /\ Len(rows[x].lineage) = Len(above) + 1 /\ Len(above) \in Nat
        /\ rows[x].lineage[Len(above) + 1] = rows[x].value
        /\ \A i \in 1 .. Len(above) : rows[x].lineage[i] = above[i]
    BY <2>6, <2>7, AppendProperties, LenProperties
  <2>9. CASE j = Len(above) + 1
    BY <2>4, <2>5, <2>8, <2>9
  <2>10. CASE j # Len(above) + 1
    <3>1. j \in 1 .. Len(above)
      <4>1. j \in 1 .. Len(above) + 1  BY <2>8
      <4> QED  BY <2>8, <2>10, <4>1
    <3>2. p # NoTag
      BY <2>8, <3>1 DEF above, LineageAt
    <3>3. above = rows[p].lineage  BY <3>2 DEF above, LineageAt
    <3>4. p \in DOMAIN rows /\ p \notin bad
      <4>1. p \in DOMAIN rows  BY <2>6, <3>2
      <4>2. Len(rows[p].lineage) = Len(rows[x].lineage) - 1 /\ Len(above) \in Nat
        BY <2>8, <3>3
      <4>3. Len(rows[p].lineage) < Len(rows[x].lineage)  BY <2>8, <4>2
      <4>4. ASSUME p \in bad PROVE FALSE
        BY <2>3, <2>8, <3>3, <4>3, <4>4
      <4> QED  BY <4>1, <4>4
    <3>5. Named(p, j)
      BY <3>1, <3>3, <3>4 DEF bad
    <3> QED  BY <2>4, <2>8, <3>1, <3>3, <3>5
  <2> QED  BY <2>9, <2>10
<1>2. Named(t, k)  BY <1>1
<1> QED  BY <1>2 DEF TagFor

\* The tag of a tag's value is that tag.
LEMMA OwnValue ==
    ASSUME NEW rows, GoodTree(rows), NEW t \in DOMAIN rows
    PROVE  TagFor(rows, rows[t].value) = t
BY DEF TagFor, GoodTree

\* A path is as long as the lineage.
LEMMA PathType ==
    ASSUME NEW rows, GoodTree(rows), NEW t \in DOMAIN rows
    PROVE  /\ PathIn(rows)[t] \in Seq(DOMAIN rows)
           /\ Len(PathIn(rows)[t]) = Len(rows[t].lineage)
           /\ \A k \in 1 .. Len(rows[t].lineage) :
                PathIn(rows)[t][k] = TagFor(rows, rows[t].lineage[k])
<1> DEFINE n == Len(rows[t].lineage)
           path == PathIn(rows)[t]
<1>1. n \in Nat
  <2>1. rows[t].lineage \in Seq(Values)  BY DEF GoodTree, RowOK
  <2> QED  BY <2>1, LenProperties
<1>2. path = [k \in 1 .. n |-> TagFor(rows, rows[t].lineage[k])]
  BY DEF PathIn
<1>3. \A k \in 1 .. n : TagFor(rows, rows[t].lineage[k]) \in DOMAIN rows
  BY LineageNamesTags
<1>4. path \in [1 .. n -> DOMAIN rows]
  BY <1>2, <1>3
<1> HIDE DEF path
<1>5. path \in Seq(DOMAIN rows) /\ Len(path) = n
  <2> HIDE DEF n
  <2> QED  BY <1>1, <1>4
<1> QED  BY <1>2, <1>5 DEF path

\* Paths are put together along the parents.
LEMMA PathBelowParent ==
    ASSUME NEW rows, GoodTree(rows), NEW t \in DOMAIN rows
    PROVE  /\ PathAt(rows, rows[t].parent) \in Seq(DOMAIN rows)
           /\ PathIn(rows)[t] = Append(PathAt(rows, rows[t].parent), t)
<1> DEFINE p == rows[t].parent
           above == LineageAt(rows, p)
           place == PathAt(rows, p)
           path == PathIn(rows)[t]
<1>1. /\ p \in DOMAIN rows \cup {NoTag} /\ rows[t].value \in Values
      /\ rows[t].lineage = Append(above, rows[t].value)
  BY DEF GoodTree, Below, RowOK
<1>2. above \in Seq(Values)  BY <1>1, RowBelow
<1>3. /\ place \in Seq(DOMAIN rows) /\ Len(place) = Len(above)
      /\ \A k \in 1 .. Len(above) : place[k] = TagFor(rows, above[k])
  <2>1. CASE p = NoTag
    BY <2>1, EmptySeq DEF PathAt, LineageAt
  <2>2. CASE p # NoTag
    <3>1. p \in DOMAIN rows  BY <1>1, <2>2
    <3> HIDE DEF p
    <3> QED  BY <2>2, <3>1, PathType DEF PathAt, LineageAt
  <2> QED  BY <2>1, <2>2
<1> HIDE DEF above, place
<1>4. /\ Len(rows[t].lineage) = Len(above) + 1 /\ Len(above) \in Nat
      /\ rows[t].lineage[Len(above) + 1] = rows[t].value
      /\ \A k \in 1 .. Len(above) : rows[t].lineage[k] = above[k]
  BY <1>1, <1>2, AppendProperties, LenProperties
<1>5. /\ path \in Seq(DOMAIN rows) /\ Len(path) = Len(above) + 1
      /\ \A k \in 1 .. Len(above) + 1 : path[k] = TagFor(rows, rows[t].lineage[k])
  BY <1>4, PathType
<1> HIDE DEF path
<1> DEFINE longer == Append(place, t)
<1>6. /\ longer \in Seq(DOMAIN rows) /\ Len(longer) = Len(above) + 1
      /\ longer[Len(above) + 1] = t
      /\ \A k \in 1 .. Len(above) : longer[k] = place[k]
  BY <1>3, AppendProperties
<1> HIDE DEF longer
<1>7. ASSUME NEW k \in 1 .. Len(path) PROVE path[k] = longer[k]
  <2>1. CASE k = Len(above) + 1
    BY <1>4, <1>5, <1>6, <2>1, OwnValue
  <2>2. CASE k # Len(above) + 1
    <3>1. k \in 1 .. Len(above)
      <4>1. k \in 1 .. Len(above) + 1  BY <1>5
      <4> QED  BY <1>4, <2>2, <4>1
    <3>2. k \in 1 .. Len(above) + 1  BY <1>5
    <3> QED  BY <1>3, <1>4, <1>5, <1>6, <3>1, <3>2
  <2> QED  BY <2>1, <2>2
<1>8. path = longer  BY <1>5, <1>6, <1>7, SeqEqual
<1> QED  BY <1>3, <1>8 DEF path, longer, place

\* Only the paths are put together along the parents.
LEMMA PathsFromParents ==
    ASSUME NEW rows, GoodTree(rows), NEW F, F = [t \in DOMAIN rows |-> F[t]],
           \A t \in DOMAIN rows :
                F[t] = Append(IF rows[t].parent = NoTag THEN << >> ELSE F[rows[t].parent], t)
    PROVE  PathIn(rows) = F
<1> DEFINE bad == {t \in DOMAIN rows : PathIn(rows)[t] # F[t]}
<1>1. bad = {}
  <2>1. SUFFICES ASSUME bad # {} PROVE FALSE
    OBVIOUS
  <2>2. bad \in SUBSET DOMAIN rows  OBVIOUS
  <2> HIDE DEF bad
  <2>3. PICK t \in bad : \A u \in bad : Len(rows[t].lineage) <= Len(rows[u].lineage)
    BY <2>1, <2>2, ShallowestTag
  <2>4. t \in DOMAIN rows /\ PathIn(rows)[t] # F[t]  BY DEF bad
  <2> DEFINE p == rows[t].parent
  <2>5. PathIn(rows)[t] = Append(PathAt(rows, p), t)  BY <2>4, PathBelowParent
  <2>6. p # NoTag /\ PathIn(rows)[p] # F[p]
    BY <2>4, <2>5 DEF PathAt
  <2>7. /\ p \in DOMAIN rows
        /\ Len(rows[t].lineage) \in Nat /\ Len(rows[p].lineage) \in Nat
        /\ Len(rows[t].lineage) = Len(rows[p].lineage) + 1
    BY <2>4, <2>6, ParentIsShallower
  <2> HIDE DEF p
  <2>8. p \in bad  BY <2>6, <2>7 DEF bad
  <2> QED  BY <2>3, <2>7, <2>8
<1>2. PathIn(rows) = [t \in DOMAIN rows |-> PathIn(rows)[t]]
  BY DEF PathIn
<1>3. \A t \in DOMAIN rows : PathIn(rows)[t] = F[t]
  BY <1>1
<1> DEFINE P == PathIn(rows)
<1> HIDE DEF P, bad
<1>4. P = F  BY <1>2, <1>3 DEF P
<1> QED  BY <1>4 DEF P

\* A path starts with another as the lineages do.
LEMMA PathPrefix ==
    ASSUME NEW rows, GoodTree(rows), NEW t \in DOMAIN rows, NEW u \in DOMAIN rows
    PROVE  IsPrefix(PathIn(rows)[t], PathIn(rows)[u])
             <=> IsPrefix(rows[t].lineage, rows[u].lineage)
<1> DEFINE P == PathIn(rows)[t]
           Q == PathIn(rows)[u]
           l == rows[t].lineage
           m == rows[u].lineage
<1>1. l \in Seq(Values) /\ m \in Seq(Values)  BY DEF GoodTree, RowOK
<1>2. P \in Seq(DOMAIN rows) /\ Len(P) = Len(l)
      /\ \A k \in 1 .. Len(l) : P[k] = TagFor(rows, l[k]) /\ rows[P[k]].value = l[k]
  BY PathType, LineageNamesTags
<1>3. Q \in Seq(DOMAIN rows) /\ Len(Q) = Len(m)
      /\ \A k \in 1 .. Len(m) : Q[k] = TagFor(rows, m[k]) /\ rows[Q[k]].value = m[k]
  BY PathType, LineageNamesTags
<1> HIDE DEF P, Q, l, m
<1>4. IsPrefix(P, Q) <=> Len(P) <= Len(Q) /\ \A k \in 1 .. Len(P) : P[k] = Q[k]
  BY <1>2, <1>3, PrefixByPosition
<1>5. IsPrefix(l, m) <=> Len(l) <= Len(m) /\ \A k \in 1 .. Len(l) : l[k] = m[k]
  BY <1>1, PrefixByPosition
<1>6. Len(l) \in Nat /\ Len(m) \in Nat  BY <1>1, LenProperties
<1>7. Len(l) <= Len(m) => \A k \in 1 .. Len(l) : k \in 1 .. Len(m)
  BY <1>6
<1>8. Len(l) <= Len(m) => \A k \in 1 .. Len(l) : P[k] = Q[k] <=> l[k] = m[k]
  BY <1>2, <1>3, <1>7
<1>9. IsPrefix(P, Q) <=> IsPrefix(l, m)
  BY <1>2, <1>3, <1>4, <1>5, <1>8
<1> QED  BY <1>9 DEF P, Q, l, m

\* The paths with that of a new tag at a place, and those with one of them and
\* what is below it put at another place.
PathsWith(rows, key, place) ==
    [u \in DOMAIN rows \cup {key} |->
        IF u = key THEN Append(place, key) ELSE PathIn(rows)[u]]

PathsMoved(rows, key, place) ==
    [u \in DOMAIN rows |->
        IF IsPrefix(PathIn(rows)[key], PathIn(rows)[u])
        THEN place \o SubSeq(PathIn(rows)[u], Len(PathIn(rows)[key]), Len(PathIn(rows)[u]))
        ELSE PathIn(rows)[u]]

\* A tag added below parent: its path is put after its parent's.
LEMMA AddedPaths ==
    ASSUME NEW rows, GoodTree(rows), NEW key, key \notin DOMAIN rows, key # NoTag,
           NEW new, NEW parent, SavedBelow(rows, new, parent),
           \A t \in DOMAIN rows : rows[t].value # new.value
    PROVE  PathIn(Put(rows, key, new)) = PathsWith(rows, key, PathAt(rows, parent))
<1> DEFINE after == Put(rows, key, new)
           F == [u \in DOMAIN rows \cup {key} |->
                    IF u = key THEN Append(PathAt(rows, parent), key) ELSE PathIn(rows)[u]]
<1>1. GoodTree(after)  BY AddedTagGood
<1>2. /\ DOMAIN after = DOMAIN rows \cup {key}
      /\ after[key] = new /\ \A t \in DOMAIN rows : after[t] = rows[t]
  BY DEF Put
<1>3. new.parent = parent /\ parent \in DOMAIN rows \cup {NoTag}
  BY DEF SavedBelow, Below
<1>4. ASSUME NEW t \in DOMAIN rows
      PROVE  rows[t].parent \in DOMAIN rows \cup {NoTag}
  BY DEF GoodTree, Below
<1>5. F = [t \in DOMAIN after |-> F[t]]  BY <1>2
<1>6. F[key] = Append(PathAt(rows, parent), key) /\ \A t \in DOMAIN rows : F[t] = PathIn(rows)[t]
  OBVIOUS
<1> HIDE DEF after, F
<1>7. ASSUME NEW p \in DOMAIN rows \cup {NoTag}
      PROVE  PathAt(rows, p) = IF p = NoTag THEN << >> ELSE F[p]
  BY <1>6 DEF PathAt
<1>8. ASSUME NEW t \in DOMAIN after
      PROVE  F[t] = Append(IF after[t].parent = NoTag THEN << >> ELSE F[after[t].parent], t)
  <2>1. CASE t = key
    BY <1>2, <1>3, <1>6, <1>7, <2>1
  <2>2. CASE t # key
    <3>1. t \in DOMAIN rows /\ after[t] = rows[t]  BY <1>2, <2>2
    <3>2. PathIn(rows)[t] = Append(PathAt(rows, rows[t].parent), t)
      BY <3>1, PathBelowParent
    <3> QED  BY <1>4, <1>6, <1>7, <3>1, <3>2
  <2> QED  BY <2>1, <2>2
<1>9. PathIn(after) = F  BY <1>1, <1>5, <1>8, PathsFromParents
<1> QED  BY <1>9 DEF after, F, PathsWith

\* A tag saved below parent: its path, and those that start with it, are put
\* after the parent's.
LEMMA MovedPaths ==
    ASSUME NEW rows, GoodTree(rows), NEW key \in DOMAIN rows,
           NEW new, NEW parent, SavedBelow(rows, new, parent), parent # key,
           parent # NoTag => ~ IsPrefix(rows[key].lineage, rows[parent].lineage),
           \A t \in DOMAIN rows \ {key} : rows[t].value # new.value
    PROVE  PathIn(Cascade(Put(rows, key, new), key, rows[key], new))
             = PathsMoved(rows, key, PathAt(rows, parent))
<1> DEFINE after == Cascade(Put(rows, key, new), key, rows[key], new)
           P == PathIn(rows)
           Moves(u) == IsPrefix(P[key], P[u])
           place == PathAt(rows, parent)
           front == PathAt(rows, rows[key].parent)
           F == [u \in DOMAIN rows |->
                    IF Moves(u) THEN place \o SubSeq(P[u], Len(P[key]), Len(P[u])) ELSE P[u]]
<1>1. GoodTree(after)  BY CascadeGood
<1>2. parent \in DOMAIN rows \cup {NoTag} /\ new.parent = parent
  BY DEF SavedBelow, Below
<1>3. /\ DOMAIN after = DOMAIN rows
      /\ after[key].parent = parent
      /\ \A t \in DOMAIN rows \ {key} : after[t].parent = rows[t].parent
  <2>1. /\ DOMAIN Put(rows, key, new) = DOMAIN rows /\ Put(rows, key, new)[key] = new
        /\ \A t \in DOMAIN rows \ {key} : Put(rows, key, new)[t] = rows[t]
    BY DEF Put
  <2>2. DOMAIN after = DOMAIN rows /\ after[key] = new
    BY <2>1 DEF Cascade
  <2>3. ASSUME NEW t \in DOMAIN rows \ {key} PROVE after[t].parent = rows[t].parent
    <3>1. RowOK(rows[t])  BY DEF GoodTree
    <3> QED  BY <2>1, <3>1, UpdatedKeeps DEF Cascade
  <2> QED  BY <1>2, <2>2, <2>3
<1>4. \A t \in DOMAIN rows : rows[t].parent \in DOMAIN rows \cup {NoTag}
  BY DEF GoodTree, Below
<1>5. \A t \in DOMAIN rows : /\ P[t] \in Seq(DOMAIN rows)
                             /\ PathAt(rows, rows[t].parent) \in Seq(DOMAIN rows)
                             /\ P[t] = Append(PathAt(rows, rows[t].parent), t)
  BY PathType, PathBelowParent
<1>6. place \in Seq(DOMAIN rows)
  <2>1. CASE parent = NoTag  BY <2>1, EmptySeq DEF PathAt
  <2>2. CASE parent # NoTag  BY <1>2, <1>5, <2>2 DEF PathAt
  <2> QED  BY <2>1, <2>2
<1>7. front \in Seq(DOMAIN rows) /\ P[key] = Append(front, key)
      /\ Len(P[key]) = Len(front) + 1 /\ Len(front) \in Nat
  BY <1>5, AppendProperties, LenProperties
<1>8. Moves(key) /\ (parent # NoTag => ~ Moves(parent))
  BY <1>2, OwnLineage, PathPrefix
<1>9. ASSUME NEW t \in DOMAIN rows \ {key}
      PROVE  Moves(t) <=> rows[t].parent # NoTag /\ Moves(rows[t].parent)
  BY <1>4, PathPrefix, PrefixThroughParent
<1>10. \A u \in DOMAIN rows : F[u] = IF Moves(u) THEN Regrown(front, place, P[u]) ELSE P[u]
  BY <1>7 DEF Regrown
<1>11. F = [t \in DOMAIN after |-> F[t]]  BY <1>3
<1>12. \A u \in DOMAIN rows : Moves(u) => Len(front) <= Len(P[u])
  <2>1. ASSUME NEW u \in DOMAIN rows, Moves(u) PROVE Len(front) <= Len(P[u])
    <3>1. Len(P[u]) \in Nat  BY <1>5, LenProperties
    <3>2. Len(P[key]) <= Len(P[u])  BY <2>1 DEF IsPrefix
    <3> QED  BY <1>7, <3>1, <3>2
  <2> QED  BY <2>1
<1>13. \A p \in DOMAIN rows : p # NoTag => PathAt(rows, p) = P[p]
  BY DEF PathAt
<1>14. PathAt(rows, NoTag) = << >>  BY DEF PathAt
<1>15. NoTag \notin DOMAIN rows  BY DEF GoodTree
<1> HIDE DEF after, F, P, Moves, place, front
<1>16. ASSUME NEW t \in DOMAIN after
       PROVE  F[t] = Append(IF after[t].parent = NoTag THEN << >> ELSE F[after[t].parent], t)
  <2>1. CASE t = key
    <3>1. Regrown(front, place, P[key]) = Append(Regrown(front, place, front), key)
      BY <1>7, <1>6, RegrownAppend
    <3>2. Regrown(front, place, front) = place
      BY <1>6, <1>7, RegrownSelf
    <3>3. F[key] = Append(place, key)  BY <1>8, <1>10, <3>1, <3>2
    <3>4. place = IF parent = NoTag THEN << >> ELSE F[parent]
      BY <1>2, <1>8, <1>10, <1>13, <1>14 DEF place
    <3> QED  BY <1>3, <2>1, <3>3, <3>4
  <2>2. CASE t # key
    <3>1. t \in DOMAIN rows \ {key} /\ after[t].parent = rows[t].parent
      BY <1>3, <2>2
    <3> DEFINE p == rows[t].parent
    <3>2. p \in DOMAIN rows \cup {NoTag} /\ P[t] = Append(PathAt(rows, p), t)
      BY <1>4, <1>5, <3>1
    <3>3. Moves(t) <=> p # NoTag /\ Moves(p)
      BY <1>9, <3>1
    <3>4. CASE p = NoTag
      BY <1>10, <1>14, <3>1, <3>2, <3>3, <3>4
    <3>5. CASE p # NoTag
      <4> HIDE DEF p
      <4>1. p \in DOMAIN rows /\ P[t] = Append(P[p], t) /\ P[p] \in Seq(DOMAIN rows)
        BY <1>5, <1>13, <3>2, <3>5
      <4>2. CASE Moves(t)
        <5>1. Len(front) <= Len(P[p])  BY <1>12, <3>3, <4>1, <4>2
        <5> DEFINE above == P[p]
        <5>2. above \in Seq(DOMAIN rows) /\ Len(front) <= Len(above)
          BY <4>1, <5>1
        <5> HIDE DEF above
        <5>3. Regrown(front, place, Append(above, t)) = Append(Regrown(front, place, above), t)
          BY <1>6, <1>7, <3>1, <5>2, RegrownAppend
        <5>4. F[t] = Append(F[p], t)
          BY <1>10, <3>1, <3>3, <4>1, <4>2, <5>3 DEF above
        <5> QED  BY <3>1, <3>5, <5>4 DEF p
      <4>3. CASE ~ Moves(t)
        <5>1. F[t] = Append(F[p], t)
          BY <1>10, <3>1, <3>3, <3>5, <4>1, <4>3
        <5> QED  BY <3>1, <3>5, <5>1 DEF p
      <4> QED  BY <4>2, <4>3
    <3> QED  BY <3>4, <3>5
  <2> QED  BY <2>1, <2>2
<1>17. PathIn(after) = F  BY <1>1, <1>11, <1>16, PathsFromParents
<1> QED  BY <1>17 DEF after, F, P, Moves, place, PathsMoved

\* What is left after a deletion has the path it had.
LEMMA PathsLeft ==
    ASSUME NEW rows, GoodTree(rows), NEW ts
    PROVE  PathIn(Without(rows, ts))
             = [u \in DOMAIN rows \ WithSubtagsIn(rows, ts) |-> PathIn(rows)[u]]
<1> DEFINE after == Without(rows, ts)
           F == [u \in DOMAIN rows \ WithSubtagsIn(rows, ts) |-> PathIn(rows)[u]]
<1>1. GoodTree(after)  BY WithoutGood
<1>2. /\ DOMAIN after = DOMAIN rows \ WithSubtagsIn(rows, ts)
      /\ \A t \in DOMAIN after : after[t] = rows[t]
  BY DEF Without
<1>3. F = [t \in DOMAIN after |-> F[t]] /\ \A t \in DOMAIN after : F[t] = PathIn(rows)[t]
  BY <1>2
<1> HIDE DEF after, F
<1>4. ASSUME NEW t \in DOMAIN after
      PROVE  F[t] = Append(IF after[t].parent = NoTag THEN << >> ELSE F[after[t].parent], t)
  <2>1. after[t].parent \in DOMAIN after \cup {NoTag}  BY <1>1 DEF GoodTree, Below
  <2>2. t \in DOMAIN rows /\ after[t] = rows[t]  BY <1>2
  <2>3. PathIn(rows)[t] = Append(PathAt(rows, rows[t].parent), t)
    BY <2>2, PathBelowParent
  <2> QED  BY <1>3, <2>1, <2>2, <2>3 DEF PathAt
<1>5. PathIn(after) = F  BY <1>1, <1>3, <1>4, PathsFromParents
<1> QED  BY <1>5 DEF after, F

-----------------------------------------------------------------------------
(* Requests                                                                *)

\* What a request has in memory agrees with the rows.
Loaded(i) ==
    /\ i.value \in Values
    /\ i.pk \in DOMAIN tags \cup {NoTag}
    /\ i.parent \in DOMAIN tags \cup {NoTag}
    /\ ParentValues(tags, i).depth = DepthAt(tags, i.parent)
    /\ ParentValues(tags, i).lineage = LineageAt(tags, i.parent)
    /\ i.pk # NoTag /\ i.parent # NoTag =>
          ~ IsPrefix(tags[i.pk].lineage, tags[i.parent].lineage)

\* The inductive invariant: a good tree, ids in use up to lastTag, and at most one
\* request in progress, which has read what is still there.
Inv ==
    /\ GoodTree(tags)
    /\ lastTag \in Nat /\ DOMAIN tags \subseteq 1 .. lastTag
    /\ DOMAIN instance = Requests
    /\ \A r \in Requests : instance[r] # NoInstance => Loaded(instance[r])
    /\ \A r, q \in Requests :
          instance[r] # NoInstance /\ instance[q] # NoInstance => r = q

\* The parent a request has cached is the one in the database.
LEMMA CachedParent ==
    ASSUME NEW rows, NEW i, i.cached \in {NotCached, CachedTag(rows, i.parent)}
    PROVE  /\ ParentValues(rows, i).depth = DepthAt(rows, i.parent)
           /\ ParentValues(rows, i).lineage = LineageAt(rows, i.parent)
<1>1. CASE i.parent = NoTag
  BY <1>1 DEF ParentValues, DepthAt, LineageAt
<1>2. CASE i.parent # NoTag
  <2>1. ParentValues(rows, i) = CachedTag(rows, i.parent)
    BY <1>2 DEF ParentValues
  <2> QED  BY <1>2, <2>1 DEF CachedTag, DepthAt, LineageAt
<1> QED  BY <1>1, <1>2

\* A request that starts while no other is in progress.
LEMMA StartKeepsInv ==
    ASSUME Inv, ~ Interleaved, NEW r \in Requests, MayStart(r), NEW i, Loaded(i),
           instance' = [instance EXCEPT ![r] = i], UNCHANGED <<tags, lastTag>>
    PROVE  Inv'
<1>1. \A q \in Requests : instance[q] = NoInstance
  BY DEF MayStart, Idle
<1>2. DOMAIN instance' = Requests /\ instance'[r] = i
      /\ \A q \in Requests \ {r} : instance'[q] = NoInstance
  BY <1>1 DEF Inv
<1>3. Loaded(i)'
  BY DEF Loaded, ParentValues, CachedTag, DepthAt, LineageAt
<1>4. \A q \in Requests : instance'[q] # NoInstance => q = r /\ instance'[q] = i
  BY <1>2
<1>5. \A q \in Requests : instance'[q] # NoInstance => Loaded(instance[q])'
  BY <1>3, <1>4
<1> QED  BY <1>2, <1>4, <1>5 DEF Inv

\* A request to add a tag reads the parent that its save will find.
LEMMA AddTagInv ==
    ASSUME Inv, ~ Interleaved, NEW r \in Requests, NEW v \in Values,
           NEW parent \in DOMAIN tags \cup {NoTag}, NEW e \in GivenExternalIds,
           AddTag(r, v, parent, e)
    PROVE  Inv'
<1> DEFINE i == NewTag(tags, v, parent, e)
<1>1. /\ i.value = v /\ i.pk = NoTag /\ i.parent = parent
      /\ i.cached = CachedTag(tags, parent)
  BY DEF NewTag
<1> HIDE DEF i
<1>2. Loaded(i)
  BY <1>1, CachedParent DEF Loaded
<1>3. MayStart(r) /\ instance' = [instance EXCEPT ![r] = i] /\ UNCHANGED <<tags, lastTag>>
  BY DEF AddTag, i
<1> QED  BY <1>2, <1>3, StartKeepsInv

\* A renamed tag keeps its parent, which is not below the tag.
LEMMA UpdateTagInv ==
    ASSUME Inv, ~ Interleaved, NEW r \in Requests, NEW t \in DOMAIN tags,
           NEW v \in Values, UpdateTag(r, t, v)
    PROVE  Inv'
<1> DEFINE i == RenamedTag(tags, t, v)
           p == tags[t].parent
<1>1. /\ i.value = v /\ i.pk = t /\ i.parent = p /\ i.cached = NotCached
  BY DEF RenamedTag
<1> HIDE DEF i
<1>2. RowOK(tags[t]) /\ Below(tags, tags[t])  BY DEF Inv, GoodTree
<1>3. p \in DOMAIN tags \cup {NoTag}  BY <1>2 DEF Below
<1>4. p # NoTag => ~ IsPrefix(tags[t].lineage, tags[p].lineage)
  <2>1. SUFFICES ASSUME p # NoTag PROVE ~ (Len(tags[t].lineage) <= Len(tags[p].lineage))
    BY DEF IsPrefix
  <2>2. RowOK(tags[p])  BY <1>3, <2>1 DEF Inv, GoodTree
  <2>3. tags[t].depth = tags[p].depth + 1  BY <1>2, <2>1 DEF Below, DepthAt
  <2> QED  BY <1>2, <2>2, <2>3 DEF RowOK
<1>5. Loaded(i)
  BY <1>1, <1>3, <1>4, CachedParent DEF Loaded
<1>6. MayStart(r) /\ instance' = [instance EXCEPT ![r] = i] /\ UNCHANGED <<tags, lastTag>>
  BY DEF UpdateTag, i
<1> QED  BY <1>5, <1>6, StartKeepsInv

\* A moved tag goes to a parent that is not below it.
LEMMA MoveTagInv ==
    ASSUME Inv, ~ Interleaved, ~ MovesBelowSelf, NEW r \in Requests,
           NEW t \in DOMAIN tags, NEW parent \in DOMAIN tags \cup {NoTag},
           MoveTag(r, t, parent)
    PROVE  Inv'
<1> DEFINE i == MovedTag(tags, t, parent)
<1>1. /\ i.value = tags[t].value /\ i.pk = t /\ i.parent = parent
      /\ i.cached = CachedTag(tags, parent)
  BY DEF MovedTag
<1> HIDE DEF i
<1>2. tags[t].value \in Values  BY DEF Inv, GoodTree, RowOK
<1>3. parent # NoTag => ~ IsPrefix(tags[t].lineage, tags[parent].lineage)
  BY DEF MoveTag
<1>4. Loaded(i)
  BY <1>1, <1>2, <1>3, CachedParent DEF Loaded
<1>5. MayStart(r) /\ instance' = [instance EXCEPT ![r] = i] /\ UNCHANGED <<tags, lastTag>>
  BY DEF MoveTag, i
<1> QED  BY <1>4, <1>5, StartKeepsInv

\* The request that ends was the only one.
LEMMA EndKeepsInv ==
    ASSUME Inv, NEW r \in Requests, instance[r] # NoInstance,
           instance' = [instance EXCEPT ![r] = NoInstance],
           GoodTree(tags)', lastTag' \in Nat, DOMAIN tags' \subseteq 1 .. lastTag'
    PROVE  Inv'
<1>1. DOMAIN instance' = Requests /\ \A q \in Requests : instance'[q] = NoInstance
  BY DEF Inv
<1> QED  BY <1>1 DEF Inv

\* A save that inserts a tag, and one that replaces a tag and takes along what is
\* below it.
Inserts(i, new) ==
    /\ i.pk = NoTag /\ lastTag + 1 \notin DOMAIN tags /\ lastTag + 1 # NoTag
    /\ tags' = Put(tags, lastTag + 1, new) /\ lastTag' = lastTag + 1

Replaces(i, new) ==
    /\ i.pk \in DOMAIN tags
    /\ i.parent # NoTag => ~ IsPrefix(tags[i.pk].lineage, tags[i.parent].lineage)
    /\ i.parent # i.pk
    /\ tags' = Cascade(Put(tags, i.pk, new), i.pk, tags[i.pk], new) /\ lastTag' = lastTag

\* A save that does not fail does either, and puts the row below its parent.
LEMMA SaveForms ==
    ASSUME Inv, NEW r \in Requests, Save(r), CanSave(tags, instance[r])
    PROVE  \E new : /\ SavedBelow(tags, new, instance[r].parent)
                    /\ \A t \in DOMAIN tags \ {instance[r].pk} : tags[t].value # new.value
                    /\ Inserts(instance[r], new) \/ Replaces(instance[r], new)
<1> DEFINE i == instance[r]
           new == SavedTag(tags, i)
<1>1. i # NoInstance /\ Loaded(i)
  BY DEF Save, Inv
<1>2. GoodTree(tags) /\ lastTag \in Nat /\ DOMAIN tags \subseteq 1 .. lastTag
  BY DEF Inv
<1>3. /\ new.value = i.value /\ new.parent = i.parent
      /\ new = [value |-> new.value, external_id |-> new.external_id,
                parent |-> new.parent, depth |-> new.depth, lineage |-> new.lineage]
      /\ new.depth = ParentValues(tags, i).depth + 1
      /\ new.lineage = Append(ParentValues(tags, i).lineage, i.value)
  BY DEF SavedTag
<1> HIDE DEF new
<1>4. SavedBelow(tags, new, i.parent)
  <2>1. Below(tags, new)  BY <1>1, <1>3 DEF Below, Loaded
  <2> QED  BY <1>1, <1>3, <2>1 DEF SavedBelow, Loaded
<1>5. \A t \in DOMAIN tags \ {i.pk} : tags[t].value # new.value
  BY <1>3 DEF CanSave
<1>6. CASE i.pk = NoTag
  <2>1. lastTag + 1 \notin DOMAIN tags /\ lastTag + 1 # NoTag /\ i.pk \notin DOMAIN tags
    BY <1>2, <1>6 DEF NoTag
  <2>2. tags' = Put(tags, lastTag + 1, new) /\ lastTag' = lastTag + 1
    BY <1>6, <2>1 DEF Save, Saved, SavedKey, Put, new
  <2> QED  BY <1>4, <1>5, <1>6, <2>1, <2>2 DEF Inserts
<1>7. CASE i.pk # NoTag
  <2>1. i.pk \in DOMAIN tags  BY <1>1, <1>7 DEF Loaded
  <2>2. tags' = Cascade(Put(tags, i.pk, new), i.pk, tags[i.pk], new) /\ lastTag' = lastTag
    BY <1>7, <2>1 DEF Save, Saved, SavedKey, Put, new
  <2>3. i.parent # NoTag => ~ IsPrefix(tags[i.pk].lineage, tags[i.parent].lineage)
    BY <1>1, <1>7 DEF Loaded
  <2>4. i.parent # i.pk
    BY <1>2, <1>7, <2>1, <2>3, OwnLineage
  <2> QED  BY <1>4, <1>5, <2>1, <2>2, <2>3, <2>4 DEF Replaces
<1> QED  BY <1>6, <1>7

\* A save keeps a good tree, and ends its request.
LEMMA SaveInv ==
    ASSUME Inv, NEW r \in Requests, Save(r)
    PROVE  Inv'
<1> DEFINE i == instance[r]
<1>1. i # NoInstance /\ instance' = [instance EXCEPT ![r] = NoInstance]
  BY DEF Save
<1>2. GoodTree(tags) /\ lastTag \in Nat /\ DOMAIN tags \subseteq 1 .. lastTag
  BY DEF Inv
<1>3. CASE ~ CanSave(tags, i)
  <2>1. tags' = tags /\ lastTag' = lastTag  BY <1>3 DEF Save
  <2>2. GoodTree(tags)'  BY <1>2, <2>1
       DEF GoodTree, RowOK, HasColumns, Columns, Below, DepthAt, LineageAt
  <2> QED  BY <1>1, <1>2, <2>1, <2>2, EndKeepsInv
<1>4. CASE CanSave(tags, i)
  <2>1. PICK new : /\ SavedBelow(tags, new, i.parent)
                   /\ \A t \in DOMAIN tags \ {i.pk} : tags[t].value # new.value
                   /\ Inserts(i, new) \/ Replaces(i, new)
    BY <1>4, SaveForms
  <2>2. CASE Inserts(i, new)
    <3> DEFINE key == lastTag + 1
               parent == i.parent
    <3>1. /\ key \notin DOMAIN tags /\ key # NoTag /\ SavedBelow(tags, new, parent)
          /\ \A t \in DOMAIN tags : tags[t].value # new.value
          /\ tags' = Put(tags, key, new)
      BY <1>2, <2>1, <2>2 DEF Inserts, GoodTree
    <3>2. DOMAIN tags' \subseteq 1 .. lastTag' /\ lastTag' \in Nat
      BY <1>2, <2>2 DEF Inserts, Put
    <3>3. GoodTree(tags')
      <4> HIDE DEF key, parent
      <4> QED  BY <1>2, <3>1, AddedTagGood
    <3> QED  BY <1>1, <3>2, <3>3, EndKeepsInv DEF GoodTree
  <2>3. CASE Replaces(i, new)
    <3>1. GoodTree(Cascade(Put(tags, i.pk, new), i.pk, tags[i.pk], new))
      BY <1>2, <2>1, <2>3, CascadeGood DEF Replaces
    <3>2. DOMAIN tags' = DOMAIN tags /\ lastTag' = lastTag
      BY <2>3 DEF Replaces, Cascade, Put
    <3>3. GoodTree(tags')  BY <2>3, <3>1 DEF Replaces
    <3> QED  BY <1>1, <1>2, <3>2, <3>3, EndKeepsInv
  <2> QED  BY <2>1, <2>2, <2>3
<1> QED  BY <1>3, <1>4

\* A deletion happens between requests and takes the subtags with it.
LEMMA DeleteTagsInv ==
    ASSUME Inv, ~ Interleaved, NEW ts, NEW with_subtags, DeleteTags(ts, with_subtags)
    PROVE  Inv'
<1>1. tags' = Without(tags, ts) /\ UNCHANGED <<lastTag, instance>>
      /\ \A r \in Requests : instance[r] = NoInstance
  BY DEF DeleteTags, Idle
<1>2. GoodTree(tags')  BY <1>1, WithoutGood DEF Inv
<1>3. DOMAIN tags' \subseteq DOMAIN tags  BY <1>1 DEF Without
<1> QED  BY <1>1, <1>2, <1>3 DEF Inv

-----------------------------------------------------------------------------
(* Types                                                                   *)

\* Among one more candidates than there are ids taken, one is free.
LEMMA CandidateIsFree ==
    ASSUME NEW taken, IsFiniteSet(taken), NEW v
    PROVE  /\ FreeCandidate(v, taken) \notin taken
           /\ \E k \in Nat \ {0} : FreeCandidate(v, taken) = <<v, k>>
<1> DEFINE n == Cardinality(taken)
           free == {k \in 1 .. n + 1 : <<v, k>> \notin taken}
<1>1. n \in Nat  BY FS_CardinalityType
<1> HIDE DEF n
<1>2. free # {}
  <2>1. SUFFICES ASSUME \A k \in 1 .. n + 1 : <<v, k>> \in taken PROVE FALSE
    BY <1>1
  <2> DEFINE f == [k \in 1 .. n + 1 |-> <<v, k>>]
  <2>2. f \in [1 .. n + 1 -> taken]  BY <2>1
  <2>3. IsFiniteSet(1 .. n + 1) /\ Cardinality(1 .. n + 1) = n + 1
    <3>1. 1 \in Int /\ n + 1 \in Int /\ ~ (1 > n + 1) /\ (n + 1) - 1 + 1 = n + 1
      BY <1>1
    <3> DEFINE b == n + 1
    <3>2. /\ IsFiniteSet(1 .. b)
          /\ Cardinality(1 .. b) = IF 1 > b THEN 0 ELSE b - 1 + 1
      BY <3>1, FS_Interval
    <3> QED  BY <3>1, <3>2
  <2>4. Cardinality(taken) < Cardinality(1 .. n + 1)  BY <1>1, <2>3 DEF n
  <2>5. PICK x, y \in 1 .. n + 1 : x # y /\ f[x] = f[y]
    <3> HIDE DEF f
    <3> QED  BY <2>2, <2>3, <2>4, FS_PigeonHole
  <2> QED  BY <2>5
<1>3. /\ free \subseteq Nat
      /\ \A k \in free : k \in Nat \ {0} /\ <<v, k>> \notin taken
  BY <1>1
<1> HIDE DEF free
<1>4. \E k \in free : \A j \in free : k <= j
  BY <1>2, <1>3, LeastNatural
<1> DEFINE least == CHOOSE k \in free : \A j \in free : k <= j
<1>5. least \in free  BY <1>4
<1>6. FreeCandidate(v, taken) = <<v, least>>
  BY DEF FreeCandidate, free, n
<1>7. least \in Nat \ {0} /\ <<v, least>> \notin taken  BY <1>3, <1>5
<1> HIDE DEF least
<1> QED  BY <1>6, <1>7

\* external_id: there is a candidate that no tag has.
LEMMA CandidateFound ==
    ASSUME NEW rows, IsFiniteSet(DOMAIN rows), NEW v \in Values
    PROVE  GeneratedExternalId(rows, v) \in ExternalIds
<1> DEFINE taken == {rows[t].external_id : t \in DOMAIN rows}
           column == [t \in DOMAIN rows |-> rows[t].external_id]
<1>1. IsFiniteSet(taken)
  <2>1. column \in Surjection(DOMAIN rows, taken)  BY DEF Surjection
  <2> QED  BY <2>1, FS_Surjection
<1>2. GeneratedExternalId(rows, v) = FreeCandidate(v, taken)
  BY DEF GeneratedExternalId, FreeCandidate
<1> HIDE DEF taken
<1>3. PICK k \in Nat \ {0} : FreeCandidate(v, taken) = <<v, k>>
  BY <1>1, CandidateIsFree
<1> QED  BY <1>2, <1>3 DEF ExternalIds

\* A table of rows with parents and external ids of their types.
KeysTyped(rows) ==
    /\ rows = [t \in DOMAIN rows |-> rows[t]]
    /\ \A t \in DOMAIN rows : rows[t].external_id \in ExternalIds /\ rows[t].parent \in Nat

\* What is below parents and has typed keys is typed.
LEMMA RowsTyped ==
    ASSUME NEW rows, GoodTree(rows), KeysTyped(rows)
    PROVE  rows \in [DOMAIN rows -> Tag]
<1>1. ASSUME NEW t \in DOMAIN rows PROVE rows[t] \in Tag
  <2>1. rows[t] \in Columns({rows[t].external_id}, {rows[t].parent})
    BY DEF GoodTree, RowOK, HasColumns
  <2>2. rows[t].external_id \in ExternalIds /\ rows[t].parent \in Nat
    BY DEF KeysTyped
  <2> QED  BY <2>1, <2>2 DEF Columns, Tag
<1> QED  BY <1>1 DEF KeysTyped

LEMMA KeysOfTyped ==
    ASSUME NEW rows, rows \in [DOMAIN rows -> Tag]
    PROVE  KeysTyped(rows)
BY DEF KeysTyped, Tag

\* A request's own row and those it updates have typed keys.
LEMMA SavedKeysTyped ==
    ASSUME NEW rows, GoodTree(rows), KeysTyped(rows), IsFiniteSet(DOMAIN rows),
           NEW last, NEW i, i.value \in Values, i.parent \in Nat,
           i.external_id \in ExternalIds \cup {NoExternalId}
    PROVE  KeysTyped(Saved(rows, last, i))
<1> DEFINE key == SavedKey(last, i)
           new == SavedTag(rows, i)
           with == Put(rows, key, new)
           after == Saved(rows, last, i)
<1>1. new.external_id \in ExternalIds /\ new.parent \in Nat
  <2>1. new.external_id = ExternalId(rows, i) /\ new.parent = i.parent
    BY DEF SavedTag
  <2>2. ExternalId(rows, i) \in ExternalIds
    BY CandidateFound DEF ExternalId
  <2> QED  BY <2>1, <2>2
<1> HIDE DEF key, new
<1>2. KeysTyped(with)
  BY <1>1 DEF KeysTyped, Put
<1>3. CASE key \notin DOMAIN rows
  <2>1. after = with  BY <1>3 DEF Saved, Put, key, new
  <2> QED  BY <1>2, <2>1
<1>4. CASE key \in DOMAIN rows
  <2>1. after = Cascade(with, key, rows[key], new)
    BY <1>4 DEF Saved, Put, key, new
  <2>2. DOMAIN with = DOMAIN rows /\ \A t \in DOMAIN rows \ {key} : with[t] = rows[t]
    BY <1>4 DEF Put
  <2>3. after = [t \in DOMAIN after |-> after[t]] /\ DOMAIN after = DOMAIN rows
    BY <2>1, <2>2 DEF Cascade
  <2>4. ASSUME NEW t \in DOMAIN rows
        PROVE  after[t].external_id = with[t].external_id /\ after[t].parent = with[t].parent
    <3>1. RowOK(rows[t])  BY DEF GoodTree
    <3>2. CASE t = key
      BY <2>1, <2>2, <3>2 DEF Cascade
    <3>3. CASE t # key
      BY <2>1, <2>2, <3>1, <3>3, UpdatedKeeps DEF Cascade
    <3> QED  BY <3>2, <3>3
  <2> HIDE DEF after, with
  <2>5. KeysTyped(after)
    BY <1>2, <2>2, <2>3, <2>4 DEF KeysTyped
  <2> QED  BY <2>5 DEF after
<1> QED  BY <1>3, <1>4

\* What a request has in memory has a type.
LEMMA StartTyped ==
    ASSUME Inv, TypeOK, NEW r \in Requests, NEW i, i \in Instances,
           instance' = [instance EXCEPT ![r] = i], UNCHANGED <<tags, lastTag>>
    PROVE  TypeOK'
BY DEF TypeOK

\* The parent that a request caches.
LEMMA CachedTyped ==
    ASSUME NEW rows, GoodTree(rows), NEW p \in DOMAIN rows \cup {NoTag}
    PROVE  CachedTag(rows, p) \in {NotCached} \cup [depth : Int, lineage : Seq(Values)]
<1>1. CASE p = NoTag  BY <1>1 DEF CachedTag
<1>2. CASE p # NoTag
  <2>1. rows[p].depth \in Int /\ rows[p].lineage \in Seq(Values)
    BY <1>2 DEF GoodTree, RowOK
  <2> QED  BY <1>2, <2>1 DEF CachedTag
<1> QED  BY <1>1, <1>2

\* Every step keeps the types.
LEMMA StepTyped ==
    ASSUME Inv, Inv', TypeOK, [Next]_treeVars
    PROVE  TypeOK'
<1>1. /\ GoodTree(tags) /\ GoodTree(tags') /\ KeysTyped(tags)
      /\ lastTag \in Nat /\ lastTag' \in Nat
      /\ DOMAIN tags \subseteq 1 .. lastTag /\ DOMAIN tags' \subseteq 1 .. lastTag'
  BY KeysOfTyped DEF Inv, TypeOK, GoodTree
<1>2. IsFiniteSet(DOMAIN tags)
  BY <1>1, FinitelyMany
<1>3. NoTag \in Nat /\ DOMAIN tags \subseteq Nat
  BY <1>1 DEF NoTag
<1>4. ASSUME NEW r \in Requests, NEW v \in Values, NEW parent \in DOMAIN tags \cup {NoTag},
             NEW e \in GivenExternalIds, AddTag(r, v, parent, e)
      PROVE  TypeOK'
  <2> DEFINE i == NewTag(tags, v, parent, e)
  <2>1. i \in Instances
    <3>1. CachedTag(tags, parent) \in {NotCached} \cup [depth : Int, lineage : Seq(Values)]
      BY <1>1, CachedTyped
    <3>2. e \in ExternalIds \cup {NoExternalId}  BY TagTreeAssumption DEF ExternalIds
    <3>3. parent \in Nat  BY <1>3
    <3> QED  BY <1>3, <3>1, <3>2, <3>3 DEF NewTag, Instances
  <2>2. instance' = [instance EXCEPT ![r] = i] /\ UNCHANGED <<tags, lastTag>>
    BY <1>4 DEF AddTag
  <2> HIDE DEF i
  <2> QED  BY <2>1, <2>2, StartTyped
<1>5. ASSUME NEW r \in Requests, NEW t \in DOMAIN tags, NEW v \in Values, UpdateTag(r, t, v)
      PROVE  TypeOK'
  <2> DEFINE i == RenamedTag(tags, t, v)
  <2>1. i \in Instances
    <3>1. tags[t].external_id \in ExternalIds /\ tags[t].parent \in Nat
      BY <1>1 DEF KeysTyped
    <3> QED  BY <1>3, <3>1 DEF RenamedTag, Instances
  <2>2. instance' = [instance EXCEPT ![r] = i] /\ UNCHANGED <<tags, lastTag>>
    BY <1>5 DEF UpdateTag
  <2> HIDE DEF i
  <2> QED  BY <2>1, <2>2, StartTyped
<1>6. ASSUME NEW r \in Requests, NEW t \in DOMAIN tags,
             NEW parent \in DOMAIN tags \cup {NoTag}, MoveTag(r, t, parent)
      PROVE  TypeOK'
  <2> DEFINE i == MovedTag(tags, t, parent)
  <2>1. i \in Instances
    <3>1. tags[t].external_id \in ExternalIds /\ tags[t].value \in Values
      BY <1>1 DEF KeysTyped, GoodTree, RowOK
    <3>2. CachedTag(tags, parent) \in {NotCached} \cup [depth : Int, lineage : Seq(Values)]
      BY <1>1, CachedTyped
    <3>3. parent \in Nat  BY <1>3
    <3> QED  BY <1>3, <3>1, <3>2, <3>3 DEF MovedTag, Instances
  <2>2. instance' = [instance EXCEPT ![r] = i] /\ UNCHANGED <<tags, lastTag>>
    BY <1>6 DEF MoveTag
  <2> HIDE DEF i
  <2> QED  BY <2>1, <2>2, StartTyped
<1>7. ASSUME NEW r \in Requests, Save(r) PROVE TypeOK'
  <2> DEFINE i == instance[r]
  <2>1. /\ i # NoInstance /\ instance' = [instance EXCEPT ![r] = NoInstance]
        /\ i \in Instances
    BY <1>7 DEF Save, TypeOK
  <2>2. instance' \in [Requests -> Instances \cup {NoInstance}]
    BY <2>1 DEF TypeOK
  <2>3. KeysTyped(tags')
    <3>1. CASE CanSave(tags, i)
      <4>1. tags' = Saved(tags, lastTag, i)  BY <1>7, <3>1 DEF Save
      <4>2. /\ i.value \in Values /\ i.parent \in Nat
            /\ i.external_id \in ExternalIds \cup {NoExternalId}
        BY <2>1 DEF Instances
      <4> HIDE DEF i
      <4> QED  BY <1>1, <1>2, <4>1, <4>2, SavedKeysTyped
    <3>2. CASE ~ CanSave(tags, i)
      BY <1>1, <1>7, <3>2 DEF Save
    <3> QED  BY <3>1, <3>2
  <2>4. tags' \in [DOMAIN tags' -> Tag]
    BY <1>1, <2>3, RowsTyped
  <2> QED  BY <1>1, <2>2, <2>4 DEF TypeOK
<1>8. ASSUME NEW ts, NEW with_subtags, DeleteTags(ts, with_subtags) PROVE TypeOK'
  <2>1. tags' = Without(tags, ts) /\ UNCHANGED <<lastTag, instance>>
    BY <1>8 DEF DeleteTags
  <2>2. KeysTyped(tags')
    BY <1>1, <2>1 DEF KeysTyped, Without
  <2>3. tags' \in [DOMAIN tags' -> Tag]
    BY <1>1, <2>2, RowsTyped
  <2> QED  BY <1>1, <2>1, <2>3 DEF TypeOK
<1>9. CASE UNCHANGED treeVars
  BY <1>9 DEF treeVars, TypeOK
<1> QED  BY <1>4, <1>5, <1>6, <1>7, <1>8, <1>9 DEF Next, Edit

-----------------------------------------------------------------------------
(* Invariance                                                              *)

\* Requests that do not overlap and never move a tag below itself keep the tree.
LEMMA TreeInvariance ==
    ASSUME ~ Interleaved, ~ MovesBelowSelf
    PROVE  Spec => []Inv
<1>1. Init => Inv
  <2> SUFFICES ASSUME Init PROVE Inv  OBVIOUS
  <2>1. DOMAIN tags = {} /\ lastTag = 0 /\ DOMAIN instance = Requests
        /\ \A r \in Requests : instance[r] = NoInstance
    BY DEF Init
  <2> QED  BY <2>1 DEF Inv, GoodTree
<1>2. Inv /\ [Next]_treeVars => Inv'
  <2> SUFFICES ASSUME Inv, [Next]_treeVars PROVE Inv'  OBVIOUS
  <2>1. ASSUME NEW r \in Requests, NEW v \in Values,
               NEW parent \in DOMAIN tags \cup {NoTag}, NEW e \in GivenExternalIds,
               AddTag(r, v, parent, e)
        PROVE  Inv'
    BY <2>1, AddTagInv
  <2>2. ASSUME NEW r \in Requests, NEW t \in DOMAIN tags, NEW v \in Values, UpdateTag(r, t, v)
        PROVE  Inv'
    BY <2>2, UpdateTagInv
  <2>3. ASSUME NEW r \in Requests, Save(r) PROVE Inv'
    BY <2>3, SaveInv
  <2>4. ASSUME NEW ts \in SUBSET DOMAIN tags, NEW with_subtags \in BOOLEAN,
               DeleteTags(ts, with_subtags)
        PROVE  Inv'
    BY <2>4, DeleteTagsInv
  <2>5. ASSUME NEW r \in Requests, NEW t \in DOMAIN tags,
               NEW parent \in DOMAIN tags \cup {NoTag}, MoveTag(r, t, parent)
        PROVE  Inv'
    BY <2>5, MoveTagInv
  <2>6. CASE UNCHANGED treeVars
    BY <2>6 DEF treeVars, Inv, GoodTree, RowOK, HasColumns, Columns, Below, DepthAt,
               LineageAt, Loaded, ParentValues, CachedTag
  <2> QED  BY <2>1, <2>2, <2>3, <2>4, <2>5, <2>6 DEF Next, Edit
<1> QED  BY <1>1, <1>2, PTL DEF Spec

\* In a good tree the copies follow the parents.
LEMMA CopiesFollowParents ==
    ASSUME Inv
    PROVE  LineageFollowsParent
<1> SUFFICES ASSUME Inv, NEW t \in DOMAIN tags
             PROVE  LET parent == tags[t].parent
                    IN  IF parent = NoTag
                        THEN tags[t].depth = 0 /\ tags[t].lineage = <<tags[t].value>>
                        ELSE /\ parent \in DOMAIN tags
                             /\ tags[t].depth = tags[parent].depth + 1
                             /\ tags[t].lineage = Append(tags[parent].lineage, tags[t].value)
  BY DEF LineageFollowsParent
<1>1. Below(tags, tags[t])  BY DEF Inv, GoodTree
<1>2. CASE tags[t].parent = NoTag
  BY <1>1, <1>2 DEF Below, DepthAt, LineageAt
<1>3. CASE tags[t].parent # NoTag
  BY <1>1, <1>3 DEF Below, DepthAt, LineageAt
<1> QED  BY <1>2, <1>3

\* Tag.save() keeps the cached depth and lineage of every tag in step with the
\* parents, for any number of tags, values, levels and requests, as long as no
\* request changes the tags between the load and the save of another, and no
\* import moves a tag below itself (base.py:175, :200).
THEOREM LineagesAreRight ==
    ASSUME ~ Interleaved, ~ MovesBelowSelf
    PROVE  Spec => []LineageFollowsParent
<1>1. Inv => LineageFollowsParent
  BY CopiesFollowParents
<1> QED  BY <1>1, TreeInvariance, PTL

\* Every variable keeps its type: external_id finds a candidate, and the
\* cascade leaves what it does not rewrite.
LEMMA TypesKept ==
    ASSUME ~ Interleaved, ~ MovesBelowSelf
    PROVE  Spec => []TypeOK
<1>1. Init => TypeOK
  BY DEF Init, TypeOK
<1>2. TypeOK /\ Inv /\ Inv' /\ [Next]_treeVars => TypeOK'
  BY StepTyped
<1> QED  BY <1>1, <1>2, TreeInvariance, PTL DEF Spec

\* The queries that select by lineage see what following the parents would
\* show: descendant_count counts the subtags, and the deep lists hold the tags
\* above a match (base.py:157, :444), for any number of tags, values and levels.
THEOREM QueriesAreRight ==
    ASSUME ~ Interleaved, ~ MovesBelowSelf
    PROVE  Spec => []QueriesSeeTheTree
<1>1. ASSUME Inv, TypeOK PROVE QueriesSeeTheTree
  <2>1. GoodTree(tags) /\ NoTag \notin DOMAIN tags
    BY <1>1 DEF Inv, GoodTree
  <2>2. IsFiniteSet(DOMAIN tags)
    BY <1>1, FinitelyMany DEF Inv
  <2>3. ASSUME NEW t \in DOMAIN tags
        PROVE  DescendantCount(t) = Cardinality(WithSubtags({t})) - 1
    BY <2>1, <2>2, DescendantsCounted DEF DescendantCount, WithSubtags
  <2>4. ASSUME NEW t \in DOMAIN tags, NEW m \in DOMAIN tags
        PROVE  FilteredTagsDeep(t, {m})
                 = {a \in WithSubtags({t}) \ {t} : m \in WithSubtags({a})}
    <3>1. FilteredTagsDeep(t, {m})
            = {u \in DeeperBelow(tags, t) :
                  WithSubtagsIn(tags, {u}) \cap {m} \cap DeeperBelow(tags, t) # {}}
      BY <2>1 DEF FilteredTagsDeep, WithSubtags, DeeperBelow
    <3>2. {u \in DeeperBelow(tags, t) :
              WithSubtagsIn(tags, {u}) \cap {m} \cap DeeperBelow(tags, t) # {}}
            = {a \in WithSubtagsIn(tags, {t}) \ {t} : m \in WithSubtagsIn(tags, {a})}
      BY <2>1, SearchFindsTheWayDown
    <3> QED  BY <3>1, <3>2 DEF WithSubtags
  <2> QED  BY <1>1, <2>3, <2>4, CopiesFollowParents DEF QueriesSeeTheTree
<1> QED  BY <1>1, TreeInvariance, TypesKept, PTL

-----------------------------------------------------------------------------
(* Refinement                                                              *)

\* The refinement mapping, for the rows of the state.
LEMMA PathNow ==
    /\ Path = PathIn(tags)
    /\ Path' = PathIn(tags')
BY DEF Path, TagForValue, PathIn, TagFor

\* A request that adds a tag has left a key for it.
KeysLeft ==
    \A r \in Requests : instance[r] # NoInstance /\ instance[r].pk = NoTag => lastTag < MaxTags

\* It stays so until the request saves the tag, as no other is in between.
LEMMA KeysLeftKept ==
    ASSUME Inv, Inv', KeysLeft, ~ Interleaved, [Next]_treeVars
    PROVE  KeysLeft'
<1>1. DOMAIN instance = Requests /\ NoTag \notin DOMAIN tags
  BY DEF Inv, GoodTree
<1>2. ASSUME NEW r \in Requests, NEW i, MayStart(r),
             instance' = [instance EXCEPT ![r] = i], i.pk = NoTag => lastTag' < MaxTags
      PROVE  KeysLeft'
  <2>1. \A q \in Requests : instance[q] = NoInstance
    BY <1>2 DEF MayStart, Idle
  <2> QED  BY <1>1, <1>2, <2>1 DEF KeysLeft
<1>3. ASSUME NEW r \in Requests, NEW v \in Values, NEW parent \in DOMAIN tags \cup {NoTag},
             NEW e \in GivenExternalIds, AddTag(r, v, parent, e)
      PROVE  KeysLeft'
  BY <1>2, <1>3 DEF AddTag
<1>4. ASSUME NEW r \in Requests, NEW t \in DOMAIN tags, NEW v \in Values, UpdateTag(r, t, v)
      PROVE  KeysLeft'
  <2>1. RenamedTag(tags, t, v).pk # NoTag  BY <1>1 DEF RenamedTag
  <2> QED  BY <1>2, <1>4, <2>1 DEF UpdateTag
<1>5. ASSUME NEW r \in Requests, NEW t \in DOMAIN tags,
             NEW parent \in DOMAIN tags \cup {NoTag}, MoveTag(r, t, parent)
      PROVE  KeysLeft'
  <2>1. MovedTag(tags, t, parent).pk # NoTag  BY <1>1 DEF MovedTag
  <2> QED  BY <1>2, <1>5, <2>1 DEF MoveTag
<1>6. ASSUME NEW r \in Requests, Save(r) PROVE KeysLeft'
  <2>1. instance[r] # NoInstance /\ instance' = [instance EXCEPT ![r] = NoInstance]
    BY <1>6 DEF Save
  <2>2. \A q \in Requests : instance'[q] = NoInstance
    BY <2>1 DEF Inv
  <2> QED  BY <2>2 DEF KeysLeft
<1>7. ASSUME NEW ts, NEW with_subtags, DeleteTags(ts, with_subtags) PROVE KeysLeft'
  BY <1>7 DEF DeleteTags, KeysLeft
<1>8. CASE UNCHANGED treeVars
  BY <1>8 DEF treeVars, KeysLeft
<1> QED  BY <1>3, <1>4, <1>5, <1>6, <1>7, <1>8 DEF Next, Edit

\* Where a saved tag's path is put.
LEMMA ParentsArePlaces ==
    ASSUME NEW p \in DOMAIN tags \cup {NoTag}
    PROVE  PathAt(tags, p) \in Forest!Places
<1>1. DOMAIN Path = DOMAIN tags  BY DEF Path
<1> QED  BY <1>1, PathNow DEF PathAt, Forest!Places

\* A save adds a path, or moves one with those below it, or changes none.
LEMMA SaveRefines ==
    ASSUME Inv, KeysLeft, NEW r \in Requests, Save(r)
    PROVE  Forest!Next \/ UNCHANGED Path
<1> DEFINE i == instance[r]
           place == PathAt(tags, i.parent)
<1>1. i # NoInstance  BY DEF Save
<1>2. GoodTree(tags) /\ lastTag \in Nat  BY DEF Inv
<1>3. CASE ~ CanSave(tags, i)
  BY <1>3, PathNow DEF Save
<1>4. CASE CanSave(tags, i)
  <2>1. PICK new : /\ SavedBelow(tags, new, i.parent)
                   /\ \A t \in DOMAIN tags \ {i.pk} : tags[t].value # new.value
                   /\ Inserts(i, new) \/ Replaces(i, new)
    BY <1>4, SaveForms
  <2>2. i.parent \in DOMAIN tags \cup {NoTag}  BY <2>1 DEF SavedBelow, Below
  <2>3. place \in Forest!Places  BY <2>2, ParentsArePlaces
  <2>4. DOMAIN Path = DOMAIN tags  BY DEF Path
  <2>5. CASE Inserts(i, new)
    <3> DEFINE key == lastTag + 1
    <3>1. key \in 1 .. MaxTags
      BY <1>1, <1>2, <2>5, TagTreeAssumption DEF KeysLeft, Inserts
    <3>2. key \notin DOMAIN tags /\ key # NoTag /\ tags' = Put(tags, key, new)
      BY <2>5 DEF Inserts
    <3>3. \A t \in DOMAIN tags : tags[t].value # new.value
      BY <1>2, <2>1, <2>5 DEF Inserts, GoodTree
    <3> DEFINE parent == i.parent
    <3> HIDE DEF key
    <3>4. PathIn(tags') = PathsWith(tags, key, place)
      <4>1. SavedBelow(tags, new, parent) /\ place = PathAt(tags, parent)
        BY <2>1
      <4> HIDE DEF parent, place
      <4>2. PathIn(Put(tags, key, new)) = PathsWith(tags, key, PathAt(tags, parent))
        BY <1>2, <3>2, <3>3, <4>1, AddedPaths
      <4> QED  BY <3>2, <4>1, <4>2
    <3> HIDE DEF place, parent
    <3>5. Forest!Add(key, place)
      BY <2>4, <3>2, <3>4, PathNow DEF Forest!Add, PathsWith
    <3> QED  BY <2>3, <3>1, <3>5 DEF Forest!Next
  <2>6. CASE Replaces(i, new)
    <3> DEFINE key == i.pk
    <3>1. /\ key \in DOMAIN tags /\ i.parent # key
          /\ i.parent # NoTag => ~ IsPrefix(tags[key].lineage, tags[i.parent].lineage)
          /\ tags' = Cascade(Put(tags, key, new), key, tags[key], new)
      BY <2>6 DEF Replaces
    <3>2. PathIn(tags') = PathsMoved(tags, key, place)
      <4> DEFINE parent == i.parent
      <4>1. /\ SavedBelow(tags, new, parent) /\ place = PathAt(tags, parent) /\ parent # key
            /\ parent # NoTag => ~ IsPrefix(tags[key].lineage, tags[parent].lineage)
            /\ \A t \in DOMAIN tags \ {key} : tags[t].value # new.value
        BY <2>1, <3>1
      <4> HIDE DEF parent, place, key
      <4>2. PathIn(Cascade(Put(tags, key, new), key, tags[key], new))
              = PathsMoved(tags, key, PathAt(tags, parent))
        BY <1>2, <3>1, <4>1, MovedPaths
      <4> QED  BY <3>1, <4>1, <4>2
    <3>3. ~ IsPrefix(PathIn(tags)[key], place)
      <4>1. CASE i.parent # NoTag
        BY <1>2, <2>2, <3>1, <4>1, PathPrefix DEF PathAt
      <4>2. CASE i.parent = NoTag
        <5>1. Len(PathIn(tags)[key]) > 0
          <6>1. tags[key].lineage \in Seq(Values) /\ Len(tags[key].lineage) > 0
            <7>1. RowOK(tags[key]) /\ Below(tags, tags[key])
              BY <1>2, <3>1 DEF GoodTree
            <7>2. LineageAt(tags, tags[key].parent) \in Seq(Values)
              BY <1>2, <7>1, RowBelow DEF Below
            <7>3. Len(tags[key].lineage) = Len(LineageAt(tags, tags[key].parent)) + 1
              BY <7>1, <7>2, AppendProperties DEF RowOK, Below
            <7> QED  BY <7>1, <7>2, <7>3, LenProperties DEF RowOK
          <6> QED  BY <1>2, <3>1, <6>1, PathType
        <5> QED  BY <4>2, <5>1 DEF PathAt, IsPrefix
      <4> QED  BY <4>1, <4>2
    <3> HIDE DEF key, place
    <3>4. Forest!Move(key, place)
      <4> DEFINE P == PathIn(tags)
                 moved == [u \in DOMAIN P |->
                             IF u \in {x \in DOMAIN P : IsPrefix(P[key], P[x])}
                             THEN place \o SubSeq(P[u], Len(P[key]), Len(P[u])) ELSE P[u]]
      <4>1. Forest!Move(key, place) <=> ~ IsPrefix(P[key], place) /\ PathIn(tags') = moved
        BY PathNow DEF Forest!Move, Forest!Under, Forest!IsPrefix, IsPrefix
      <4>2. DOMAIN P = DOMAIN tags  BY DEF PathIn
      <4>3. PathIn(tags') = moved
        <5> HIDE DEF P
        <5> QED  BY <3>2, <4>2 DEF P, PathsMoved
      <4> QED  BY <3>3, <4>1, <4>3
    <3> QED  BY <2>3, <2>4, <3>1, <3>4 DEF Forest!Next
  <2> QED  BY <2>1, <2>5, <2>6
<1> QED  BY <1>3, <1>4

\* A deletion takes the paths that start with one of those deleted.
LEMMA DeleteRefines ==
    ASSUME Inv, NEW ts \in SUBSET DOMAIN tags, NEW with_subtags, DeleteTags(ts, with_subtags)
    PROVE  Forest!Next
<1>1. tags' = Without(tags, ts)  BY DEF DeleteTags
<1>2. GoodTree(tags)  BY DEF Inv
<1>3. DOMAIN Path = DOMAIN tags  BY DEF Path
<1>4. PathIn(tags') = [u \in DOMAIN tags \ WithSubtagsIn(tags, ts) |-> PathIn(tags)[u]]
  BY <1>1, <1>2, PathsLeft
<1>5. \A u \in DOMAIN tags : u \in WithSubtagsIn(tags, ts)
                               <=> \E t \in ts : IsPrefix(PathIn(tags)[t], PathIn(tags)[u])
  BY <1>2, SubtagsByLineage, PathPrefix
<1>6. DOMAIN Path \ UNION {Forest!Under(t) : t \in ts}
        = DOMAIN tags \ WithSubtagsIn(tags, ts)
  <2>1. \A t \in ts : Forest!Under(t)
                        = {u \in DOMAIN tags : IsPrefix(PathIn(tags)[t], PathIn(tags)[u])}
    BY <1>3, PathNow DEF Forest!Under, Forest!IsPrefix, IsPrefix
  <2> QED  BY <1>3, <1>5, <2>1
<1>7. Forest!Delete(ts)
  BY <1>4, <1>6, PathNow DEF Forest!Delete
<1> QED  BY <1>3, <1>7 DEF Forest!Next

\* Tags that keep parents and copies of lineages of values implement a forest of
\* identities: what Tag.save() and the cascade of a deletion do is to add a
\* path, to move one with all that is below it, or to delete one with all that
\* is below it, and to rename is to change none (base.py:170, :219).
THEOREM TagsAreAForest ==
    ASSUME ~ Interleaved, ~ MovesBelowSelf
    PROVE  Spec => ImplementsForest
<1>1. Init => Forest!Init
  <2>1. SUFFICES ASSUME Init PROVE PathIn(tags) = << >>
    BY PathNow DEF Forest!Init
  <2>2. DOMAIN tags = {}  BY <2>1 DEF Init
  <2>3. PathIn(tags) \in [{} -> {}]  BY <2>2 DEF PathIn
  <2>4. << >> \in [{} -> {}]
    <3>1. << >> \in Seq({}) /\ Len(<< >>) = 0  BY EmptySeq
    <3> QED  BY <3>1, LenProperties
  <2> QED  BY <2>3, <2>4
<1>2. Init => KeysLeft
  BY DEF Init, KeysLeft
<1>3. KeysLeft /\ Inv /\ Inv' /\ [Next]_treeVars => KeysLeft'
  BY KeysLeftKept
<1>4. Inv /\ KeysLeft /\ [Next]_treeVars => [Forest!Next]_(Forest!vars)
  <2> SUFFICES ASSUME Inv, KeysLeft, [Next]_treeVars
               PROVE  Forest!Next \/ UNCHANGED Path
    BY DEF Forest!vars
  <2>1. CASE tags' = tags
    BY <2>1, PathNow
  <2>2. ASSUME NEW r \in Requests, Save(r) PROVE Forest!Next \/ UNCHANGED Path
    BY <2>2, SaveRefines
  <2>3. ASSUME NEW ts \in SUBSET DOMAIN tags, NEW with_subtags \in BOOLEAN,
               DeleteTags(ts, with_subtags)
        PROVE  Forest!Next
    BY <2>3, DeleteRefines
  <2> QED  BY <2>1, <2>2, <2>3 DEF Next, Edit, AddTag, UpdateTag, MoveTag, treeVars
<1> QED  BY <1>1, <1>2, <1>3, <1>4, TreeInvariance, PTL DEF Spec, ImplementsForest, Forest!Spec

-----------------------------------------------------------------------------
(* Rebuilding depth and lineage                                            *)

\* What 0020 makes of the roots, and of the tags level by level.
Roots(rows) ==
    [t \in DOMAIN rows |->
        IF rows[t].parent = NoTag
        THEN [rows[t] EXCEPT !.depth = 0, !.lineage = <<rows[t].value>>]
        ELSE rows[t]]

Stages(rows, g, n) ==
    g = [k \in 0 .. n |-> IF k = 0 THEN Roots(rows) ELSE PopulateLevel(g[k - 1], k)]

\* The recursion over the levels is well founded.
LEMMA StagesExist ==
    ASSUME NEW rows, NEW n \in Nat
    PROVE  \E g : Stages(rows, g, n)
<1> DEFINE Missing == {m \in Nat : ~ \E g : Stages(rows, g, m)}
<1>1. ASSUME Missing # {} PROVE FALSE
  <2>1. PICK m \in Missing : \A x \in Missing : m <= x
    BY <1>1, LeastNatural
  <2>2. m # 0
    <3> DEFINE g == [k \in 0 .. 0 |-> Roots(rows)]
    <3>1. ASSUME m = 0 PROVE Stages(rows, g, m)
      <4>1. g = [k \in 0 .. 0 |-> IF k = 0 THEN Roots(rows) ELSE PopulateLevel(g[k - 1], k)]
        OBVIOUS
      <4> QED  BY <3>1, <4>1 DEF Stages
    <3> QED  BY <3>1
  <2>3. m - 1 \in Nat /\ m - 1 \notin Missing
    BY <2>1, <2>2
  <2>4. PICK g : Stages(rows, g, m - 1)
    BY <2>3
  <2> DEFINE h == [k \in 0 .. m |-> IF k = m THEN PopulateLevel(g[m - 1], m) ELSE g[k]]
             step(f, k) == IF k = 0 THEN Roots(rows) ELSE PopulateLevel(f[k - 1], k)
  <2>5. ASSUME NEW k \in 0 .. m PROVE h[k] = step(h, k)
    <3>1. CASE k = m
      <4>1. m - 1 \in 0 .. m /\ m - 1 # m  BY <2>3
      <4>2. h[m - 1] = g[m - 1]  BY <4>1
      <4>3. h[k] = PopulateLevel(g[m - 1], m)  BY <3>1
      <4> QED  BY <2>2, <3>1, <4>2, <4>3
    <3>2. CASE k # m
      <4>1. k \in 0 .. (m - 1)  BY <2>3, <3>2
      <4>2. h[k] = g[k]  BY <3>2
      <4>3. g[k] = step(g, k)  BY <2>4, <4>1 DEF Stages
      <4>4. k # 0 => k - 1 \in 0 .. m /\ k - 1 # m  BY <4>1
      <4>5. k # 0 => h[k - 1] = g[k - 1]  BY <4>4
      <4> QED  BY <4>2, <4>3, <4>5
    <3> QED  BY <3>1, <3>2
  <2>6. h = [k \in 0 .. m |-> h[k]]  OBVIOUS
  <2> HIDE DEF h
  <2>7. h = [k \in 0 .. m |-> step(h, k)]
    BY <2>5, <2>6
  <2>8. Stages(rows, h, m)
    BY <2>7 DEF Stages
  <2> QED  BY <2>1, <2>8
<1> QED  BY <1>1

LEMMA PopulateRuns ==
    ASSUME NEW rows
    PROVE  \E g : Stages(rows, g, Levels) /\ PopulateDepthAndLineage(rows) = g[Levels]
<1> DEFINE g == CHOOSE after :
                    after = [k \in 0 .. Levels |->
                                IF k = 0 THEN Roots(rows) ELSE PopulateLevel(after[k - 1], k)]
<1>1. \E f : Stages(rows, f, Levels)
  BY StagesExist, TagUpgradeAssumption
<1>2. Stages(rows, g, Levels)
  BY <1>1 DEF Stages
<1>3. PopulateDepthAndLineage(rows) = g[Levels]
  BY DEF PopulateDepthAndLineage, Roots
<1> QED  BY <1>2, <1>3

\* Row x is row y with some other depth, of the levels 0 to k, and lineage.
Rewritten(x, y, k) ==
    /\ HasColumns(x) /\ x.depth \in 0 .. k
    /\ x.value = y.value /\ x.external_id = y.external_id /\ x.parent = y.parent

\* Rows written down to level k: right so far, and no deeper anywhere.
WrittenTo(rows, m, k) ==
    /\ m = [t \in DOMAIN rows |-> m[t]]
    /\ \A t \in DOMAIN rows :
        /\ Rewritten(m[t], rows[t], k)
        /\ rows[t].depth <= k => m[t].depth = rows[t].depth /\ m[t].lineage = rows[t].lineage

\* What writing the two columns of a row leaves.
Wrote(row, d, l) == [row EXCEPT !.depth = d, !.lineage = l]

LEMMA WrittenRow ==
    ASSUME NEW r, HasColumns(r), NEW d \in Int, NEW l \in Seq(Values)
    PROVE  LET x == Wrote(r, d, l)
           IN  /\ HasColumns(x) /\ x.depth = d /\ x.lineage = l
               /\ x.value = r.value /\ x.external_id = r.external_id
               /\ x.parent = r.parent
<1> DEFINE x == Wrote(r, d, l)
<1>1. /\ x \in Columns({r.external_id}, {r.parent})
      /\ x.value = r.value /\ x.external_id = r.external_id
      /\ x.parent = r.parent /\ x.depth = d /\ x.lineage = l
  BY DEF Wrote, HasColumns, Columns
<1> HIDE DEF x
<1>2. HasColumns(x)  BY <1>1 DEF HasColumns
<1> QED  BY <1>1, <1>2 DEF x

LEMMA BareRow ==
    ASSUME NEW r, HasColumns(r), NEW x, x = Wrote(r, 0, << >>)
    PROVE  /\ HasColumns(x) /\ x.depth = 0 /\ x.value = r.value
           /\ x.external_id = r.external_id /\ x.parent = r.parent
<1> DEFINE none == << >>
           d == 0
<1>1. none \in Seq(Values) /\ d \in Int  BY EmptySeq
<1>2. x = Wrote(r, d, none)  OBVIOUS
<1> HIDE DEF none
<1>3. /\ HasColumns(x) /\ x.depth = d /\ x.value = r.value
      /\ x.external_id = r.external_id /\ x.parent = r.parent
  <2> HIDE DEF d
  <2>1. LET y == Wrote(r, d, none)
        IN  /\ HasColumns(y) /\ y.depth = d /\ y.lineage = none
            /\ y.value = r.value /\ y.external_id = r.external_id
            /\ y.parent = r.parent
    BY <1>1, WrittenRow, Zenon
  <2> QED  BY <1>2, <2>1, Zenon
<1> QED  BY <1>3

LEMMA DepthIsNatural ==
    ASSUME NEW rows, GoodTree(rows), NEW t \in DOMAIN rows
    PROVE  rows[t].depth \in Nat
<1> DEFINE above == LineageAt(rows, rows[t].parent)
<1>1. /\ rows[t].parent \in DOMAIN rows \cup {NoTag} /\ rows[t].value \in Values
      /\ rows[t].lineage = Append(above, rows[t].value)
      /\ Len(rows[t].lineage) = rows[t].depth + 1 /\ rows[t].depth \in Int
  BY DEF GoodTree, Below, RowOK
<1>2. above \in Seq(Values)
  BY <1>1, RowBelow
<1> HIDE DEF above
<1>3. Len(rows[t].lineage) = Len(above) + 1 /\ Len(above) \in Nat
  BY <1>1, <1>2, AppendProperties, LenProperties
<1> QED  BY <1>1, <1>3

LEMMA RootsWritten ==
    ASSUME NEW rows, GoodTree(rows)
    PROVE  WrittenTo(rows, Roots(WithoutLineage(rows)), 0)
<1> DEFINE bare == WithoutLineage(rows)
           m == Roots(bare)
<1>1. DOMAIN bare = DOMAIN rows /\ m = [t \in DOMAIN rows |-> m[t]]
  BY DEF WithoutLineage, Roots
<1>2. ASSUME NEW t \in DOMAIN rows
      PROVE  /\ Rewritten(m[t], rows[t], 0)
             /\ rows[t].depth <= 0 =>
                    m[t].depth = rows[t].depth /\ m[t].lineage = rows[t].lineage
  <2> DEFINE row == rows[t]
             x == bare[t]
             y == Wrote(x, 0, <<x.value>>)
  <2>1. RowOK(row) /\ Below(rows, row)
    BY DEF GoodTree
  <2>3. x = Wrote(row, 0, << >>)
    BY DEF WithoutLineage, Wrote
  <2>4. m[t] = IF x.parent = NoTag THEN y ELSE x
    BY <1>1 DEF Roots, Wrote
  <2>5. HasColumns(row) /\ row.value \in Values
    BY <2>1 DEF RowOK
  <2> HIDE DEF m, bare, row
  <2>6. /\ HasColumns(x) /\ x.depth = 0 /\ x.value = row.value
        /\ x.external_id = row.external_id /\ x.parent = row.parent
    <3> HIDE DEF x
    <3> QED  BY <2>3, <2>5, BareRow, Zenon
  <2> HIDE DEF x
  <2>7. <<x.value>> \in Seq(Values) /\ 0 \in Int  BY <2>5, <2>6
  <2>8. /\ HasColumns(y) /\ y.depth = 0 /\ y.value = x.value /\ y.lineage = <<x.value>>
        /\ y.external_id = x.external_id /\ y.parent = x.parent
    BY <2>6, <2>7, WrittenRow, Zenon
  <2> HIDE DEF y
  <2>9. Rewritten(m[t], row, 0)
    BY <2>4, <2>6, <2>8 DEF Rewritten
  <2>10. ASSUME row.depth <= 0
         PROVE  row.parent = NoTag /\ row.depth = 0 /\ row.lineage = <<row.value>>
    <3>1. /\ row.parent \in DOMAIN rows \cup {NoTag} /\ row.depth = DepthAt(rows, row.parent) + 1
          /\ row.lineage = Append(LineageAt(rows, row.parent), row.value)
      BY <2>1 DEF Below, row
    <3>2. CASE row.parent = NoTag
      BY <3>1, <3>2 DEF DepthAt, LineageAt
    <3>3. CASE row.parent # NoTag
      <4>1. row.parent \in DOMAIN rows /\ DepthAt(rows, row.parent) = rows[row.parent].depth
        BY <3>1, <3>3 DEF DepthAt
      <4>2. rows[row.parent].depth \in Nat
        BY <4>1, DepthIsNatural
      <4> QED  BY <2>10, <3>1, <4>1, <4>2
    <3> QED  BY <3>2, <3>3
  <2> QED  BY <2>4, <2>6, <2>8, <2>9, <2>10 DEF row
<1> QED  BY <1>1, <1>2 DEF WrittenTo

\* One more level: its tags get what their parents' say, and no other tag that
\* was right is written.
LEMMA LevelWritten ==
    ASSUME NEW rows, GoodTree(rows), NEW k \in Nat, NEW m, WrittenTo(rows, m, k)
    PROVE  WrittenTo(rows, PopulateLevel(m, k + 1), k + 1)
<1> DEFINE w == PopulateLevel(m, k + 1)
<1>1. /\ m = [t \in DOMAIN rows |-> m[t]]
      /\ \A t \in DOMAIN rows :
            /\ Rewritten(m[t], rows[t], k)
            /\ rows[t].depth <= k =>
                    m[t].depth = rows[t].depth /\ m[t].lineage = rows[t].lineage
  BY DEF WrittenTo
<1>2. w = [t \in DOMAIN rows |-> w[t]]
  BY <1>1 DEF PopulateLevel
<1>3. ASSUME NEW t \in DOMAIN rows
      PROVE  /\ Rewritten(w[t], rows[t], k + 1)
             /\ rows[t].depth <= k + 1 =>
                    w[t].depth = rows[t].depth /\ w[t].lineage = rows[t].lineage
  <2> DEFINE row == rows[t]
             x == m[t]
             p == row.parent
             y == Wrote(x, k + 1, Append(m[p].lineage, x.value))
  <2>1. RowOK(row) /\ Below(rows, row)
    BY DEF GoodTree
  <2>2. /\ HasColumns(x) /\ x.depth \in 0 .. k /\ x.value = row.value
        /\ x.external_id = row.external_id /\ x.parent = p
        /\ row.depth <= k => x.depth = row.depth /\ x.lineage = row.lineage
    BY <1>1 DEF Rewritten
  <2>3. w[t] = IF p = NoTag \/ m[p].depth # k THEN x ELSE y
    <3>1. w[t] = IF x.parent = NoTag \/ m[x.parent].depth # k + 1 - 1 THEN x
                 ELSE Wrote(x, k + 1, Append(m[x.parent].lineage, x.value))
      BY <1>1 DEF PopulateLevel, Wrote
    <3> QED  BY <2>2, <3>1
  <2>4. /\ p \in DOMAIN rows \cup {NoTag} /\ row.depth = DepthAt(rows, p) + 1
        /\ row.lineage = Append(LineageAt(rows, p), row.value)
        /\ row.depth \in Int /\ row.value \in Values
    BY <2>1 DEF Below, RowOK
  <2> HIDE DEF w, x, row, p
  <2>5. CASE p = NoTag
    <3>1. row.depth = 0  BY <2>4, <2>5 DEF DepthAt
    <3>2. w[t] = x /\ row.depth <= k  BY <2>3, <2>5, <3>1
    <3>3. x.depth \in 0 .. (k + 1)  BY <2>2
    <3> QED  BY <2>2, <3>2, <3>3 DEF Rewritten, row, p
  <2>6. CASE p # NoTag
    <3>1. /\ p \in DOMAIN rows /\ DepthAt(rows, p) = rows[p].depth
          /\ LineageAt(rows, p) = rows[p].lineage
      BY <2>4, <2>6 DEF DepthAt, LineageAt
    <3>2. /\ HasColumns(m[p]) /\ m[p].depth \in 0 .. k
          /\ rows[p].depth <= k =>
                    m[p].depth = rows[p].depth /\ m[p].lineage = rows[p].lineage
      BY <1>1, <3>1 DEF Rewritten
    <3>3. rows[p].depth \in Int
      BY <3>1 DEF GoodTree, RowOK
    <3>4. m[p].lineage \in Seq(Values)
      BY <3>2 DEF HasColumns, Columns
    <3>5. CASE m[p].depth # k
      <4>1. rows[p].depth # k  BY <3>2, <3>3, <3>5
      <4>2. row.depth # k + 1  BY <2>4, <3>1, <3>3, <4>1
      <4>3. w[t] = x  BY <2>3, <3>5
      <4> QED  BY <2>2, <2>4, <4>2, <4>3 DEF Rewritten, row, x, p
    <3>6. CASE m[p].depth = k
      <4> DEFINE l == Append(m[p].lineage, x.value)
      <4>1. l \in Seq(Values) /\ k + 1 \in Int  BY <2>2, <2>4, <3>4
      <4>2. w[t] = y  BY <2>3, <2>6, <3>6
      <4> DEFINE z == Wrote(x, k + 1, l)
      <4> HIDE DEF l
      <4>3. /\ HasColumns(y) /\ y.depth = k + 1 /\ y.lineage = l /\ y.value = x.value
            /\ y.external_id = x.external_id /\ y.parent = x.parent
        <5>1. /\ HasColumns(z) /\ z.depth = k + 1 /\ z.lineage = l /\ z.value = x.value
              /\ z.external_id = x.external_id /\ z.parent = x.parent
          BY <2>2, <4>1, WrittenRow
        <5>2. y = z  BY DEF l
        <5> HIDE DEF y, z
        <5> QED  BY <5>1, <5>2
      <4> HIDE DEF y
      <4>4. Rewritten(w[t], row, k + 1)
        <5>1. y.depth \in 0 .. (k + 1)  BY <4>3
        <5>2. y.value = row.value /\ y.external_id = row.external_id /\ y.parent = p
          BY <2>2, <4>3
        <5> QED  BY <4>2, <4>3, <5>1, <5>2 DEF Rewritten, p
      <4>5. ASSUME row.depth <= k + 1
            PROVE  row.depth = k + 1 /\ row.lineage = l
        <5>1. rows[p].depth <= k  BY <2>4, <3>1, <3>3, <4>5
        <5>2. rows[p].depth = k /\ m[p].lineage = rows[p].lineage
          BY <3>2, <3>6, <5>1
        <5> QED  BY <2>2, <2>4, <3>1, <5>2 DEF l
      <4> QED  BY <4>2, <4>3, <4>4, <4>5 DEF row
    <3> QED  BY <3>5, <3>6
  <2> QED  BY <2>5, <2>6
<1> QED  BY <1>2, <1>3 DEF WrittenTo

\* So every stage is right down to its level.
LEMMA StagesWritten ==
    ASSUME NEW rows, GoodTree(rows), NEW n \in Nat, NEW g, Stages(WithoutLineage(rows), g, n)
    PROVE  \A k \in 0 .. n : WrittenTo(rows, g[k], k)
<1> DEFINE bare == WithoutLineage(rows)
           Wrong == {k \in 0 .. n : ~ WrittenTo(rows, g[k], k)}
<1>1. \A k \in 0 .. n : g[k] = IF k = 0 THEN Roots(bare) ELSE PopulateLevel(g[k - 1], k)
  BY DEF Stages
<1> HIDE DEF bare
<1>2. ASSUME Wrong # {} PROVE FALSE
  <2>0. Wrong \subseteq Nat  OBVIOUS
  <2>1. PICK k \in Wrong : \A j \in Wrong : k <= j
    <3> HIDE DEF Wrong
    <3> QED  BY <1>2, <2>0, LeastNatural
  <2>2. k # 0
    <3>1. 0 \in 0 .. n /\ g[0] = Roots(bare)  BY <1>1
    <3> QED  BY <2>1, <3>1, RootsWritten DEF bare
  <2>3. k - 1 \in 0 .. n /\ k - 1 \in Nat /\ k - 1 \notin Wrong
    BY <2>1, <2>2
  <2> DEFINE j == k - 1
  <2>4. WrittenTo(rows, g[j], j)  BY <2>3
  <2>5. g[k] = PopulateLevel(g[j], k) /\ k = j + 1 /\ j \in Nat
    BY <1>1, <2>1, <2>2, <2>3
  <2> HIDE DEF j
  <2>6. WrittenTo(rows, g[k], k)
    BY <2>4, <2>5, LevelWritten
  <2> QED  BY <2>1, <2>6
<1> QED  BY <1>2

\* Migration 0020 gives every tag the depth and lineage that Tag.save() kept in
\* step with the parents, for any tree no deeper than the levels it walks and
\* however the tree came about, although the tags of deeper levels start with
\* the depth of a root and are written too early (0020, :36).
THEOREM PopulateIsRight ==
    ASSUME ~ Interleaved, ~ MovesBelowSelf
    PROVE  Spec => []PopulateRestoresTheCopies
<1>1. ASSUME Inv, TypeOK, \A t \in DOMAIN tags : tags[t].depth <= Levels
      PROVE  PopulateDepthAndLineage(WithoutLineage(tags)) = tags
  <2>1. PICK g : /\ Stages(WithoutLineage(tags), g, Levels)
                 /\ PopulateDepthAndLineage(WithoutLineage(tags)) = g[Levels]
    BY PopulateRuns
  <2> DEFINE m == g[Levels]
  <2>2. GoodTree(tags) /\ Levels \in Nat
    BY <1>1, TagUpgradeAssumption DEF Inv
  <2>3. WrittenTo(tags, m, Levels)
    BY <2>1, <2>2, StagesWritten
  <2> HIDE DEF m
  <2>4. m = [t \in DOMAIN tags |-> m[t]] /\ tags = [t \in DOMAIN tags |-> tags[t]]
    BY <1>1, <2>3 DEF WrittenTo, TypeOK
  <2>5. ASSUME NEW t \in DOMAIN tags PROVE m[t] = tags[t]
    <3> DEFINE x == m[t]
               y == tags[t]
    <3>1. /\ x \in Columns({x.external_id}, {x.parent})
          /\ y \in Columns({y.external_id}, {y.parent})
          /\ x.value = y.value /\ x.external_id = y.external_id /\ x.parent = y.parent
          /\ x.depth = y.depth /\ x.lineage = y.lineage
      BY <1>1, <2>2, <2>3 DEF WrittenTo, Rewritten, HasColumns, GoodTree, RowOK
    <3> HIDE DEF x, y
    <3>2. x = y  BY <3>1 DEF Columns
    <3> QED  BY <3>2 DEF x, y
  <2>6. [t \in DOMAIN tags |-> m[t]] = [t \in DOMAIN tags |-> tags[t]]
    BY <2>5
  <2> QED  BY <2>1, <2>4, <2>6 DEF m
<1> QED  BY <1>1, TreeInvariance, TypesKept, PTL DEF PopulateRestoresTheCopies

-----------------------------------------------------------------------------
(* External ids                                                            *)

TagFields == {"value", "external_id", "parent", "depth", "lineage"}

\* No two rows have an external id in common.
UniqueIds(rows) ==
    /\ \A t \in DOMAIN rows : DOMAIN rows[t] = TagFields
    /\ \A s, t \in DOMAIN rows : rows[s].external_id = rows[t].external_id => s = t

\* The ids stay unique whatever becomes of the tree: requests may overlap, and
\* an object in memory may be of a tag that is gone.
IdsInv ==
    /\ lastTag \in Nat
    /\ DOMAIN tags \subseteq 1 .. lastTag
    /\ UniqueIds(tags)
    /\ DOMAIN instance = Requests
    /\ \A r \in Requests : instance[r] # NoInstance => instance[r].pk \in 0 .. lastTag

\* A saved row gets an id that save() found with no other row, and the cascade
\* writes none.
LEMMA SavedIds ==
    ASSUME NEW rows, UniqueIds(rows), NEW last, NEW i, CanSave(rows, i),
           i.pk \notin DOMAIN rows \/ SavedKey(last, i) = i.pk
    PROVE  /\ DOMAIN Saved(rows, last, i) = DOMAIN rows \cup {SavedKey(last, i)}
           /\ UniqueIds(Saved(rows, last, i))
<1> DEFINE key == SavedKey(last, i)
           new == SavedTag(rows, i)
           with == Put(rows, key, new)
           after == Saved(rows, last, i)
<1>1. \A t \in DOMAIN rows \ {key} : rows[t].external_id # new.external_id
  BY DEF CanSave, SavedTag
<1>2. DOMAIN new = TagFields
  BY DEF SavedTag, TagFields
<1>3. after = IF key \in DOMAIN rows THEN Cascade(with, key, rows[key], new) ELSE with
  BY DEF Saved, Put
<1> HIDE DEF key, new, after
<1>4. /\ DOMAIN with = DOMAIN rows \cup {key} /\ with[key] = new
      /\ \A t \in DOMAIN rows \ {key} : with[t] = rows[t]
  BY DEF Put
<1>5. UniqueIds(with)
  BY <1>1, <1>2, <1>4 DEF UniqueIds
<1> HIDE DEF with
<1>6. ASSUME NEW t \in DOMAIN with, NEW old
      PROVE  /\ DOMAIN Updated(with[t], old, new) = TagFields
             /\ Updated(with[t], old, new).external_id = with[t].external_id
  BY <1>5 DEF UniqueIds, Updated, TagFields
<1>7. CASE key \in DOMAIN rows
  <2>1. after = Cascade(with, key, rows[key], new)
    BY <1>3, <1>7
  <2>2. DOMAIN after = DOMAIN with
    BY <2>1 DEF Cascade
  <2>3. ASSUME NEW t \in DOMAIN with
        PROVE  DOMAIN after[t] = TagFields /\ after[t].external_id = with[t].external_id
    <3>1. after[t] = with[t] \/ after[t] = Updated(with[t], rows[key], new)
      BY <2>1 DEF Cascade
    <3> QED  BY <1>5, <1>6, <3>1 DEF UniqueIds
  <2> QED  BY <1>4, <1>5, <2>2, <2>3 DEF UniqueIds, after, key
<1>8. CASE key \notin DOMAIN rows
  BY <1>3, <1>4, <1>5, <1>8 DEF after, key
<1> QED  BY <1>7, <1>8

\* What a request loads has a key that was given out.
LEMMA StartIds ==
    ASSUME IdsInv, NEW r \in Requests, NEW i, i.pk \in 0 .. lastTag,
           instance' = [instance EXCEPT ![r] = i], UNCHANGED <<tags, lastTag>>
    PROVE  IdsInv'
BY DEF IdsInv

\* Every step keeps the external ids unique.
LEMMA StepIds ==
    ASSUME IdsInv, [Next]_treeVars
    PROVE  IdsInv'
<1>1. DOMAIN tags \cup {NoTag} \subseteq 0 .. lastTag /\ NoTag \notin DOMAIN tags
  BY DEF IdsInv, NoTag
<1>2. ASSUME NEW r \in Requests, NEW v \in Values, NEW parent \in DOMAIN tags \cup {NoTag},
             NEW e \in GivenExternalIds, AddTag(r, v, parent, e)
      PROVE  IdsInv'
  <2>1. NewTag(tags, v, parent, e).pk \in 0 .. lastTag
    BY <1>1 DEF NewTag
  <2> QED  BY <1>2, <2>1, StartIds DEF AddTag
<1>3. ASSUME NEW r \in Requests, NEW t \in DOMAIN tags, NEW v \in Values, UpdateTag(r, t, v)
      PROVE  IdsInv'
  <2>1. RenamedTag(tags, t, v).pk \in 0 .. lastTag
    BY <1>1 DEF RenamedTag
  <2> QED  BY <1>3, <2>1, StartIds DEF UpdateTag
<1>4. ASSUME NEW r \in Requests, NEW t \in DOMAIN tags,
             NEW parent \in DOMAIN tags \cup {NoTag}, MoveTag(r, t, parent)
      PROVE  IdsInv'
  <2>1. MovedTag(tags, t, parent).pk \in 0 .. lastTag
    BY <1>1 DEF MovedTag
  <2> QED  BY <1>4, <2>1, StartIds DEF MoveTag
<1>5. ASSUME NEW r \in Requests, Save(r) PROVE IdsInv'
  <2> DEFINE i == instance[r]
  <2>1. i # NoInstance /\ i.pk \in 0 .. lastTag /\ lastTag \in Nat
    BY <1>5 DEF Save, IdsInv
  <2>2. /\ instance' = [instance EXCEPT ![r] = NoInstance]
        /\ IF CanSave(tags, i)
           THEN /\ tags' = Saved(tags, lastTag, i)
                /\ lastTag' = IF i.pk = NoTag THEN lastTag + 1 ELSE lastTag
           ELSE UNCHANGED <<tags, lastTag>>
    BY <1>5 DEF Save
  <2> HIDE DEF i
  <2>3. lastTag' \in Nat /\ lastTag <= lastTag'
    BY <2>1, <2>2
  <2>4. /\ DOMAIN instance' = Requests
        /\ \A q \in Requests : instance'[q] # NoInstance => instance'[q].pk \in 0 .. lastTag'
    BY <2>1, <2>2, <2>3 DEF IdsInv
  <2>5. CASE CanSave(tags, i)
    <3>1. SavedKey(lastTag, i) = IF i.pk = NoTag THEN lastTag + 1 ELSE i.pk
      BY DEF SavedKey
    <3>2. i.pk \notin DOMAIN tags \/ SavedKey(lastTag, i) = i.pk
      BY <1>1, <3>1
    <3>3. UniqueIds(tags) /\ tags' = Saved(tags, lastTag, i)
      BY <2>2, <2>5 DEF IdsInv
    <3>4. /\ DOMAIN Saved(tags, lastTag, i) = DOMAIN tags \cup {SavedKey(lastTag, i)}
          /\ UniqueIds(Saved(tags, lastTag, i))
      BY <2>5, <3>2, <3>3, SavedIds, Zenon
    <3>5. SavedKey(lastTag, i) \in 1 .. lastTag'
      BY <2>1, <2>2, <2>5, <3>1 DEF NoTag
    <3> QED  BY <2>3, <2>4, <3>3, <3>4, <3>5 DEF IdsInv
  <2>6. CASE ~ CanSave(tags, i)
    BY <2>2, <2>3, <2>4, <2>6 DEF IdsInv
  <2> QED  BY <2>5, <2>6
<1>6. ASSUME NEW ts, NEW with_subtags, DeleteTags(ts, with_subtags) PROVE IdsInv'
  <2>1. tags' = Without(tags, ts) /\ UNCHANGED <<lastTag, instance>>
    BY <1>6 DEF DeleteTags
  <2>2. DOMAIN tags' \subseteq DOMAIN tags /\ \A t \in DOMAIN tags' : tags'[t] = tags[t]
    BY <2>1 DEF Without
  <2>3. UniqueIds(tags')
    BY <2>2 DEF IdsInv, UniqueIds
  <2> QED  BY <2>1, <2>2, <2>3 DEF IdsInv
<1>7. CASE UNCHANGED treeVars
  BY <1>7 DEF treeVars, IdsInv
<1> QED  BY <1>2, <1>3, <1>4, <1>5, <1>6, <1>7 DEF Next, Edit

\* What 0022 makes of the ids, tag by tag.
BackfillStep(rows, missing, g, k) ==
    IF k = 0 THEN [t \in DOMAIN rows \ missing |-> rows[t].external_id]
    ELSE IF k \in missing THEN BackfillTag(rows, g[k - 1], k)
    ELSE g[k - 1]

BackfillStages(rows, missing, g, n) ==
    g = [k \in 0 .. n |-> BackfillStep(rows, missing, g, k)]

\* The recursion over the keys is well founded.
LEMMA BackfillStagesExist ==
    ASSUME NEW rows, NEW missing, NEW n \in Nat
    PROVE  \E g : BackfillStages(rows, missing, g, n)
<1> DEFINE Undone == {m \in Nat : ~ \E g : BackfillStages(rows, missing, g, m)}
<1>1. ASSUME Undone # {} PROVE FALSE
  <2>1. PICK m \in Undone : \A x \in Undone : m <= x
    BY <1>1, LeastNatural
  <2>2. m # 0
    <3> DEFINE first == [t \in DOMAIN rows \ missing |-> rows[t].external_id]
               g == [k \in 0 .. 0 |-> first]
    <3>1. ASSUME m = 0 PROVE BackfillStages(rows, missing, g, m)
      <4>1. \A k \in 0 .. 0 : BackfillStep(rows, missing, g, k) = first
        BY DEF BackfillStep
      <4> HIDE DEF first
      <4>2. g = [k \in 0 .. 0 |-> BackfillStep(rows, missing, g, k)]
        BY <4>1
      <4> QED  BY <3>1, <4>2 DEF BackfillStages
    <3> QED  BY <3>1
  <2>3. m - 1 \in Nat /\ m - 1 \notin Undone
    BY <2>1, <2>2
  <2>4. PICK g : BackfillStages(rows, missing, g, m - 1)
    BY <2>3
  <2> DEFINE next == BackfillStep(rows, missing, g, m)
             h == [k \in 0 .. m |-> IF k = m THEN next ELSE g[k]]
  <2>5. \A k \in 0 .. m : k # 0 => k - 1 \in 0 .. m /\ h[k - 1] = g[k - 1]
    BY <2>3
  <2>6. ASSUME NEW k \in 0 .. m PROVE h[k] = BackfillStep(rows, missing, h, k)
    <3>1. BackfillStep(rows, missing, h, k) = BackfillStep(rows, missing, g, k)
      <4> HIDE DEF h
      <4> QED  BY <2>5 DEF BackfillStep
    <3>2. CASE k = m
      BY <3>1, <3>2
    <3>3. CASE k # m
      <4>1. k \in 0 .. (m - 1)  BY <2>3, <3>3
      <4>2. g[k] = BackfillStep(rows, missing, g, k)  BY <2>4, <4>1 DEF BackfillStages
      <4> QED  BY <3>1, <3>3, <4>2
    <3> QED  BY <3>2, <3>3
  <2>7. h = [k \in 0 .. m |-> h[k]]  OBVIOUS
  <2> HIDE DEF h
  <2>8. BackfillStages(rows, missing, h, m)
    BY <2>6, <2>7 DEF BackfillStages
  <2> QED  BY <2>1, <2>8
<1> QED  BY <1>1

LEMMA BackfillRuns ==
    ASSUME lastTag \in Nat, NEW rows, NEW missing
    PROVE  \E g : /\ BackfillStages(rows, missing, g, lastTag)
                  /\ Backfill(rows, missing) = g[lastTag]
<1> DEFINE g == CHOOSE after :
                    after = [k \in 0 .. lastTag |-> BackfillStep(rows, missing, after, k)]
<1>1. \E f : BackfillStages(rows, missing, f, lastTag)
  BY BackfillStagesExist
<1>2. BackfillStages(rows, missing, g, lastTag)
  BY <1>1 DEF BackfillStages
<1>3. Backfill(rows, missing) = g[lastTag]
  BY DEF Backfill, BackfillStep
<1> QED  BY <1>2, <1>3

\* Ids made up for the tags of missing with keys up to k: all different.
FilledTo(rows, missing, ids, k) ==
    /\ IsFiniteSet(DOMAIN ids)
    /\ DOMAIN ids = (DOMAIN rows \ missing) \cup {t \in missing : t <= k}
    /\ \A s, t \in DOMAIN ids : ids[s] = ids[t] => s = t
    /\ \A t \in missing : t <= k => ids[t][1] = rows[t].value

\* One more tag gets an id that none has so far.
LEMMA TagFilled ==
    ASSUME NEW rows, NEW missing \in SUBSET DOMAIN rows, DOMAIN rows \subseteq Nat,
           NEW ids, NEW k \in Nat, FilledTo(rows, missing, ids, k), k + 1 \in missing
    PROVE  FilledTo(rows, missing, BackfillTag(rows, ids, k + 1), k + 1)
<1> DEFINE new == k + 1
           taken == Range(ids)
           made == FreeCandidate(rows[new].value, taken)
           more == BackfillTag(rows, ids, new)
<1>1. /\ IsFiniteSet(DOMAIN ids)
      /\ DOMAIN ids = (DOMAIN rows \ missing) \cup {t \in missing : t <= k}
      /\ \A s, t \in DOMAIN ids : ids[s] = ids[t] => s = t
      /\ \A t \in missing : t <= k => ids[t][1] = rows[t].value
  BY DEF FilledTo
<1>2. /\ taken = {ids[t] : t \in DOMAIN ids} /\ IsFiniteSet(taken)
  <2>1. taken = {ids[t] : t \in DOMAIN ids}
    BY DEF Range
  <2> DEFINE column == [t \in DOMAIN ids |-> ids[t]]
  <2>2. column \in Surjection(DOMAIN ids, taken)
    BY <2>1 DEF Surjection
  <2> QED  BY <1>1, <2>1, <2>2, FS_Surjection
<1>3. new \notin DOMAIN ids /\ new \in missing /\ new \in Nat
  BY <1>1
<1>4. DOMAIN more = DOMAIN ids \cup {new} /\ more[new] = made
      /\ \A t \in DOMAIN ids : more[t] = ids[t]
  BY <1>3 DEF BackfillTag
<1> HIDE DEF taken, more
<1>5. made \notin taken /\ made[1] = rows[new].value
  BY <1>2, CandidateIsFree
<1> HIDE DEF made
<1>6. \A t \in missing : t <= new <=> t <= k \/ t = new
  BY <1>3
<1> HIDE DEF new
<1>7. IsFiniteSet(DOMAIN more)
  <2> DEFINE keys == DOMAIN ids
  <2>1. IsFiniteSet(keys)  BY <1>1
  <2> HIDE DEF keys
  <2>2. IsFiniteSet(keys \cup {new})  BY <2>1, FS_AddElement
  <2> QED  BY <1>4, <2>2 DEF keys
<1>8. DOMAIN more = (DOMAIN rows \ missing) \cup {t \in missing : t <= new}
  BY <1>1, <1>3, <1>4, <1>6
<1>9. \A s, t \in DOMAIN more : more[s] = more[t] => s = t
  BY <1>1, <1>2, <1>4, <1>5
<1>10. ASSUME NEW t \in missing, t <= new PROVE more[t][1] = rows[t].value
  <2>1. CASE t = new
    BY <1>4, <1>5, <2>1
  <2>2. CASE t # new
    BY <1>1, <1>4, <1>6, <1>10, <2>2
  <2> QED  BY <2>1, <2>2
<1> QED  BY <1>7, <1>8, <1>9, <1>10 DEF FilledTo, more, new

\* After the last key every tag has an id.
LEMMA StagesFilled ==
    ASSUME NEW rows, UniqueIds(rows), NEW n \in Nat, DOMAIN rows \subseteq 1 .. n,
           NEW missing \in SUBSET DOMAIN rows, NEW g, BackfillStages(rows, missing, g, n)
    PROVE  FilledTo(rows, missing, g[n], n)
<1>1. /\ DOMAIN rows \subseteq Nat /\ \A t \in DOMAIN rows : t > 0
  OBVIOUS
<1>2. \A k \in 0 .. n : g[k] = BackfillStep(rows, missing, g, k)
  BY DEF BackfillStages
<1> DEFINE Wrong == {k \in Nat : k <= n /\ ~ FilledTo(rows, missing, g[k], k)}
<1>3. ASSUME Wrong # {} PROVE FALSE
  <2>1. PICK m \in Wrong : \A x \in Wrong : m <= x
    BY <1>3, LeastNatural
  <2>2. m # 0
    <3>1. ASSUME m = 0 PROVE FilledTo(rows, missing, g[0], 0)
      <4> DEFINE ids == [t \in DOMAIN rows \ missing |-> rows[t].external_id]
      <4>1. g[0] = ids
        BY <1>2 DEF BackfillStep
      <4>2. IsFiniteSet(DOMAIN rows \ missing)
        <5>1. IsFiniteSet(1 .. n)  BY FS_Interval
        <5> QED  BY <5>1, FS_Subset
      <4>3. {t \in missing : t <= 0} = {}
        BY <1>1
      <4> QED  BY <1>1, <4>1, <4>2, <4>3 DEF FilledTo, UniqueIds
    <3> QED  BY <2>1, <3>1
  <2> DEFINE k == m - 1
  <2>3. k \in Nat /\ m = k + 1 /\ m \in 0 .. n /\ k \notin Wrong /\ k <= n
    BY <2>1, <2>2
  <2>4. FilledTo(rows, missing, g[k], k)
    BY <2>3
  <2>5. g[m] = IF m \in missing THEN BackfillTag(rows, g[k], m) ELSE g[k]
    BY <1>2, <2>2, <2>3 DEF BackfillStep
  <2> HIDE DEF k
  <2>6. CASE m \in missing
    BY <1>1, <2>1, <2>3, <2>4, <2>5, <2>6, TagFilled
  <2>7. CASE m \notin missing
    <3>1. \A t \in missing : t <= m <=> t <= k
      BY <1>1, <2>3, <2>7
    <3>2. FilledTo(rows, missing, g[k], m)
      BY <2>4, <3>1 DEF FilledTo
    <3> QED  BY <2>1, <2>5, <2>7, <3>2
  <2> QED  BY <2>6, <2>7
<1> QED  BY <1>3

\* 0022 makes up external ids that collide with nothing, for any number of tags
\* and values and whichever of them have none.  This needs nothing of the tree:
\* requests may overlap, and save() keeps the ids there are unique
\* (0022_tag_external_id_not_null.py:49, base.py:196).
THEOREM BackfillIsUnique == Spec => []BackfilledIdsAreUnique
<1>1. Init => IdsInv
  BY DEF Init, IdsInv, UniqueIds
<1>2. IdsInv /\ [Next]_treeVars => IdsInv'
  BY StepIds
<1>3. ASSUME IdsInv, NEW missing \in SUBSET DOMAIN tags
      PROVE  /\ \A s, t \in DOMAIN tags :
                   Backfill(tags, missing)[s] = Backfill(tags, missing)[t] => s = t
             /\ \A t \in missing : Backfill(tags, missing)[t][1] = tags[t].value
  <2>1. PICK g : /\ BackfillStages(tags, missing, g, lastTag)
                 /\ Backfill(tags, missing) = g[lastTag]
    BY <1>3, BackfillRuns DEF IdsInv
  <2>2. FilledTo(tags, missing, g[lastTag], lastTag)
    BY <1>3, <2>1, StagesFilled DEF IdsInv
  <2>3. \A t \in DOMAIN tags : t <= lastTag
    BY <1>3 DEF IdsInv
  <2>4. DOMAIN g[lastTag] = DOMAIN tags
    BY <2>2, <2>3 DEF FilledTo
  <2> QED  BY <2>1, <2>2, <2>3, <2>4 DEF FilledTo
<1>4. IdsInv => BackfilledIdsAreUnique
  BY <1>3 DEF BackfilledIdsAreUnique
<1> QED  BY <1>1, <1>2, <1>4, PTL DEF Spec


-----------------------------------------------------------------------------
(* Loops                                                                   *)

\* Numbers up to a bound.
Bounded(S) == \E b \in Nat : \A k \in S : k <= b
KeySets == {S \in SUBSET (Nat \ {0}) : Bounded(S)}

\* The positions of a list.
LEMMA PositionsAreKeys ==
    ASSUME NEW n \in Nat
    PROVE  1 .. n \in KeySets
<1>1. 1 .. n \subseteq Nat \ {0} /\ \A k \in 1 .. n : k <= n  OBVIOUS
<1> QED  BY <1>1 DEF KeySets, Bounded

LEMMA ListType ==
    ASSUME NEW S, NEW s \in Seq(S)
    PROVE  /\ Len(s) \in Nat /\ DOMAIN s = 1 .. Len(s)
           /\ \A k \in 1 .. Len(s) : s[k] \in S
OBVIOUS

\* What holds at first, and after a round if before it, holds all the way.
LEMMA RoundByRound ==
    ASSUME NEW n \in Nat, NEW S, 0 \in S, \A k \in 1 .. n : k - 1 \in S => k \in S
    PROVE  0 .. n \subseteq S
<1> DEFINE T == (0 .. n) \ S
<1>1. ASSUME T # {} PROVE FALSE
  <2>1. T \subseteq Nat  OBVIOUS
  <2>2. PICK k \in T : \A j \in T : k <= j  BY <1>1, <2>1, LeastNatural
  <2>3. k \in 1 .. n /\ k - 1 \in 0 .. n  BY <2>2
  <2>4. k - 1 \in S  BY <2>2, <2>3
  <2> QED  BY <2>2, <2>3, <2>4
<1> QED  BY <1>1

\* The largest of a bounded set of keys, or zero.
LEMMA LastKey ==
    ASSUME NEW keys \in KeySets
    PROVE  /\ LastOf(keys) \in Nat
           /\ \A k \in keys : k \in 1 .. LastOf(keys)
<1> DEFINE S == keys \cup {0}
           B == {b \in Nat : \A k \in S : k <= b}
<1>1. S \subseteq Nat  BY DEF KeySets
<1>2. B \subseteq Nat /\ B # {}
  <2>1. PICK b \in Nat : \A k \in keys : k <= b  BY DEF KeySets, Bounded
  <2>2. b \in B  BY <2>1
  <2> QED  BY <2>2
<1>3. PICK b \in B : \A c \in B : b <= c
  <2> HIDE DEF B
  <2> QED  BY <1>2, LeastNatural
<1>4. b \in S
  <2>1. SUFFICES ASSUME b \notin S PROVE FALSE  OBVIOUS
  <2>2. b # 0  BY <2>1
  <2>3. \A k \in S : k <= b - 1  BY <1>1, <1>3, <2>1
  <2>4. b - 1 \in B  BY <1>3, <2>2, <2>3
  <2> QED  BY <1>3, <2>4
<1>5. \E x \in S : \A y \in S : x >= y
  BY <1>1, <1>3, <1>4
<1>6. LastOf(keys) \in S /\ \A y \in S : LastOf(keys) >= y
  BY <1>5 DEF LastOf, Max
<1>7. LastOf(keys) \in Nat  BY <1>1, <1>6
<1>8. ASSUME NEW k \in keys PROVE k \in 1 .. LastOf(keys)
  <2>1. k \in Nat /\ k # 0  BY DEF KeySets
  <2>2. LastOf(keys) >= k  BY <1>6
  <2> QED  BY <1>7, <2>1, <2>2
<1> QED  BY <1>7, <1>8

\* One round of a loop, as a function of what there is and the key.
Round(keys, F, start, g, k) ==
    IF k = 0 THEN start ELSE IF k \in keys THEN F[<<g[k - 1], k>>] ELSE g[k - 1]

HasRun(D, keys, F, start, n) ==
    \E g \in [0 .. n -> D] : \A k \in 0 .. n : g[k] = Round(keys, F, start, g, k)

\* A loop whose rounds stay in a set runs to its end.
LEMMA LoopRuns ==
    ASSUME NEW D, NEW start \in D, NEW keys, NEW F, F \in [D \X keys -> D], NEW n \in Nat
    PROVE  HasRun(D, keys, F, start, n)
<1> DEFINE Runs(m) == \E g \in [0 .. m -> D] :
                          \A k \in 0 .. m : g[k] = Round(keys, F, start, g, k)
           S == {m \in Nat : Runs(m)}
<1>1. 0 \in S
  <2> DEFINE g == [k \in 0 .. 0 |-> start]
  <2>1. g \in [0 .. 0 -> D] /\ \A k \in 0 .. 0 : g[k] = Round(keys, F, start, g, k)
    BY DEF Round
  <2>2. Runs(0)
    <3> HIDE DEF g
    <3> QED  BY <2>1
  <2> QED  BY <2>2
<1>2. ASSUME NEW m \in 1 .. n, m - 1 \in S PROVE m \in S
  <2>1. m \in Nat /\ m - 1 \in Nat /\ m # 0  OBVIOUS
  <2>2. PICK g \in [0 .. m - 1 -> D] :
              \A k \in 0 .. m - 1 : g[k] = Round(keys, F, start, g, k)
    BY <1>2
  <2> DEFINE next == Round(keys, F, start, g, m)
             h == [k \in 0 .. m |-> IF k = m THEN next ELSE g[k]]
  <2>3. next \in D
    <3>1. g[m - 1] \in D  BY <2>1, <2>2
    <3>2. m \in keys => <<g[m - 1], m>> \in D \X keys  BY <3>1
    <3>3. m \in keys => F[<<g[m - 1], m>>] \in D  BY <3>2
    <3> QED  BY <2>1, <3>1, <3>3 DEF Round
  <2> HIDE DEF next
  <2>4. h \in [0 .. m -> D]
    <3>1. \A k \in 0 .. m : k # m => k \in 0 .. m - 1  BY <2>1
    <3> QED  BY <2>2, <2>3, <3>1
  <2>5. \A k \in 0 .. m - 1 : h[k] = g[k]  BY <2>1
  <2>6. h[m] = next  BY <2>1
  <2> HIDE DEF h
  <2>7. ASSUME NEW k \in 0 .. m PROVE h[k] = Round(keys, F, start, h, k)
    <3>1. k # 0 => h[k - 1] = g[k - 1]  BY <2>1, <2>5
    <3>2. Round(keys, F, start, h, k) = Round(keys, F, start, g, k)  BY <3>1 DEF Round
    <3>3. CASE k = m  BY <2>6, <3>2, <3>3 DEF next
    <3>4. CASE k # m
      <4>1. k \in 0 .. m - 1  BY <2>1, <3>4
      <4> QED  BY <2>2, <2>5, <3>2, <4>1
    <3> QED  BY <3>3, <3>4
  <2>8. Runs(m)  BY <2>4, <2>7
  <2> QED  BY <2>1, <2>8
<1>3. 0 .. n \subseteq S
  <2> HIDE DEF S
  <2> QED  BY <1>1, <1>2, RoundByRound
<1>4. n \in 0 .. n  OBVIOUS
<1> QED  BY <1>3, <1>4 DEF HasRun

-----------------------------------------------------------------------------
(* Tables                                                                  *)

\* The keys of taxonomies a row can have beside NULL.
TaxonomyKeys(tx) == IF tx = NoTaxonomy THEN {} ELSE {tx.id}

\* The rows whose foreign keys are not broken.
RowsOf(trs, tx) ==
    {row \in ObjectTag : /\ row.tag \in DOMAIN trs \cup {0}
                         /\ row.taxonomy \in TaxonomyKeys(tx) \cup {0}}

\* No two rows break a unique constraint.
Unique(rows) == \A k \in DOMAIN rows : ~ Clashes(rows, k, rows[k])

\* The tables of such rows.
Tables(trs, tx) == {rows \in UNION {[S -> RowsOf(trs, tx)] : S \in KeySets} : Unique(rows)}
Databases(trs, tx) == [rows : Tables(trs, tx), failed : BOOLEAN]

LEMMA TableType ==
    ASSUME NEW trs, NEW tx, NEW rows
    PROVE  rows \in Tables(trs, tx)
             <=> /\ DOMAIN rows \in KeySets
                 /\ rows \in [DOMAIN rows -> RowsOf(trs, tx)]
                 /\ Unique(rows)
BY DEF Tables

\* A row that clashes with none can be added or can replace one.
LEMMA UniqueSaved ==
    ASSUME NEW rows, Unique(rows), NEW k, NEW row, ~ Clashes(rows, k, row),
           NEW table, DOMAIN table = DOMAIN rows \cup {k},
           \A j \in DOMAIN rows \cup {k} : table[j] = IF j = k THEN row ELSE rows[j]
    PROVE  Unique(table)
<1>1. ASSUME NEW j \in DOMAIN table, Clashes(table, j, table[j]) PROVE FALSE
  <2>1. PICK i \in DOMAIN table \ {j} :
          /\ table[i].object = table[j].object
          /\ table[j].taxonomy # 0 /\ table[i].taxonomy = table[j].taxonomy
          /\ \/ table[i]._value = table[j]._value
             \/ table[j].tag # 0 /\ table[i].tag = table[j].tag
    BY <1>1 DEF Clashes
  <2>2. CASE j = k
    <3>1. i \in DOMAIN rows \ {k} /\ table[i] = rows[i] /\ table[j] = row  BY <2>1, <2>2
    <3> QED  BY <2>1, <3>1 DEF Clashes
  <2>3. CASE i = k
    <3>1. j \in DOMAIN rows \ {k} /\ table[i] = row /\ table[j] = rows[j]  BY <2>1, <2>3
    <3> QED  BY <2>1, <3>1 DEF Clashes
  <2>4. CASE i # k /\ j # k
    <3>1. /\ j \in DOMAIN rows /\ i \in DOMAIN rows \ {j}
          /\ table[i] = rows[i] /\ table[j] = rows[j]
      BY <2>1, <2>4
    <3>2. Clashes(rows, j, rows[j])  BY <2>1, <3>1 DEF Clashes
    <3> QED  BY <3>1, <3>2 DEF Unique
  <2> QED  BY <2>2, <2>3, <2>4
<1> QED  BY <1>1 DEF Unique

\* Rows that are left, or that name no more tags and taxonomies than before, stay unique.
LEMMA UniqueLeft ==
    ASSUME NEW rows, Unique(rows), NEW table, DOMAIN table \subseteq DOMAIN rows,
           \A k \in DOMAIN table : /\ table[k].object = rows[k].object
                                   /\ table[k]._value = rows[k]._value
                                   /\ table[k].tag \in {0, rows[k].tag}
                                   /\ table[k].taxonomy \in {0, rows[k].taxonomy}
    PROVE  Unique(table)
<1>1. ASSUME NEW j \in DOMAIN table, Clashes(table, j, table[j]) PROVE FALSE
  <2>1. PICK i \in DOMAIN table \ {j} :
          /\ table[i].object = table[j].object
          /\ table[j].taxonomy # 0 /\ table[i].taxonomy = table[j].taxonomy
          /\ \/ table[i]._value = table[j]._value
             \/ table[j].tag # 0 /\ table[i].tag = table[j].tag
    BY <1>1 DEF Clashes
  <2>2. /\ i \in DOMAIN rows \ {j} /\ j \in DOMAIN rows
        /\ rows[i].object = rows[j].object
        /\ rows[j].taxonomy # 0 /\ rows[i].taxonomy = rows[j].taxonomy
        /\ \/ rows[i]._value = rows[j]._value
           \/ rows[j].tag # 0 /\ rows[i].tag = rows[j].tag
    BY <2>1
  <2>3. Clashes(rows, j, rows[j])  BY <2>2 DEF Clashes
  <2> QED  BY <2>2, <2>3 DEF Unique
<1> QED  BY <1>1 DEF Unique

\* A row more, or another row.
LEMMA SavedRow ==
    ASSUME NEW trs, NEW tx, NEW db \in Databases(trs, tx), NEW k \in Nat \ {0},
           NEW row \in RowsOf(trs, tx)
    PROVE  /\ SaveRow(db, k, row) \in Databases(trs, tx)
           /\ ~ SaveRow(db, k, row).failed =>
                /\ ~ db.failed /\ ~ Clashes(db.rows, k, row)
                /\ DOMAIN SaveRow(db, k, row).rows = DOMAIN db.rows \cup {k}
                /\ \A j \in DOMAIN db.rows \cup {k} :
                      SaveRow(db, k, row).rows[j] = IF j = k THEN row ELSE db.rows[j]
           /\ SaveRow(db, k, row).failed => SaveRow(db, k, row).rows = db.rows
<1> DEFINE rows == db.rows
           table == [j \in DOMAIN rows \cup {k} |-> IF j = k THEN row ELSE rows[j]]
<1>1. /\ rows \in Tables(trs, tx) /\ db.failed \in BOOLEAN
      /\ db = [rows |-> db.rows, failed |-> db.failed]
  BY DEF Databases
<1>2. DOMAIN rows \in KeySets /\ rows \in [DOMAIN rows -> RowsOf(trs, tx)] /\ Unique(rows)
  BY <1>1, TableType
<1>3. DOMAIN rows \cup {k} \in KeySets
  <2>1. PICK b \in Nat : \A j \in DOMAIN rows : j <= b  BY <1>2 DEF KeySets, Bounded
  <2> DEFINE c == IF b < k THEN k ELSE b
  <2>2. c \in Nat /\ k <= c /\ b <= c  OBVIOUS
  <2> HIDE DEF c
  <2>3. \A j \in DOMAIN rows \cup {k} : j <= c
    BY <1>2, <2>1, <2>2 DEF KeySets
  <2> QED  BY <1>2, <2>2, <2>3 DEF KeySets, Bounded
<1>4. table \in [DOMAIN rows \cup {k} -> RowsOf(trs, tx)]  BY <1>2
<1>5. /\ DOMAIN table = DOMAIN rows \cup {k}
      /\ \A j \in DOMAIN rows \cup {k} : table[j] = IF j = k THEN row ELSE rows[j]
  OBVIOUS
<1> HIDE DEF table
<1>6. CASE db.failed \/ Clashes(rows, k, row)
  <2>1. SaveRow(db, k, row) = [rows |-> rows, failed |-> TRUE]
    BY <1>1, <1>6 DEF SaveRow
  <2> QED  BY <1>1, <2>1 DEF Databases
<1>7. CASE ~ (db.failed \/ Clashes(rows, k, row))
  <2>1. SaveRow(db, k, row) = [rows |-> table, failed |-> db.failed]
    BY <1>1, <1>7 DEF SaveRow, table
  <2>2. Unique(table)  BY <1>2, <1>5, <1>7, UniqueSaved
  <2>3. table \in Tables(trs, tx)  BY <1>3, <1>4, <1>5, <2>2, TableType
  <2> QED  BY <1>1, <1>5, <1>7, <2>1, <2>3 DEF Databases
<1> QED  BY <1>6, <1>7

\* No rows are lost that way.
LEMMA SavedRowKeys ==
    ASSUME NEW trs, NEW tx, NEW db \in Databases(trs, tx), NEW k \in Nat \ {0},
           NEW row \in RowsOf(trs, tx), k \in DOMAIN db.rows
    PROVE  DOMAIN SaveRow(db, k, row).rows = DOMAIN db.rows
<1>1. SaveRow(db, k, row).failed \in BOOLEAN
  BY SavedRow DEF Databases
<1>2. CASE SaveRow(db, k, row).failed
  BY <1>2, SavedRow
<1>3. CASE ~ SaveRow(db, k, row).failed
  <2>1. DOMAIN SaveRow(db, k, row).rows = DOMAIN db.rows \cup {k}
    BY <1>3, SavedRow
  <2> QED  BY <2>1
<1> QED  BY <1>1, <1>2, <1>3

-----------------------------------------------------------------------------
(* resync                                                                  *)

\* A row that was resynced points at a taxonomy and a tag that are there.
LEMMA ResyncedFits ==
    ASSUME NEW trs, NEW tx \in Taxonomy \cup {NoTaxonomy}, DOMAIN trs \subseteq Nat,
           \A t \in DOMAIN trs : trs[t].value \in Values,
           NEW row \in RowsOf(trs, tx)
    PROVE  /\ Resynced(tx, trs, row) \in RowsOf(trs, tx)
           /\ Resynced(tx, trs, row).object = row.object
           /\ Resynced(tx, trs, row).is_copied = row.is_copied
           /\ Resynced(tx, trs, row).tag = row.tag \/ row.tag = 0
<1> DEFINE exported == IF row.taxonomy # 0 THEN [row EXCEPT !.export_id = tx.settings.export_id]
                                           ELSE row
           linked == IF row.taxonomy = 0 /\ tx # NoTaxonomy /\ tx.settings.export_id = row.export_id
                     THEN [row EXCEPT !.taxonomy = tx.id] ELSE exported
           same == {t \in DOMAIN trs : trs[t].value = linked._value}
           found == CHOOSE t \in same : TRUE
<1>1. row \in ObjectTag /\ row.tag \in DOMAIN trs \cup {0}
      /\ row.taxonomy \in TaxonomyKeys(tx) \cup {0}
  BY DEF RowsOf
<1>2. tx # NoTaxonomy => /\ tx.id \in Nat \ {0} /\ tx.settings \in Settings
                         /\ TaxonomyKeys(tx) = {tx.id}
  BY DEF Taxonomy, TaxonomyKeys
<1>3. row.taxonomy # 0 => tx # NoTaxonomy
  BY <1>1 DEF TaxonomyKeys
<1>4. /\ linked \in ObjectTag
      /\ linked.tag = row.tag /\ linked.object = row.object /\ linked.is_copied = row.is_copied
      /\ linked.taxonomy \in TaxonomyKeys(tx) \cup {0}
  <2>1. CASE row.taxonomy # 0
    <3>1. linked = [row EXCEPT !.export_id = tx.settings.export_id]
      BY <2>1
    <3>2. tx.settings.export_id \in {s.export_id : s \in Settings}
      BY <1>2, <1>3, <2>1
    <3> HIDE DEF linked
    <3> QED  BY <1>1, <3>1, <3>2 DEF ObjectTag
  <2>2. CASE row.taxonomy = 0 /\ tx # NoTaxonomy /\ tx.settings.export_id = row.export_id
    <3>1. linked = [row EXCEPT !.taxonomy = tx.id]
      BY <2>2
    <3> HIDE DEF linked
    <3> QED  BY <1>1, <1>2, <2>2, <3>1 DEF ObjectTag
  <2>3. CASE row.taxonomy = 0 /\ ~ (tx # NoTaxonomy /\ tx.settings.export_id = row.export_id)
    <3>1. linked = row
      BY <2>3
    <3> QED  BY <1>1, <3>1
  <2> QED  BY <2>1, <2>2, <2>3
<1>5. \/ Resynced(tx, trs, row) = linked
      \/ linked.tag = 0 /\ same # {} /\ Resynced(tx, trs, row) = [linked EXCEPT !.tag = found]
      \/ linked.tag # 0 /\ Resynced(tx, trs, row) = [linked EXCEPT !._value = trs[linked.tag].value]
  BY DEF Resynced
<1>6. same # {} => found \in DOMAIN trs
  OBVIOUS
<1> HIDE DEF linked, same, found
<1>7. CASE Resynced(tx, trs, row) = linked
  BY <1>1, <1>4, <1>7 DEF RowsOf
<1>8. CASE linked.tag = 0 /\ same # {} /\ Resynced(tx, trs, row) = [linked EXCEPT !.tag = found]
  <2>1. found \in Nat  BY <1>6, <1>8
  <2> QED  BY <1>1, <1>4, <1>6, <1>8, <2>1 DEF RowsOf, ObjectTag
<1>9. CASE /\ linked.tag # 0
           /\ Resynced(tx, trs, row) = [linked EXCEPT !._value = trs[linked.tag].value]
  <2>1. trs[linked.tag].value \in Values  BY <1>1, <1>4, <1>9
  <2> QED  BY <1>1, <1>4, <1>9, <2>1 DEF RowsOf, ObjectTag
<1> QED  BY <1>5, <1>7, <1>8, <1>9

\* A table is a function on its keys.
LEMMA WorkingDb ==
    ASSUME NEW trs, NEW tx, NEW rows \in Tables(trs, tx)
    PROVE  /\ Working(rows) \in Databases(trs, tx)
           /\ Working(rows).rows = rows /\ Working(rows).failed = FALSE
BY DEF Working, Databases

\* One round of the loop over the rows.
LEMMA ResyncedRow ==
    ASSUME NEW trs, NEW tx \in Taxonomy \cup {NoTaxonomy}, DOMAIN trs \subseteq Nat,
           \A t \in DOMAIN trs : trs[t].value \in Values,
           NEW db \in Databases(trs, tx), NEW k \in DOMAIN db.rows
    PROVE  /\ ResyncRow(tx, trs, db, k) \in Databases(trs, tx)
           /\ DOMAIN ResyncRow(tx, trs, db, k).rows = DOMAIN db.rows
<1>1. db.rows \in Tables(trs, tx)  BY DEF Databases
<1>2. k \in Nat \ {0} /\ db.rows[k] \in RowsOf(trs, tx)
  BY <1>1, TableType DEF KeySets
<1> DEFINE row == Resynced(tx, trs, db.rows[k])
<1>3. row \in RowsOf(trs, tx)  BY <1>2, ResyncedFits
<1>4. ResyncRow(tx, trs, db, k) \in {db, SaveRow(db, k, row)}
  BY DEF ResyncRow
<1> HIDE DEF row
<1>5. /\ SaveRow(db, k, row) \in Databases(trs, tx)
      /\ DOMAIN SaveRow(db, k, row).rows = DOMAIN db.rows
  BY <1>2, <1>3, SavedRow, SavedRowKeys
<1> QED  BY <1>4, <1>5

\* The loop over the rows, round by round.
ResyncRounds(tx, trs, rows, keys, g) ==
    /\ g \in [0 .. LastOf(keys) -> {db \in Databases(trs, tx) : DOMAIN db.rows = DOMAIN rows}]
    /\ g[0] = Working(rows)
    /\ \A k \in 1 .. LastOf(keys) :
          g[k] = IF k \in keys THEN ResyncRow(tx, trs, g[k - 1], k) ELSE g[k - 1]

LEMMA ResyncRuns ==
    ASSUME NEW trs, NEW tx \in Taxonomy \cup {NoTaxonomy}, DOMAIN trs \subseteq Nat,
           \A t \in DOMAIN trs : trs[t].value \in Values,
           NEW rows \in Tables(trs, tx), NEW keys \in SUBSET DOMAIN rows
    PROVE  LET chosen == IF keys = {} THEN DOMAIN rows ELSE keys
           IN  \E g : /\ ResyncRounds(tx, trs, rows, chosen, g)
                      /\ ResyncObjectTags(tx, trs, rows, keys) = g[LastOf(chosen)].rows
<1> DEFINE chosen == IF keys = {} THEN DOMAIN rows ELSE keys
           n == LastOf(chosen)
           start == Working(rows)
           D == {db \in Databases(trs, tx) : DOMAIN db.rows = DOMAIN rows}
           F == [p \in D \X chosen |-> ResyncRow(tx, trs, p[1], p[2])]
           IsRun(g) == g = [k \in 0 .. n |-> IF k = 0 THEN start
                                ELSE IF k \in chosen THEN ResyncRow(tx, trs, g[k - 1], k)
                                ELSE g[k - 1]]
           after == CHOOSE g : IsRun(g)
<1>1. ResyncObjectTags(tx, trs, rows, keys) = after[n].rows
  BY DEF ResyncObjectTags, ForEach
<1>2. chosen \in KeySets /\ chosen \subseteq DOMAIN rows
  <2>1. DOMAIN rows \in KeySets  BY TableType
  <2> QED  BY <2>1 DEF KeySets, Bounded
<1> HIDE DEF chosen
<1>3. n \in Nat /\ \A k \in chosen : k \in 1 .. n  BY <1>2, LastKey
<1> HIDE DEF n
<1>4. start \in D /\ start = Working(rows)  BY WorkingDb
<1> HIDE DEF start
<1>5. F \in [D \X chosen -> D]
  <2>1. ASSUME NEW db \in D, NEW k \in chosen PROVE ResyncRow(tx, trs, db, k) \in D
    BY <1>2, ResyncedRow
  <2> HIDE DEF D
  <2> QED  BY <2>1
<1>6. \A db \in D, k \in chosen : F[<<db, k>>] = ResyncRow(tx, trs, db, k)
  <2> HIDE DEF D
  <2> QED  OBVIOUS
<1> HIDE DEF D, F
<1>7. PICK g \in [0 .. n -> D] : \A k \in 0 .. n : g[k] = Round(chosen, F, start, g, k)
  <2>1. n \in Nat /\ start \in D  BY <1>3, <1>4
  <2>2. HasRun(D, chosen, F, start, n)  BY <1>5, <2>1, LoopRuns
  <2> QED  BY <2>2 DEF HasRun
<1>8. ASSUME NEW k \in 0 .. n
      PROVE  g[k] = IF k = 0 THEN start
                    ELSE IF k \in chosen THEN ResyncRow(tx, trs, g[k - 1], k) ELSE g[k - 1]
  <2>1. k # 0 => g[k - 1] \in D  BY <1>3, <1>7
  <2> QED  BY <1>6, <1>7, <2>1 DEF Round
<1>9. IsRun(g)  BY <1>7, <1>8
<1>10. IsRun(after)
  <2> HIDE DEF IsRun
  <2> QED  BY <1>9
<1> HIDE DEF after
<1>11. /\ DOMAIN after = 0 .. n
       /\ \A k \in 0 .. n : after[k] = IF k = 0 THEN start
                    ELSE IF k \in chosen THEN ResyncRow(tx, trs, after[k - 1], k)
                    ELSE after[k - 1]
       /\ after = [k \in 0 .. n |-> after[k]]
  BY <1>10
<1>12. \A k \in 0 .. n : after[k] \in D
  <2> DEFINE S == {k \in 0 .. n : after[k] \in D}
  <2>1. 0 \in S
    <3>1. 0 \in 0 .. n  BY <1>3
    <3>2. after[0] = start  BY <1>11, <3>1
    <3> QED  BY <1>4, <3>1, <3>2
  <2>2. ASSUME NEW k \in 1 .. n, k - 1 \in S PROVE k \in S
    <3>1. k \in chosen => F[<<after[k - 1], k>>] \in D
      BY <1>5, <2>2
    <3>2. k \in chosen => ResyncRow(tx, trs, after[k - 1], k) \in D
      BY <1>6, <2>2, <3>1
    <3>3. k \in 0 .. n /\ k # 0  BY <1>3
    <3> QED  BY <1>11, <2>2, <3>2, <3>3
  <2>3. 0 .. n \subseteq S
    <3> HIDE DEF S
    <3> QED  BY <1>3, <2>1, <2>2, RoundByRound
  <2> QED  BY <2>3
<1>13. ResyncRounds(tx, trs, rows, chosen, after)
  <2>1. after \in [0 .. n -> D]  BY <1>11, <1>12
  <2>2. \A k \in 1 .. n : k \in 0 .. n /\ k # 0  BY <1>3
  <2>3. 0 \in 0 .. n  BY <1>3
  <2> QED  BY <1>4, <1>11, <2>1, <2>2, <2>3 DEF ResyncRounds, n, D
<1> QED  BY <1>1, <1>13 DEF n, chosen

-----------------------------------------------------------------------------
(* Saving rows                                                             *)

\* There is a key that is free, and FreeKey gives one.
LEMMA FreeKeyIsFree ==
    ASSUME NEW rows, DOMAIN rows \in KeySets, call = NoCall \/ call.read \in KeySets
    PROVE  /\ FreeKey(rows) \in Nat \ {0} /\ FreeKey(rows) \notin DOMAIN rows
           /\ call # NoCall => FreeKey(rows) \notin call.read
<1> DEFINE read == IF call = NoCall THEN {} ELSE call.read
           S == DOMAIN rows \cup read
           n == Cardinality(S)
           free == (1 .. n + 1) \ S
           least == CHOOSE k \in free : \A j \in free : k <= j
<1>1. read \in KeySets
  BY DEF KeySets, Bounded
<1> HIDE DEF read
<1>2. IsFiniteSet(S)
  <2>1. ASSUME NEW T \in KeySets PROVE IsFiniteSet(T)
    <3>1. PICK b \in Nat : \A k \in T : k <= b  BY DEF KeySets, Bounded
    <3>2. T \in SUBSET Nat  BY DEF KeySets
    <3> QED  BY <3>1, <3>2, FS_BoundedSetOfNaturals
  <2>2. IsFiniteSet(DOMAIN rows) /\ IsFiniteSet(read)  BY <1>1, <2>1
  <2> QED  BY <2>2, FS_Union
<1> HIDE DEF S
<1>3. n \in Nat  BY <1>2, FS_CardinalityType
<1>4. IsFiniteSet(1 .. n + 1) /\ Cardinality(1 .. n + 1) = n + 1
  <2> DEFINE b == n + 1
  <2>1. 1 \in Int /\ b \in Int /\ ~ (1 > b) /\ b - 1 + 1 = b  BY <1>3
  <2>2. /\ IsFiniteSet(1 .. b)
        /\ Cardinality(1 .. b) = IF 1 > b THEN 0 ELSE b - 1 + 1
    <3> HIDE DEF b
    <3> QED  BY <2>1, FS_Interval
  <2> QED  BY <2>1, <2>2
<1>5. free # {}
  <2>1. SUFFICES ASSUME 1 .. n + 1 \subseteq S PROVE FALSE  OBVIOUS
  <2>2. Cardinality(1 .. n + 1) <= n  BY <1>2, <2>1, FS_Subset
  <2> QED  BY <1>3, <1>4, <2>2
<1>6. free \subseteq Nat /\ \A k \in free : k \in Nat \ {0} /\ k \notin S  BY <1>3
<1>7. FreeKey(rows) = least
  BY DEF FreeKey, free, n, S, read
<1> HIDE DEF free
<1>8. \E k \in free : \A j \in free : k <= j  BY <1>5, <1>6, LeastNatural
<1>9. least \in free  BY <1>8
<1> HIDE DEF least
<1> QED  BY <1>6, <1>7, <1>9 DEF S, read

\* What tag_object has decided to save.
Saves == Seq([key : Nat, row : ObjectTag])

\* The call in progress names an object, and what it has read and decided.
CallOK ==
    call # NoCall =>
        /\ call.object \in Objects /\ call.values \in TagLists /\ call.read \in KeySets
        /\ call.plan.saves \in Saves

\* One round of the loop over what is to be saved.
LEMMA CleanSave ==
    ASSUME CallOK, taxonomy \in Taxonomy \cup {NoTaxonomy},
           NEW db \in Databases(tags, taxonomy), NEW save \in [key : Nat, row : ObjectTag]
    PROVE  CleanAndSave(db, save) \in Databases(tags, taxonomy)
<1> DEFINE row == save.row
           clean == /\ row.taxonomy # 0 => taxonomy # NoTaxonomy /\ row.taxonomy = taxonomy.id
                    /\ row.tag \in DOMAIN tags \cup {0}
                    /\ save.key # 0 => /\ row.export_id = taxonomy.settings.export_id
                                       /\ row.tag # 0 => tags[row.tag].value = row._value
           key == IF save.key = 0 THEN FreeKey(db.rows) ELSE save.key
<1>1. DOMAIN db.rows \in KeySets /\ db.rows \in Tables(tags, taxonomy)
      /\ db = [rows |-> db.rows, failed |-> db.failed]
  BY TableType DEF Databases
<1>2. CASE clean
  <2>1. key \in Nat \ {0}
    <3>1. FreeKey(db.rows) \in Nat \ {0}  BY <1>1, FreeKeyIsFree DEF CallOK
    <3> QED  BY <3>1
  <2>2. row \in RowsOf(tags, taxonomy)
    BY <1>2 DEF RowsOf, TaxonomyKeys
  <2>3. CleanAndSave(db, save) = SaveRow(db, key, row)
    BY <1>2 DEF CleanAndSave
  <2> HIDE DEF key, row, clean
  <2> QED  BY <2>1, <2>2, <2>3, SavedRow
<1>3. CASE ~ clean
  <2>1. CleanAndSave(db, save) = [db EXCEPT !.failed = TRUE]
    BY <1>3 DEF CleanAndSave
  <2>2. CleanAndSave(db, save) = [rows |-> db.rows, failed |-> TRUE]
    BY <1>1, <2>1
  <2> QED  BY <1>1, <2>2 DEF Databases
<1> QED  BY <1>2, <1>3

\* The loop over what is to be saved, round by round.
SaveRounds(start, saves, g) ==
    /\ g \in [0 .. LastOf(DOMAIN saves) -> Databases(tags, taxonomy)]
    /\ g[0] = start
    /\ \A k \in 1 .. LastOf(DOMAIN saves) :
          g[k] = IF k \in DOMAIN saves THEN CleanAndSave(g[k - 1], saves[k]) ELSE g[k - 1]

LEMMA SavesRun ==
    ASSUME CallOK, taxonomy \in Taxonomy \cup {NoTaxonomy},
           NEW start \in Databases(tags, taxonomy), NEW saves \in Saves
    PROVE  \E g : /\ SaveRounds(start, saves, g)
                  /\ ForEach(DOMAIN saves, LAMBDA d, n : CleanAndSave(d, saves[n]), start)
                       = g[LastOf(DOMAIN saves)]
<1> DEFINE chosen == DOMAIN saves
           n == LastOf(chosen)
           D == Databases(tags, taxonomy)
           F == [p \in D \X chosen |-> CleanAndSave(p[1], saves[p[2]])]
           IsRun(g) == g = [k \in 0 .. n |-> IF k = 0 THEN start
                                ELSE IF k \in chosen THEN CleanAndSave(g[k - 1], saves[k])
                                ELSE g[k - 1]]
           after == CHOOSE g : IsRun(g)
<1>1. ForEach(DOMAIN saves, LAMBDA d, m : CleanAndSave(d, saves[m]), start) = after[n]
  BY DEF ForEach
<1>2. chosen \in KeySets /\ \A k \in chosen : saves[k] \in [key : Nat, row : ObjectTag]
  <2>1. saves \in Seq([key : Nat, row : ObjectTag])  BY DEF Saves
  <2>2. Len(saves) \in Nat /\ chosen = 1 .. Len(saves)
        /\ \A k \in 1 .. Len(saves) : saves[k] \in [key : Nat, row : ObjectTag]
    BY <2>1, ListType
  <2>3. 1 .. Len(saves) \in KeySets  BY <2>2, PositionsAreKeys
  <2> QED  BY <2>2, <2>3
<1> HIDE DEF chosen
<1>3. n \in Nat /\ \A k \in chosen : k \in 1 .. n  BY <1>2, LastKey
<1> HIDE DEF n
<1>4. start \in D  OBVIOUS
<1>5. F \in [D \X chosen -> D]
  <2>1. ASSUME NEW db \in D, NEW k \in chosen PROVE CleanAndSave(db, saves[k]) \in D
    BY <1>2, CleanSave
  <2> HIDE DEF D
  <2> QED  BY <2>1
<1>6. \A db \in D, k \in chosen : F[<<db, k>>] = CleanAndSave(db, saves[k])
  <2> HIDE DEF D
  <2> QED  OBVIOUS
<1> HIDE DEF D, F
<1>7. PICK g \in [0 .. n -> D] : \A k \in 0 .. n : g[k] = Round(chosen, F, start, g, k)
  <2>1. n \in Nat  BY <1>3
  <2>2. HasRun(D, chosen, F, start, n)  BY <1>4, <1>5, <2>1, LoopRuns
  <2> QED  BY <2>2 DEF HasRun
<1>8. ASSUME NEW k \in 0 .. n
      PROVE  g[k] = IF k = 0 THEN start
                    ELSE IF k \in chosen THEN CleanAndSave(g[k - 1], saves[k]) ELSE g[k - 1]
  <2>1. k # 0 => g[k - 1] \in D  BY <1>3, <1>7
  <2> QED  BY <1>6, <1>7, <2>1 DEF Round
<1>9. IsRun(g)  BY <1>7, <1>8
<1>10. IsRun(after)
  <2> HIDE DEF IsRun
  <2> QED  BY <1>9
<1> HIDE DEF after
<1>11. /\ DOMAIN after = 0 .. n
       /\ \A k \in 0 .. n : after[k] = IF k = 0 THEN start
                    ELSE IF k \in chosen THEN CleanAndSave(after[k - 1], saves[k])
                    ELSE after[k - 1]
       /\ after = [k \in 0 .. n |-> after[k]]
  BY <1>10
<1>12. \A k \in 0 .. n : after[k] \in D
  <2> DEFINE S == {k \in 0 .. n : after[k] \in D}
  <2>1. 0 \in S
    <3>1. 0 \in 0 .. n  BY <1>3
    <3>2. after[0] = start  BY <1>11, <3>1
    <3> QED  BY <1>4, <3>1, <3>2
  <2>2. ASSUME NEW k \in 1 .. n, k - 1 \in S PROVE k \in S
    <3>1. k \in chosen => F[<<after[k - 1], k>>] \in D
      BY <1>5, <2>2
    <3>2. k \in chosen => CleanAndSave(after[k - 1], saves[k]) \in D
      BY <1>6, <2>2, <3>1
    <3>3. k \in 0 .. n /\ k # 0  BY <1>3
    <3> QED  BY <1>11, <2>2, <3>2, <3>3
  <2>3. 0 .. n \subseteq S
    <3> HIDE DEF S
    <3> QED  BY <1>3, <2>1, <2>2, RoundByRound
  <2> QED  BY <2>3
<1>13. SaveRounds(start, saves, after)
  <2>1. after \in [0 .. n -> D]  BY <1>11, <1>12
  <2>2. \A k \in 1 .. n : k \in 0 .. n /\ k # 0  BY <1>3
  <2>3. 0 \in 0 .. n  BY <1>3
  <2> QED  BY <1>4, <1>11, <2>1, <2>2, <2>3 DEF SaveRounds, n, D, chosen
<1> QED  BY <1>1, <1>13 DEF n, chosen

-----------------------------------------------------------------------------
(* The plan of tag_object                                                  *)

\* The tags are rows in order.
TreeOK(rows, last) ==
    GoodTree(rows) /\ KeysTyped(rows) /\ last \in Nat /\ DOMAIN rows \subseteq 1 .. last
TagsOK == TreeOK(tags, lastTag)

\* A row with a tag, or with none.
LEMMA NewRow ==
    ASSUME TagsOK, taxonomy \in Taxonomy, NEW o \in Objects,
           NEW key \in DOMAIN tags \cup {0}, NEW value \in Values \cup {EmptyValue},
           NEW is_copied \in BOOLEAN
    PROVE  /\ NewObjectTag(o, key, value, is_copied) \in RowsOf(tags, taxonomy)
           /\ NewObjectTag(o, key, value, is_copied).object = o
           /\ NewObjectTag(o, key, value, is_copied).taxonomy = taxonomy.id
           /\ NewObjectTag(o, key, value, is_copied).tag = key
           /\ NewObjectTag(o, key, value, is_copied).is_copied = is_copied
<1> DEFINE v == IF key = 0 THEN value ELSE tags[key].value
           e == taxonomy.settings.export_id
<1>1. v \in Values \cup {EmptyValue}
  BY DEF TagsOK, TreeOK, GoodTree, RowOK
<1>2. e \in {s.export_id : s \in Settings} /\ taxonomy.id \in Nat \ {0}
  BY DEF Taxonomy
<1>3. NewObjectTag(o, key, value, is_copied)
        = [object |-> o, taxonomy |-> taxonomy.id, tag |-> key, _value |-> v,
           export_id |-> e, is_copied |-> is_copied]
  BY DEF NewObjectTag
<1>4. key \in Nat
  BY DEF TagsOK, TreeOK
<1>5. taxonomy.id \in TaxonomyKeys(taxonomy) \cup {0}
  BY ObjectTagsAssumption DEF TaxonomyKeys
<1> HIDE DEF v, e
<1> QED  BY <1>1, <1>2, <1>3, <1>4, <1>5 DEF RowsOf, ObjectTag

\* What a plan can be.
Plans == [current : SUBSET DOMAIN objectTags, saves : Saves]

LEMMA AppendedSave ==
    ASSUME NEW saves \in Saves, NEW k \in Nat, NEW row \in ObjectTag
    PROVE  /\ Append(saves, [key |-> k, row |-> row]) \in Saves
           /\ Len(Append(saves, [key |-> k, row |-> row])) = Len(saves) + 1
           /\ \A n \in 1 .. Len(saves) :
                 Append(saves, [key |-> k, row |-> row])[n] = saves[n]
           /\ Append(saves, [key |-> k, row |-> row])[Len(saves) + 1] = [key |-> k, row |-> row]
<1> DEFINE S == [key : Nat, row : ObjectTag]
           save == [key |-> k, row |-> row]
<1>1. saves \in Seq(S) /\ save \in S  BY DEF Saves
<1> HIDE DEF S, save
<1>2. /\ Append(saves, save) \in Seq(S) /\ Len(Append(saves, save)) = Len(saves) + 1
      /\ \A n \in 1 .. Len(saves) : Append(saves, save)[n] = saves[n]
      /\ Append(saves, save)[Len(saves) + 1] = save
  BY <1>1
<1> QED  BY <1>2 DEF Saves, S, save

\* One round of the loop over the values.
LEMMA PlannedValue ==
    ASSUME TagsOK, taxonomy \in Taxonomy, objectTags \in Tables(tags, taxonomy),
           NEW o \in Objects, NEW plan \in Plans, NEW value \in Values
    PROVE  TagStep(o, plan, value) \in Plans
<1> DEFINE same == {t \in DOMAIN tags : tags[t].value = value}
           key == IF FreeText \/ same = {} THEN 0 ELSE CHOOSE t \in same : TRUE
           applied == {k \in plan.current : IF FreeText THEN ValueOf(objectTags[k]) = value
                                                        ELSE objectTags[k].tag = key /\ key # 0}
           k == CHOOSE j \in applied : TRUE
           new == NewObjectTag(o, key, value, FALSE)
           renamed == [objectTags[k] EXCEPT !._value = value]
           added == Append(plan.saves, [key |-> 0, row |-> new])
           changed == Append(plan.saves, [key |-> k, row |-> renamed])
<1>1. plan.current \subseteq DOMAIN objectTags /\ plan.saves \in Saves
      /\ plan = [current |-> plan.current, saves |-> plan.saves]
  BY DEF Plans
<1>2. key \in DOMAIN tags \cup {0}
  OBVIOUS
<1>3. DOMAIN objectTags \in KeySets /\ objectTags \in [DOMAIN objectTags -> RowsOf(tags, taxonomy)]
  BY TableType
<1>4. \/ TagStep(o, plan, value) = [plan EXCEPT !.saves = added]
      \/ /\ applied # {}
         /\ TagStep(o, plan, value) = [current |-> plan.current \ {k}, saves |-> plan.saves]
      \/ /\ applied # {}
         /\ TagStep(o, plan, value) = [current |-> plan.current \ {k}, saves |-> changed]
  BY Zenon DEF TagStep
<1>5. applied # {} => k \in plan.current
  OBVIOUS
<1> HIDE DEF applied, k, key
<1>6. added \in Saves
  <2>1. new \in ObjectTag  BY <1>2, NewRow DEF RowsOf
  <2> HIDE DEF new
  <2> QED  BY <1>1, <2>1, AppendedSave
<1>7. applied # {} => changed \in Saves
  <2>1. SUFFICES ASSUME applied # {} PROVE changed \in Saves  OBVIOUS
  <2>2. k \in Nat /\ objectTags[k] \in ObjectTag
    BY <1>1, <1>3, <1>5, <2>1 DEF KeySets, RowsOf
  <2>3. renamed \in ObjectTag
    <3> DEFINE row == objectTags[k]
    <3>1. row \in ObjectTag  BY <2>2
    <3> HIDE DEF row
    <3>2. [row EXCEPT !._value = value] \in ObjectTag  BY <3>1 DEF ObjectTag
    <3> QED  BY <3>2 DEF row
  <2> HIDE DEF renamed
  <2> QED  BY <1>1, <2>2, <2>3, AppendedSave
<1> HIDE DEF added, changed
<1>8. CASE TagStep(o, plan, value) = [plan EXCEPT !.saves = added]
  <2>1. TagStep(o, plan, value) = [current |-> plan.current, saves |-> added]
    BY <1>1, <1>8
  <2> QED  BY <1>1, <1>6, <2>1 DEF Plans
<1>9. CASE /\ applied # {}
           /\ TagStep(o, plan, value) = [current |-> plan.current \ {k}, saves |-> plan.saves]
  BY <1>1, <1>9 DEF Plans
<1>10. CASE /\ applied # {}
            /\ TagStep(o, plan, value) = [current |-> plan.current \ {k}, saves |-> changed]
  BY <1>1, <1>7, <1>10 DEF Plans
<1> QED  BY <1>4, <1>8, <1>9, <1>10

\* The loop over the values, round by round.
PlanRounds(o, values, start, g) ==
    /\ g \in [0 .. LastOf(DOMAIN values) -> Plans]
    /\ g[0] = start
    /\ \A k \in 1 .. LastOf(DOMAIN values) :
          g[k] = IF k \in DOMAIN values THEN TagStep(o, g[k - 1], values[k]) ELSE g[k - 1]

LEMMA PlanRuns ==
    ASSUME TagsOK, taxonomy \in Taxonomy, objectTags \in Tables(tags, taxonomy),
           NEW o \in Objects, NEW start \in Plans, NEW values \in Seq(Values)
    PROVE  \E g : /\ PlanRounds(o, values, start, g)
                  /\ ForEach(DOMAIN values, LAMBDA plan, m : TagStep(o, plan, values[m]), start)
                       = g[LastOf(DOMAIN values)]
<1> DEFINE chosen == DOMAIN values
           n == LastOf(chosen)
           D == Plans
           F == [p \in D \X chosen |-> TagStep(o, p[1], values[p[2]])]
           IsRun(g) == g = [k \in 0 .. n |-> IF k = 0 THEN start
                                ELSE IF k \in chosen THEN TagStep(o, g[k - 1], values[k])
                                ELSE g[k - 1]]
           after == CHOOSE g : IsRun(g)
<1>1. ForEach(DOMAIN values, LAMBDA plan, m : TagStep(o, plan, values[m]), start)
        = after[n]
  BY DEF ForEach
<1>2. chosen \in KeySets /\ \A k \in chosen : values[k] \in Values
  <2>1. Len(values) \in Nat /\ chosen = 1 .. Len(values)
        /\ \A k \in 1 .. Len(values) : values[k] \in Values
    BY ListType
  <2>2. 1 .. Len(values) \in KeySets  BY <2>1, PositionsAreKeys
  <2> QED  BY <2>1, <2>2
<1> HIDE DEF chosen
<1>3. n \in Nat /\ \A k \in chosen : k \in 1 .. n  BY <1>2, LastKey
<1> HIDE DEF n
<1>4. start \in D  OBVIOUS
<1>5. F \in [D \X chosen -> D]
  <2>1. ASSUME NEW db \in D, NEW k \in chosen PROVE TagStep(o, db, values[k]) \in D
    BY <1>2, PlannedValue
  <2> HIDE DEF D
  <2> QED  BY <2>1
<1>6. \A db \in D, k \in chosen : F[<<db, k>>] = TagStep(o, db, values[k])
  <2> HIDE DEF D
  <2> QED  OBVIOUS
<1> HIDE DEF D, F
<1>7. PICK g \in [0 .. n -> D] : \A k \in 0 .. n : g[k] = Round(chosen, F, start, g, k)
  <2>1. n \in Nat  BY <1>3
  <2>2. HasRun(D, chosen, F, start, n)  BY <1>4, <1>5, <2>1, LoopRuns
  <2> QED  BY <2>2 DEF HasRun
<1>8. ASSUME NEW k \in 0 .. n
      PROVE  g[k] = IF k = 0 THEN start
                    ELSE IF k \in chosen THEN TagStep(o, g[k - 1], values[k]) ELSE g[k - 1]
  <2>1. k # 0 => g[k - 1] \in D  BY <1>3, <1>7
  <2> QED  BY <1>6, <1>7, <2>1 DEF Round
<1>9. IsRun(g)  BY <1>7, <1>8
<1>10. IsRun(after)
  <2> HIDE DEF IsRun
  <2> QED  BY <1>9
<1> HIDE DEF after
<1>11. /\ DOMAIN after = 0 .. n
       /\ \A k \in 0 .. n : after[k] = IF k = 0 THEN start
                    ELSE IF k \in chosen THEN TagStep(o, after[k - 1], values[k])
                    ELSE after[k - 1]
       /\ after = [k \in 0 .. n |-> after[k]]
  BY <1>10
<1>12. \A k \in 0 .. n : after[k] \in D
  <2> DEFINE S == {k \in 0 .. n : after[k] \in D}
  <2>1. 0 \in S
    <3>1. 0 \in 0 .. n  BY <1>3
    <3>2. after[0] = start  BY <1>11, <3>1
    <3> QED  BY <1>4, <3>1, <3>2
  <2>2. ASSUME NEW k \in 1 .. n, k - 1 \in S PROVE k \in S
    <3>1. k \in chosen => F[<<after[k - 1], k>>] \in D
      BY <1>5, <2>2
    <3>2. k \in chosen => TagStep(o, after[k - 1], values[k]) \in D
      BY <1>6, <2>2, <3>1
    <3>3. k \in 0 .. n /\ k # 0  BY <1>3
    <3> QED  BY <1>11, <2>2, <3>2, <3>3
  <2>3. 0 .. n \subseteq S
    <3> HIDE DEF S
    <3> QED  BY <1>3, <2>1, <2>2, RoundByRound
  <2> QED  BY <2>3
<1>13. PlanRounds(o, values, start, after)
  <2>1. after \in [0 .. n -> D]  BY <1>11, <1>12
  <2>2. \A k \in 1 .. n : k \in 0 .. n /\ k # 0  BY <1>3
  <2>3. 0 \in 0 .. n  BY <1>3
  <2> QED  BY <1>4, <1>11, <2>1, <2>2, <2>3 DEF PlanRounds, n, D, chosen
<1> QED  BY <1>1, <1>13 DEF n, chosen

LEMMA PlanOK ==
    ASSUME TagsOK, taxonomy \in Taxonomy, objectTags \in Tables(tags, taxonomy),
           NEW o \in Objects, NEW values \in Seq(Values)
    PROVE  Plan(o, values) \in Plans
<1> DEFINE start == [current |-> OfObject(o) \cap OfTaxonomy, saves |-> << >>]
<1>1. start \in Plans
  BY DEF Plans, Saves, OfObject
<1>2. Plan(o, values)
        = ForEach(DOMAIN values, LAMBDA plan, m : TagStep(o, plan, values[m]), start)
  BY DEF Plan, ForEach
<1> HIDE DEF start
<1>3. PICK g : /\ PlanRounds(o, values, start, g)
               /\ Plan(o, values) = g[LastOf(DOMAIN values)]
  BY <1>1, <1>2, PlanRuns
<1>4. LastOf(DOMAIN values) \in 0 .. LastOf(DOMAIN values)
  <2>1. DOMAIN values \in KeySets
    BY ListType, PositionsAreKeys
  <2>2. LastOf(DOMAIN values) \in Nat  BY <2>1, LastKey
  <2> QED  BY <2>2
<1> QED  BY <1>3, <1>4 DEF PlanRounds

-----------------------------------------------------------------------------
(* copy_tags                                                               *)

\* A row that is not removed is where it was.
LEMMA KeptRows ==
    ASSUME NEW trs, NEW tx, NEW rows \in Tables(trs, tx), NEW S \in SUBSET DOMAIN rows
    PROVE  /\ [k \in S |-> rows[k]] \in Tables(trs, tx)
           /\ DOMAIN [k \in S |-> rows[k]] = S
<1> DEFINE table == [k \in S |-> rows[k]]
<1>1. DOMAIN rows \in KeySets /\ rows \in [DOMAIN rows -> RowsOf(trs, tx)] /\ Unique(rows)
  BY TableType
<1>2. S \in KeySets  BY <1>1 DEF KeySets, Bounded
<1>3. table \in [S -> RowsOf(trs, tx)] /\ DOMAIN table = S  BY <1>1
<1>4. \A k \in S : table[k] = rows[k]  OBVIOUS
<1> HIDE DEF table
<1>5. Unique(table)  BY <1>1, <1>3, <1>4, UniqueLeft
<1>6. table \in Tables(trs, tx)  BY <1>2, <1>3, <1>5, TableType
<1> QED  BY <1>3, <1>6 DEF table

\* One round of the loop over the tags of the source.
LEMMA CopiedTag ==
    ASSUME TagsOK, CallOK, taxonomy \in Taxonomy \cup {NoTaxonomy}, NEW dst \in Objects,
           NEW db \in Databases(tags, taxonomy), NEW source \in RowsOf(tags, taxonomy),
           source.taxonomy # 0
    PROVE  CopyTag(dst, db, source) \in Databases(tags, taxonomy)
<1> DEFINE found == {k \in DOMAIN db.rows : /\ db.rows[k].object = dst
                                            /\ db.rows[k].taxonomy = source.taxonomy
                                            /\ db.rows[k].tag = source.tag}
           k == CHOOSE j \in found : TRUE
           new == NewObjectTag(dst, source.tag, EmptyValue, TRUE)
           copied == [db.rows[k] EXCEPT !.is_copied = TRUE]
<1>1. DOMAIN db.rows \in KeySets /\ db.rows \in [DOMAIN db.rows -> RowsOf(tags, taxonomy)]
      /\ db.rows \in Tables(tags, taxonomy)
      /\ db = [rows |-> db.rows, failed |-> db.failed]
  BY TableType DEF Databases
<1>2. \/ found = {} /\ CopyTag(dst, db, source) = SaveRow(db, FreeKey(db.rows), new)
      \/ found # {} /\ CopyTag(dst, db, source) = SaveRow(db, k, copied)
      \/ CopyTag(dst, db, source) = [db EXCEPT !.failed = TRUE]
  BY DEF CopyTag
<1>3. found # {} => k \in DOMAIN db.rows
  OBVIOUS
<1> HIDE DEF found, k
<1>4. CASE found = {} /\ CopyTag(dst, db, source) = SaveRow(db, FreeKey(db.rows), new)
  <2>1. FreeKey(db.rows) \in Nat \ {0}  BY <1>1, FreeKeyIsFree DEF CallOK
  <2>2. taxonomy \in Taxonomy /\ source.tag \in DOMAIN tags \cup {0}
    BY DEF RowsOf, TaxonomyKeys
  <2>3. new \in RowsOf(tags, taxonomy)
    BY <2>2, NewRow
  <2> HIDE DEF new
  <2> QED  BY <1>4, <2>1, <2>3, SavedRow
<1>5. CASE found # {} /\ CopyTag(dst, db, source) = SaveRow(db, k, copied)
  <2>1. k \in Nat \ {0} /\ db.rows[k] \in RowsOf(tags, taxonomy)
    BY <1>1, <1>3, <1>5 DEF KeySets
  <2>2. copied \in RowsOf(tags, taxonomy)
    <3> DEFINE row == db.rows[k]
    <3>1. row \in RowsOf(tags, taxonomy)  BY <2>1
    <3> HIDE DEF row
    <3>2. [row EXCEPT !.is_copied = TRUE] \in RowsOf(tags, taxonomy)
      BY <3>1 DEF RowsOf, ObjectTag
    <3> QED  BY <3>2 DEF row
  <2> HIDE DEF copied
  <2> QED  BY <1>5, <2>1, <2>2, SavedRow
<1>6. CASE CopyTag(dst, db, source) = [db EXCEPT !.failed = TRUE]
  <2>1. CopyTag(dst, db, source) = [rows |-> db.rows, failed |-> TRUE]
    BY <1>1, <1>6
  <2> QED  BY <1>1, <2>1 DEF Databases
<1> QED  BY <1>2, <1>4, <1>5, <1>6

\* The loop over the tags of the source, round by round.
CopyRounds(dst, chosen, start, kept, g) ==
    /\ g \in [0 .. LastOf(chosen) -> Databases(tags, taxonomy)]
    /\ g[0] = start
    /\ \A k \in 1 .. LastOf(chosen) :
          g[k] = IF k \in chosen THEN CopyTag(dst, g[k - 1], kept[k]) ELSE g[k - 1]

LEMMA CopyRuns ==
    ASSUME TagsOK, CallOK, taxonomy \in Taxonomy \cup {NoTaxonomy}, NEW dst \in Objects,
           NEW start \in Databases(tags, taxonomy), NEW kept \in Tables(tags, taxonomy),
           NEW keys \in SUBSET DOMAIN kept, \A k \in keys : kept[k].taxonomy # 0
    PROVE  \E g : /\ CopyRounds(dst, keys, start, kept, g)
                  /\ ForEach(keys, LAMBDA d, m : CopyTag(dst, d, kept[m]), start)
                       = g[LastOf(keys)]
<1> DEFINE chosen == keys
           n == LastOf(chosen)
           D == Databases(tags, taxonomy)
           F == [p \in D \X chosen |-> CopyTag(dst, p[1], kept[p[2]])]
           IsRun(g) == g = [k \in 0 .. n |-> IF k = 0 THEN start
                                ELSE IF k \in chosen THEN CopyTag(dst, g[k - 1], kept[k])
                                ELSE g[k - 1]]
           after == CHOOSE g : IsRun(g)
<1>1. ForEach(keys, LAMBDA d, m : CopyTag(dst, d, kept[m]), start)
        = after[n]
  BY DEF ForEach
<1>2. chosen \in KeySets /\ \A k \in chosen : kept[k] \in RowsOf(tags, taxonomy)
                                               /\ kept[k].taxonomy # 0
  <2>1. DOMAIN kept \in KeySets /\ kept \in [DOMAIN kept -> RowsOf(tags, taxonomy)]
    BY TableType
  <2> QED  BY <2>1 DEF KeySets, Bounded
<1> HIDE DEF chosen
<1>3. n \in Nat /\ \A k \in chosen : k \in 1 .. n  BY <1>2, LastKey
<1> HIDE DEF n
<1>4. start \in D  OBVIOUS
<1>5. F \in [D \X chosen -> D]
  <2>1. ASSUME NEW db \in D, NEW k \in chosen PROVE CopyTag(dst, db, kept[k]) \in D
    BY <1>2, CopiedTag
  <2> HIDE DEF D
  <2> QED  BY <2>1
<1>6. \A db \in D, k \in chosen : F[<<db, k>>] = CopyTag(dst, db, kept[k])
  <2> HIDE DEF D
  <2> QED  OBVIOUS
<1> HIDE DEF D, F
<1>7. PICK g \in [0 .. n -> D] : \A k \in 0 .. n : g[k] = Round(chosen, F, start, g, k)
  <2>1. n \in Nat  BY <1>3
  <2>2. HasRun(D, chosen, F, start, n)  BY <1>4, <1>5, <2>1, LoopRuns
  <2> QED  BY <2>2 DEF HasRun
<1>8. ASSUME NEW k \in 0 .. n
      PROVE  g[k] = IF k = 0 THEN start
                    ELSE IF k \in chosen THEN CopyTag(dst, g[k - 1], kept[k]) ELSE g[k - 1]
  <2>1. k # 0 => g[k - 1] \in D  BY <1>3, <1>7
  <2> QED  BY <1>6, <1>7, <2>1 DEF Round
<1>9. IsRun(g)  BY <1>7, <1>8
<1>10. IsRun(after)
  <2> HIDE DEF IsRun
  <2> QED  BY <1>9
<1> HIDE DEF after
<1>11. /\ DOMAIN after = 0 .. n
       /\ \A k \in 0 .. n : after[k] = IF k = 0 THEN start
                    ELSE IF k \in chosen THEN CopyTag(dst, after[k - 1], kept[k])
                    ELSE after[k - 1]
       /\ after = [k \in 0 .. n |-> after[k]]
  BY <1>10
<1>12. \A k \in 0 .. n : after[k] \in D
  <2> DEFINE S == {k \in 0 .. n : after[k] \in D}
  <2>1. 0 \in S
    <3>1. 0 \in 0 .. n  BY <1>3
    <3>2. after[0] = start  BY <1>11, <3>1
    <3> QED  BY <1>4, <3>1, <3>2
  <2>2. ASSUME NEW k \in 1 .. n, k - 1 \in S PROVE k \in S
    <3>1. k \in chosen => F[<<after[k - 1], k>>] \in D
      BY <1>5, <2>2
    <3>2. k \in chosen => CopyTag(dst, after[k - 1], kept[k]) \in D
      BY <1>6, <2>2, <3>1
    <3>3. k \in 0 .. n /\ k # 0  BY <1>3
    <3> QED  BY <1>11, <2>2, <3>2, <3>3
  <2>3. 0 .. n \subseteq S
    <3> HIDE DEF S
    <3> QED  BY <1>3, <2>1, <2>2, RoundByRound
  <2> QED  BY <2>3
<1>13. CopyRounds(dst, chosen, start, kept, after)
  <2>1. after \in [0 .. n -> D]  BY <1>11, <1>12
  <2>2. \A k \in 1 .. n : k \in 0 .. n /\ k # 0  BY <1>3
  <2>3. 0 \in 0 .. n  BY <1>3
  <2> QED  BY <1>4, <1>11, <2>1, <2>2, <2>3 DEF CopyRounds, n, D, chosen
<1> QED  BY <1>1, <1>13 DEF n, chosen

-----------------------------------------------------------------------------
(* The tags, added to, renamed and deleted                                 *)

\* The rows with a new tag.
WithTag(rows, last, v, parent) == Saved(rows, last, NewTag(rows, v, parent, NoExternalId))

LEMMA AddedTagOK ==
    ASSUME NEW rows, NEW last, TreeOK(rows, last), NEW v \in Values,
           NEW parent \in DOMAIN rows \cup {NoTag}, \A t \in DOMAIN rows : rows[t].value # v
    PROVE  /\ TreeOK(WithTag(rows, last, v, parent), last + 1)
           /\ DOMAIN WithTag(rows, last, v, parent) = DOMAIN rows \cup {last + 1}
           /\ last + 1 \notin DOMAIN rows
           /\ \A t \in DOMAIN rows : /\ t \in DOMAIN WithTag(rows, last, v, parent)
                                     /\ WithTag(rows, last, v, parent)[t] = rows[t]
           /\ WithTag(rows, last, v, parent)[last + 1].value = v
<1> DEFINE i == NewTag(rows, v, parent, NoExternalId)
           new == SavedTag(rows, i)
           key == last + 1
           after == Saved(rows, last, i)
<1>1. GoodTree(rows) /\ KeysTyped(rows) /\ last \in Nat /\ DOMAIN rows \subseteq 1 .. last
  BY DEF TreeOK
<1>2. /\ i.value = v /\ i.pk = NoTag /\ i.parent = parent
      /\ i.cached = CachedTag(rows, parent) /\ i.external_id = NoExternalId
  BY DEF NewTag
<1> HIDE DEF i
<1>3. /\ new.value = i.value /\ new.parent = i.parent
      /\ new = [value |-> new.value, external_id |-> new.external_id,
                parent |-> new.parent, depth |-> new.depth, lineage |-> new.lineage]
      /\ new.depth = ParentValues(rows, i).depth + 1
      /\ new.lineage = Append(ParentValues(rows, i).lineage, i.value)
  BY DEF SavedTag
<1>4. key \notin DOMAIN rows /\ key # NoTag
  BY <1>1 DEF NoTag
<1>5. after = Put(rows, key, new)
  BY <1>2, <1>4 DEF Saved, SavedKey, Put
<1> HIDE DEF new
<1>6. SavedBelow(rows, new, parent)
  <2>1. /\ ParentValues(rows, i).depth = DepthAt(rows, i.parent)
        /\ ParentValues(rows, i).lineage = LineageAt(rows, i.parent)
    BY <1>2, CachedParent
  <2>2. Below(rows, new)  BY <1>2, <1>3, <2>1 DEF Below
  <2> QED  BY <1>2, <1>3, <2>2 DEF SavedBelow
<1>7. \A t \in DOMAIN rows : rows[t].value # new.value  BY <1>2, <1>3
<1>8. KeysTyped(after)
  <2>1. IsFiniteSet(DOMAIN rows)  BY <1>1, FinitelyMany
  <2>2. i.value \in Values /\ i.parent \in Nat /\ i.external_id \in ExternalIds \cup {NoExternalId}
    BY <1>1, <1>2 DEF NoTag
  <2> HIDE DEF after
  <2>3. KeysTyped(Saved(rows, last, i))  BY <1>1, <2>1, <2>2, SavedKeysTyped
  <2> QED  BY <2>3 DEF after
<1>9. key \in Nat /\ DOMAIN rows \cup {key} \subseteq 1 .. key
  BY <1>1
<1> HIDE DEF key, after
<1>10. GoodTree(after)
  BY <1>1, <1>4, <1>5, <1>6, <1>7, AddedTagGood
<1>11. /\ DOMAIN after = DOMAIN rows \cup {key}
       /\ \A t \in DOMAIN rows : after[t] = rows[t]
       /\ after[key] = new
  BY <1>4, <1>5 DEF Put
<1>12. TreeOK(after, key)
  BY <1>8, <1>9, <1>10, <1>11 DEF TreeOK
<1> QED  BY <1>2, <1>3, <1>4, <1>11, <1>12 DEF i, key, after, WithTag

LEMMA RenamedTagOK ==
    ASSUME NEW rows, NEW last, TreeOK(rows, last), NEW v \in Values, NEW t \in DOMAIN rows,
           \A u \in DOMAIN rows \ {t} : rows[u].value # v
    PROVE  /\ TreeOK(Saved(rows, last, RenamedTag(rows, t, v)), last)
           /\ DOMAIN Saved(rows, last, RenamedTag(rows, t, v)) = DOMAIN rows
<1> DEFINE i == RenamedTag(rows, t, v)
           p == rows[t].parent
           new == SavedTag(rows, i)
           after == Saved(rows, last, i)
<1>1. GoodTree(rows) /\ KeysTyped(rows) /\ last \in Nat /\ DOMAIN rows \subseteq 1 .. last
  BY DEF TreeOK
<1>2. /\ i.value = v /\ i.pk = t /\ i.parent = p
      /\ i.cached = NotCached /\ i.external_id = rows[t].external_id
  BY DEF RenamedTag
<1> HIDE DEF i
<1>3. /\ new.value = i.value /\ new.parent = i.parent
      /\ new = [value |-> new.value, external_id |-> new.external_id,
                parent |-> new.parent, depth |-> new.depth, lineage |-> new.lineage]
      /\ new.depth = ParentValues(rows, i).depth + 1
      /\ new.lineage = Append(ParentValues(rows, i).lineage, i.value)
  BY DEF SavedTag
<1>4. t # NoTag
  BY <1>1 DEF NoTag
<1>5. after = Cascade(Put(rows, t, new), t, rows[t], new)
  BY <1>2, <1>4 DEF Saved, SavedKey, Put
<1> HIDE DEF new
<1>6. RowOK(rows[t]) /\ Below(rows, rows[t])  BY <1>1 DEF GoodTree
<1>7. p \in DOMAIN rows \cup {NoTag}  BY <1>6 DEF Below
<1>8. p # NoTag => ~ IsPrefix(rows[t].lineage, rows[p].lineage)
  <2>1. SUFFICES ASSUME p # NoTag PROVE ~ (Len(rows[t].lineage) <= Len(rows[p].lineage))
    BY DEF IsPrefix
  <2>2. RowOK(rows[p])  BY <1>1, <1>7, <2>1 DEF GoodTree
  <2>3. rows[t].depth = rows[p].depth + 1  BY <1>6, <2>1 DEF Below, DepthAt
  <2> QED  BY <1>6, <2>2, <2>3 DEF RowOK
<1>9. p # t
  BY <1>1, <1>4, <1>8, OwnLineage
<1>10. SavedBelow(rows, new, p)
  <2>1. /\ ParentValues(rows, i).depth = DepthAt(rows, i.parent)
        /\ ParentValues(rows, i).lineage = LineageAt(rows, i.parent)
    BY <1>2, CachedParent
  <2>2. Below(rows, new)  BY <1>2, <1>3, <1>7, <2>1 DEF Below
  <2> QED  BY <1>2, <1>3, <2>2 DEF SavedBelow
<1>11. \A u \in DOMAIN rows \ {t} : rows[u].value # new.value  BY <1>2, <1>3
<1>12. KeysTyped(after)
  <2>1. IsFiniteSet(DOMAIN rows)  BY <1>1, FinitelyMany
  <2>2. i.value \in Values /\ i.parent \in Nat /\ i.external_id \in ExternalIds \cup {NoExternalId}
    BY <1>1, <1>2, <1>7 DEF NoTag, KeysTyped
  <2> HIDE DEF after
  <2>3. KeysTyped(Saved(rows, last, i))  BY <1>1, <2>1, <2>2, SavedKeysTyped
  <2> QED  BY <2>3 DEF after
<1> HIDE DEF p, after
<1>13. GoodTree(after)
  BY <1>1, <1>5, <1>8, <1>9, <1>10, <1>11, CascadeGood DEF p
<1>14. DOMAIN after = DOMAIN rows
  BY <1>5 DEF Cascade, Put
<1>15. TreeOK(after, last)
  BY <1>1, <1>12, <1>13, <1>14 DEF TreeOK
<1> QED  BY <1>14, <1>15 DEF i, after

LEMMA TagsLeftOK ==
    ASSUME NEW rows, NEW last, TreeOK(rows, last), NEW ts
    PROVE  /\ TreeOK(Without(rows, ts), last)
           /\ DOMAIN Without(rows, ts) = DOMAIN rows \ WithSubtagsIn(rows, ts)
<1>1. GoodTree(rows) /\ KeysTyped(rows) /\ last \in Nat /\ DOMAIN rows \subseteq 1 .. last
  BY DEF TreeOK
<1>2. GoodTree(Without(rows, ts))  BY <1>1, WithoutGood
<1>3. /\ DOMAIN Without(rows, ts) = DOMAIN rows \ WithSubtagsIn(rows, ts)
      /\ Without(rows, ts) = [t \in DOMAIN Without(rows, ts) |-> Without(rows, ts)[t]]
      /\ \A t \in DOMAIN Without(rows, ts) : Without(rows, ts)[t] = rows[t]
  BY DEF Without
<1>4. KeysTyped(Without(rows, ts))
  BY <1>1, <1>3 DEF KeysTyped
<1> QED  BY <1>1, <1>2, <1>3, <1>4 DEF TreeOK

-----------------------------------------------------------------------------
(* The inductive invariant                                                 *)

\* Tags in order, rows whose foreign keys lead to them, and a call that has
\* decided to save rows.  Tags are written by single steps, so that no request
\* holds one in memory.
ObjectTagsInv ==
    /\ TagsOK
    /\ instance = [r \in Requests |-> NoInstance]
    /\ taxonomy \in Taxonomy \cup {NoTaxonomy}
    /\ lastTaxonomy \in Nat
    /\ taxonomy = NoTaxonomy => DOMAIN tags = {}
    /\ objectTags \in Tables(tags, taxonomy)
    /\ CallOK

\* Rows stay in order when there are more tags, and the same taxonomy or the first.
LEMMA TablesGrow ==
    ASSUME NEW trs, NEW tx, NEW rows \in Tables(trs, tx), NEW trs2, NEW tx2,
           DOMAIN trs \subseteq DOMAIN trs2, TaxonomyKeys(tx) \subseteq TaxonomyKeys(tx2)
    PROVE  rows \in Tables(trs2, tx2)
<1>1. DOMAIN rows \in KeySets /\ rows \in [DOMAIN rows -> RowsOf(trs, tx)] /\ Unique(rows)
  BY TableType
<1>2. RowsOf(trs, tx) \subseteq RowsOf(trs2, tx2)
  BY DEF RowsOf
<1>3. rows \in [DOMAIN rows -> RowsOf(trs2, tx2)]
  BY <1>1, <1>2
<1> QED  BY <1>1, <1>3, TableType

\* Nor do foreign keys that are set to NULL lead to what is gone.
LEMMA NulledRows ==
    ASSUME NEW goneTags, NEW gone \in BOOLEAN, objectTags \in Tables(tags, taxonomy),
           NEW trs, DOMAIN trs \subseteq Nat, DOMAIN tags \ goneTags \subseteq DOMAIN trs,
           NEW tx, gone \/ TaxonomyKeys(taxonomy) \subseteq TaxonomyKeys(tx)
    PROVE  SetNull(goneTags, gone) \in Tables(trs, tx)
<1>1. /\ DOMAIN objectTags \in KeySets /\ Unique(objectTags)
      /\ objectTags \in [DOMAIN objectTags -> RowsOf(tags, taxonomy)]
  BY TableType
<1>2. ASSUME NEW k \in DOMAIN objectTags
      PROVE  /\ SetNull(goneTags, gone)[k] \in RowsOf(trs, tx)
             /\ SetNull(goneTags, gone)[k].object = objectTags[k].object
             /\ SetNull(goneTags, gone)[k]._value = objectTags[k]._value
             /\ SetNull(goneTags, gone)[k].tag \in {0, objectTags[k].tag}
             /\ SetNull(goneTags, gone)[k].taxonomy \in {0, objectTags[k].taxonomy}
  <2> DEFINE row == objectTags[k]
             tag == IF row.tag \in goneTags THEN 0 ELSE row.tag
             tax == IF gone THEN 0 ELSE row.taxonomy
  <2>1. SetNull(goneTags, gone)[k] = [row EXCEPT !.tag = tag, !.taxonomy = tax]
    BY Zenon DEF SetNull
  <2>2. row \in ObjectTag /\ row.tag \in DOMAIN tags \cup {0}
        /\ row.taxonomy \in TaxonomyKeys(taxonomy) \cup {0}
    BY <1>1 DEF RowsOf
  <2>3. /\ tag \in DOMAIN trs \cup {0} /\ tag \in Nat
        /\ tax \in TaxonomyKeys(tx) \cup {0} /\ tax \in Nat
        /\ tag \in {0, row.tag} /\ tax \in {0, row.taxonomy}
    <3>1. tag \in DOMAIN trs \cup {0} /\ tag \in Nat  BY <2>2
    <3>2. tax \in TaxonomyKeys(tx) \cup {0}  BY <2>2
    <3>3. tax \in Nat
      <4>1. row.taxonomy \in Nat  BY <2>2 DEF ObjectTag
      <4> QED  BY <4>1
    <3> QED  BY <3>1, <3>2, <3>3
  <2> HIDE DEF tag, tax
  <2> DEFINE nulled == [row EXCEPT !.tag = tag, !.taxonomy = tax]
  <2>4. /\ nulled \in RowsOf(trs, tx) /\ nulled.object = row.object
        /\ nulled._value = row._value /\ nulled.tag = tag /\ nulled.taxonomy = tax
    <3> HIDE DEF row
    <3>1. row \in ObjectTag  BY <2>2
    <3>2. /\ nulled.object = row.object /\ nulled._value = row._value
          /\ nulled.tag = tag /\ nulled.taxonomy = tax
      BY <3>1 DEF ObjectTag
    <3>3. nulled \in ObjectTag  BY <2>3, <3>1 DEF ObjectTag
    <3> HIDE DEF nulled
    <3> QED  BY <2>3, <3>2, <3>3 DEF RowsOf
  <2> HIDE DEF nulled
  <2>5. SetNull(goneTags, gone)[k] = nulled  BY <2>1 DEF nulled
  <2> QED  BY <2>3, <2>4, <2>5
<1>3. /\ SetNull(goneTags, gone) \in [DOMAIN objectTags -> RowsOf(trs, tx)]
      /\ DOMAIN SetNull(goneTags, gone) = DOMAIN objectTags
  <2> DEFINE table == SetNull(goneTags, gone)
  <2>1. DOMAIN table = DOMAIN objectTags /\ table = [k \in DOMAIN table |-> table[k]]
    BY Zenon DEF SetNull
  <2>2. \A k \in DOMAIN objectTags : table[k] \in RowsOf(trs, tx)  BY <1>2
  <2> HIDE DEF table
  <2>3. table \in [DOMAIN objectTags -> RowsOf(trs, tx)]  BY <2>1, <2>2
  <2> QED  BY <2>1, <2>3 DEF table
<1>4. Unique(SetNull(goneTags, gone))
  BY <1>1, <1>2, <1>3, UniqueLeft
<1> QED  BY <1>1, <1>3, <1>4, TableType

-----------------------------------------------------------------------------
(* Every step keeps it                                                     *)

LEMMA CreateTaxonomyInv ==
    ASSUME ObjectTagsInv, NEW user, NEW s \in Settings, CreateTaxonomy(user, s)
    PROVE  ObjectTagsInv'
<1>1. /\ taxonomy = NoTaxonomy /\ DOMAIN tags = {}
      /\ taxonomy' = [id |-> lastTaxonomy + 1, settings |-> s] /\ lastTaxonomy' = lastTaxonomy + 1
      /\ UNCHANGED <<tags, lastTag, instance, objectTags, call>>
  BY DEF CreateTaxonomy, ObjectTagsInv
<1>2. lastTaxonomy' \in Nat /\ taxonomy' \in Taxonomy
  BY <1>1 DEF ObjectTagsInv, Taxonomy
<1>3. objectTags \in Tables(tags', taxonomy')
  <2>1. TaxonomyKeys(taxonomy) \subseteq TaxonomyKeys(taxonomy')
    BY <1>1 DEF TaxonomyKeys
  <2>2. DOMAIN tags \subseteq DOMAIN tags'  BY <1>1
  <2> QED  BY <2>1, <2>2, TablesGrow DEF ObjectTagsInv
<1>4. CallOK' /\ TagsOK'
  BY <1>1 DEF ObjectTagsInv, CallOK, TagsOK
<1> QED  BY <1>1, <1>2, <1>3, <1>4, ObjectTagsAssumption DEF ObjectTagsInv

LEMMA ResyncedTable ==
    ASSUME NEW trs, NEW last, TreeOK(trs, last), NEW tx \in Taxonomy \cup {NoTaxonomy},
           NEW rows \in Tables(trs, tx), NEW keys \in SUBSET DOMAIN rows
    PROVE  ResyncObjectTags(tx, trs, rows, keys) \in Tables(trs, tx)
<1> DEFINE chosen == IF keys = {} THEN DOMAIN rows ELSE keys
<1>1. DOMAIN trs \subseteq Nat /\ \A t \in DOMAIN trs : trs[t].value \in Values
  BY DEF TreeOK, GoodTree, RowOK
<1>2. \E g : /\ ResyncRounds(tx, trs, rows, chosen, g)
             /\ ResyncObjectTags(tx, trs, rows, keys) = g[LastOf(chosen)].rows
  BY <1>1, ResyncRuns
<1>3. chosen \in KeySets
  <2>1. DOMAIN rows \in KeySets  BY TableType
  <2> QED  BY <2>1 DEF KeySets, Bounded
<1> HIDE DEF chosen
<1>4. PICK g : /\ ResyncRounds(tx, trs, rows, chosen, g)
               /\ ResyncObjectTags(tx, trs, rows, keys) = g[LastOf(chosen)].rows
  BY <1>2
<1>5. LastOf(chosen) \in 0 .. LastOf(chosen)
  <2>1. LastOf(chosen) \in Nat  BY <1>3, LastKey
  <2> QED  BY <2>1
<1>6. g[LastOf(chosen)] \in Databases(trs, tx)
  BY <1>4, <1>5 DEF ResyncRounds
<1> QED  BY <1>4, <1>6 DEF Databases

LEMMA ImportTaxonomyInv ==
    ASSUME ObjectTagsInv, NEW user, NEW s \in Settings, NEW value \in Values,
           ImportTaxonomy(user, s, value)
    PROVE  ObjectTagsInv'
<1>1. /\ taxonomy = NoTaxonomy /\ DOMAIN tags = {}
      /\ taxonomy' = [id |-> lastTaxonomy + 1, settings |-> s] /\ lastTaxonomy' = lastTaxonomy + 1
      /\ tags' = Saved(tags, lastTag, NewTag(tags, value, NoTag, NoExternalId))
      /\ lastTag' = lastTag + 1
      /\ objectTags' = ResyncObjectTags(taxonomy', tags', objectTags, {})
      /\ UNCHANGED <<instance, call>>
  BY DEF ImportTaxonomy, ObjectTagsInv
<1>2. lastTaxonomy' \in Nat /\ taxonomy' \in Taxonomy
  BY <1>1 DEF ObjectTagsInv, Taxonomy
<1>3. TreeOK(tags', lastTag')
  <2>1. tags' = WithTag(tags, lastTag, value, NoTag)  BY <1>1 DEF WithTag
  <2>2. TreeOK(tags, lastTag)  BY DEF ObjectTagsInv, TagsOK
  <2>3. NoTag \in DOMAIN tags \cup {NoTag} /\ \A t \in DOMAIN tags : tags[t].value # value
    BY <1>1
  <2>4. TreeOK(WithTag(tags, lastTag, value, NoTag), lastTag + 1)
    BY <2>2, <2>3, AddedTagOK
  <2> QED  BY <1>1, <2>1, <2>4
<1>4. objectTags \in Tables(tags', taxonomy')
  <2>1. TaxonomyKeys(taxonomy) \subseteq TaxonomyKeys(taxonomy')
    BY <1>1 DEF TaxonomyKeys
  <2>2. DOMAIN tags \subseteq DOMAIN tags'  BY <1>1
  <2> QED  BY <2>1, <2>2, TablesGrow DEF ObjectTagsInv
<1>5. objectTags' \in Tables(tags', taxonomy')
  BY <1>1, <1>2, <1>3, <1>4, ResyncedTable
<1>6. CallOK' /\ TagsOK'
  BY <1>1, <1>3 DEF ObjectTagsInv, CallOK, TagsOK
<1> QED  BY <1>1, <1>2, <1>5, <1>6, ObjectTagsAssumption DEF ObjectTagsInv

LEMMA UpdateTaxonomyInv ==
    ASSUME ObjectTagsInv, NEW user, NEW s \in Settings, UpdateTaxonomy(user, s)
    PROVE  ObjectTagsInv'
<1>1. /\ taxonomy # NoTaxonomy /\ taxonomy' = [taxonomy EXCEPT !.settings = s]
      /\ UNCHANGED <<tags, lastTag, instance, lastTaxonomy, objectTags, call>>
  BY DEF UpdateTaxonomy
<1>2. taxonomy \in Taxonomy  BY <1>1 DEF ObjectTagsInv
<1>3. taxonomy' \in Taxonomy /\ taxonomy'.id = taxonomy.id
  BY <1>1, <1>2 DEF Taxonomy
<1>4. objectTags \in Tables(tags', taxonomy')
  <2>1. TaxonomyKeys(taxonomy) \subseteq TaxonomyKeys(taxonomy')
    BY <1>1, <1>3, ObjectTagsAssumption DEF TaxonomyKeys
  <2>2. DOMAIN tags \subseteq DOMAIN tags'  BY <1>1
  <2> QED  BY <2>1, <2>2, TablesGrow DEF ObjectTagsInv
<1>5. CallOK' /\ TagsOK'
  BY <1>1 DEF ObjectTagsInv, CallOK, TagsOK
<1> QED  BY <1>1, <1>3, <1>4, <1>5, ObjectTagsAssumption DEF ObjectTagsInv

LEMMA DeleteTaxonomyInv ==
    ASSUME ObjectTagsInv, NEW user, DeleteTaxonomy(user)
    PROVE  ObjectTagsInv'
<1>1. /\ taxonomy' = NoTaxonomy /\ tags' = << >> /\ objectTags' = SetNull(DOMAIN tags, TRUE)
      /\ UNCHANGED <<lastTag, instance, lastTaxonomy, call>>
  BY DEF DeleteTaxonomy
<1>2. DOMAIN tags' = {}  BY <1>1
<1>3. TreeOK(tags', lastTag')
  <2>1. lastTag' \in Nat  BY <1>1 DEF ObjectTagsInv, TagsOK, TreeOK
  <2>2. tags' = [t \in DOMAIN tags' |-> tags'[t]]  BY <1>1
  <2> QED  BY <1>2, <2>1, <2>2 DEF TreeOK, GoodTree, KeysTyped
<1>4. objectTags' \in Tables(tags', taxonomy')
  <2>1. DOMAIN tags' \subseteq Nat /\ DOMAIN tags \ DOMAIN tags \subseteq DOMAIN tags'  BY <1>2
  <2> QED  BY <1>1, <2>1, NulledRows DEF ObjectTagsInv
<1>5. CallOK' /\ TagsOK'
  BY <1>1, <1>3 DEF ObjectTagsInv, CallOK, TagsOK
<1> QED  BY <1>1, <1>2, <1>4, <1>5 DEF ObjectTagsInv

LEMMA AddTagToTaxonomyInv ==
    ASSUME ObjectTagsInv, NEW user, NEW value \in Values, NEW parent \in DOMAIN tags \cup {NoTag},
           AddTagToTaxonomy(user, value, parent)
    PROVE  ObjectTagsInv'
<1> DEFINE i == NewTag(tags, value, parent, NoExternalId)
<1>1. /\ taxonomy # NoTaxonomy /\ CanSave(tags, i)
      /\ tags' = Saved(tags, lastTag, i) /\ lastTag' = lastTag + 1
      /\ objectTags' = ResyncObjectTags(taxonomy, tags', objectTags, OfTaxonomy)
      /\ UNCHANGED <<instance, taxonomy, lastTaxonomy, call>>
  BY DEF AddTagToTaxonomy, MayEditTags
<1>2. \A t \in DOMAIN tags : tags[t].value # value
  <2>1. i.pk = NoTag /\ i.value = value  BY DEF NewTag
  <2>2. NoTag \notin DOMAIN tags  BY DEF ObjectTagsInv, TagsOK, TreeOK, GoodTree
  <2> QED  BY <1>1, <2>1, <2>2 DEF CanSave
<1>3. TreeOK(tags', lastTag') /\ DOMAIN tags \subseteq DOMAIN tags'
  <2>1. TreeOK(tags, lastTag)  BY DEF ObjectTagsInv, TagsOK
  <2>2. tags' = WithTag(tags, lastTag, value, parent)  BY <1>1 DEF WithTag
  <2>3. TreeOK(WithTag(tags, lastTag, value, parent), lastTag + 1)
    BY <1>2, <2>1, AddedTagOK
  <2>4. \A t \in DOMAIN tags : t \in DOMAIN WithTag(tags, lastTag, value, parent)
    BY <1>2, <2>1, AddedTagOK
  <2> QED  BY <1>1, <2>2, <2>3, <2>4
<1>4. objectTags \in Tables(tags', taxonomy)
  BY <1>3, TablesGrow DEF ObjectTagsInv
<1>5. objectTags' \in Tables(tags', taxonomy)
  <2>1. OfTaxonomy \in SUBSET DOMAIN objectTags  BY DEF OfTaxonomy
  <2>2. taxonomy \in Taxonomy \cup {NoTaxonomy}  BY DEF ObjectTagsInv
  <2> QED  BY <1>1, <1>3, <1>4, <2>1, <2>2, ResyncedTable
<1>6. CallOK' /\ TagsOK'
  BY <1>1, <1>3 DEF ObjectTagsInv, CallOK, TagsOK
<1> QED  BY <1>1, <1>5, <1>6 DEF ObjectTagsInv

LEMMA UpdateTagInTaxonomyInv ==
    ASSUME ObjectTagsInv, NEW user, NEW t \in DOMAIN tags, NEW value \in Values,
           UpdateTagInTaxonomy(user, t, value)
    PROVE  ObjectTagsInv'
<1> DEFINE i == RenamedTag(tags, t, value)
<1>1. /\ taxonomy # NoTaxonomy /\ CanSave(tags, i)
      /\ tags' = Saved(tags, lastTag, i)
      /\ objectTags' = ResyncObjectTags(taxonomy, tags', objectTags, OfTaxonomy)
      /\ UNCHANGED <<lastTag, instance, taxonomy, lastTaxonomy, call>>
  BY DEF UpdateTagInTaxonomy, MayEditTags
<1>2. \A u \in DOMAIN tags \ {t} : tags[u].value # value
  <2>1. i.pk = t /\ i.value = value  BY DEF RenamedTag
  <2> QED  BY <1>1, <2>1 DEF CanSave
<1>3. TreeOK(tags', lastTag') /\ DOMAIN tags' = DOMAIN tags
  BY <1>1, <1>2, RenamedTagOK DEF ObjectTagsInv, TagsOK
<1>4. objectTags \in Tables(tags', taxonomy)
  BY <1>3, TablesGrow DEF ObjectTagsInv
<1>5. objectTags' \in Tables(tags', taxonomy)
  <2>1. OfTaxonomy \in SUBSET DOMAIN objectTags  BY DEF OfTaxonomy
  <2>2. taxonomy \in Taxonomy \cup {NoTaxonomy}  BY DEF ObjectTagsInv
  <2> QED  BY <1>1, <1>3, <1>4, <2>1, <2>2, ResyncedTable
<1>6. CallOK' /\ TagsOK'
  BY <1>1, <1>3 DEF ObjectTagsInv, CallOK, TagsOK
<1> QED  BY <1>1, <1>3, <1>5, <1>6 DEF ObjectTagsInv

LEMMA DeleteTagsFromTaxonomyInv ==
    ASSUME ObjectTagsInv, NEW user, NEW ts, NEW with_subtags,
           DeleteTagsFromTaxonomy(user, ts, with_subtags)
    PROVE  ObjectTagsInv'
<1>1. /\ taxonomy # NoTaxonomy
      /\ tags' = Without(tags, ts) /\ objectTags' = SetNull(WithSubtags(ts), FALSE)
      /\ UNCHANGED <<lastTag, instance, taxonomy, lastTaxonomy, call>>
  BY DEF DeleteTagsFromTaxonomy, MayEditTags
<1>2. TreeOK(tags', lastTag') /\ DOMAIN tags' = DOMAIN tags \ WithSubtags(ts)
  BY <1>1, TagsLeftOK DEF ObjectTagsInv, TagsOK, WithSubtags
<1>3. objectTags' \in Tables(tags', taxonomy)
  <2>1. DOMAIN tags' \subseteq Nat /\ DOMAIN tags \ WithSubtags(ts) \subseteq DOMAIN tags'
    BY <1>2 DEF TreeOK
  <2> QED  BY <1>1, <2>1, NulledRows DEF ObjectTagsInv
<1>4. CallOK' /\ TagsOK'
  BY <1>1, <1>2 DEF ObjectTagsInv, CallOK, TagsOK
<1> QED  BY <1>1, <1>3, <1>4 DEF ObjectTagsInv

LEMMA TagObjectInv ==
    ASSUME ObjectTagsInv, NEW user, NEW o \in Objects, NEW values \in TagLists,
           NEW create_invalid, TagObject(user, o, values, create_invalid)
    PROVE  ObjectTagsInv'
<1>1. /\ taxonomy # NoTaxonomy
      /\ call' = [object |-> o, values |-> values, read |-> OfObject(o) \cap OfTaxonomy,
                  plan |-> Plan(o, values)]
      /\ UNCHANGED <<tags, lastTag, instance, taxonomy, lastTaxonomy, objectTags>>
  BY DEF TagObject
<1>2. Plan(o, values) \in Plans
  <2>1. values \in Seq(Values)  BY ObjectTagsAssumption
  <2>2. TagsOK /\ taxonomy \in Taxonomy /\ objectTags \in Tables(tags, taxonomy)
    BY <1>1 DEF ObjectTagsInv
  <2> QED  BY <2>1, <2>2, PlanOK
<1>3. OfObject(o) \cap OfTaxonomy \in KeySets
  <2>1. DOMAIN objectTags \in KeySets  BY TableType DEF ObjectTagsInv
  <2>2. OfObject(o) \cap OfTaxonomy \subseteq DOMAIN objectTags  BY DEF OfObject
  <2> HIDE DEF OfObject
  <2> QED  BY <2>1, <2>2 DEF KeySets, Bounded
<1>4. CallOK'
  <2>1. /\ call'.object = o /\ call'.values = values /\ call'.plan = Plan(o, values)
        /\ call'.read = OfObject(o) \cap OfTaxonomy
    BY <1>1
  <2> QED  BY <1>2, <1>3, <2>1 DEF CallOK, Plans
<1>5. TagsOK'
  BY <1>1 DEF ObjectTagsInv, TagsOK
<1> QED  BY <1>1, <1>4, <1>5 DEF ObjectTagsInv

LEMMA TagObjectByExportIdInv ==
    ASSUME ObjectTagsInv, NEW o \in Objects, NEW values \in TagLists, NEW s \in Settings,
           TagObjectByExportId(o, values, s.export_id)
    PROVE  ObjectTagsInv'
<1> DEFINE current == {k \in OfObject(o) : objectTags[k].export_id = s.export_id}
           ExportRow(value) ==
              [object |-> o, taxonomy |-> 0, tag |-> 0, _value |-> value,
               export_id |-> s.export_id, is_copied |-> FALSE]
           saves == [n \in DOMAIN values |-> [key |-> 0, row |-> ExportRow(values[n])]]
<1>1. /\ call' = [object |-> o, values |-> values, read |-> current,
                  plan |-> [current |-> current, saves |-> saves]]
      /\ UNCHANGED <<tags, lastTag, instance, taxonomy, lastTaxonomy, objectTags>>
  BY DEF TagObjectByExportId
<1>2. saves \in Saves
  <2>1. values \in Seq(Values)  BY ObjectTagsAssumption
  <2>2. PICK n \in Nat : values \in [1 .. n -> Values] /\ DOMAIN values = 1 .. n  BY <2>1
  <2>3. ASSUME NEW value \in Values
        PROVE  [key |-> 0, row |-> ExportRow(value)] \in [key : Nat, row : ObjectTag]
    BY DEF ObjectTag
  <2> HIDE DEF ExportRow
  <2> DEFINE S == [key : Nat, row : ObjectTag]
  <2>4. saves \in [1 .. n -> S]  BY <2>2, <2>3
  <2> HIDE DEF saves, S
  <2>5. saves \in Seq(S)  BY <2>2, <2>4
  <2> QED  BY <2>5 DEF Saves, S
<1> HIDE DEF saves
<1>3. current \in KeySets
  <2>1. DOMAIN objectTags \in KeySets  BY TableType DEF ObjectTagsInv
  <2>2. current \subseteq DOMAIN objectTags  BY DEF OfObject
  <2> HIDE DEF current
  <2> QED  BY <2>1, <2>2 DEF KeySets, Bounded
<1> HIDE DEF current
<1>4. CallOK'
  <2>1. /\ call'.object = o /\ call'.values = values /\ call'.read = current
        /\ call'.plan.saves = saves
    BY <1>1
  <2> QED  BY <1>2, <1>3, <2>1 DEF CallOK
<1>5. TagsOK'
  BY <1>1 DEF ObjectTagsInv, TagsOK
<1> QED  BY <1>1, <1>4, <1>5 DEF ObjectTagsInv

LEMMA TagObjectWriteInv ==
    ASSUME ObjectTagsInv, TagObjectWrite
    PROVE  ObjectTagsInv'
<1> DEFINE kept == [k \in DOMAIN objectTags \ call.plan.current |-> objectTags[k]]
           saves == call.plan.saves
           db == ForEach(DOMAIN saves, LAMBDA d, n : CleanAndSave(d, saves[n]), Working(kept))
<1>1. /\ call # NoCall /\ call' = NoCall
      /\ objectTags' = IF db.failed THEN objectTags ELSE db.rows
      /\ UNCHANGED <<tags, lastTag, instance, taxonomy, lastTaxonomy>>
  BY DEF TagObjectWrite
<1>2. kept \in Tables(tags, taxonomy)
  BY KeptRows DEF ObjectTagsInv
<1> HIDE DEF kept
<1>3. saves \in Saves /\ CallOK /\ taxonomy \in Taxonomy \cup {NoTaxonomy}
  BY <1>1 DEF ObjectTagsInv, CallOK
<1>4. Working(kept) \in Databases(tags, taxonomy)  BY <1>2, WorkingDb
<1> DEFINE start == Working(kept)
<1>5. db \in Databases(tags, taxonomy)
  <2> HIDE DEF start
  <2>1. PICK g : /\ SaveRounds(start, saves, g)
                 /\ ForEach(DOMAIN saves, LAMBDA d, n : CleanAndSave(d, saves[n]), start)
                      = g[LastOf(DOMAIN saves)]
    BY <1>3, <1>4, SavesRun DEF start
  <2>2. LastOf(DOMAIN saves) \in 0 .. LastOf(DOMAIN saves)
    <3>1. saves \in Seq([key : Nat, row : ObjectTag])  BY <1>3 DEF Saves
    <3> HIDE DEF saves
    <3>2. DOMAIN saves \in KeySets  BY <3>1, ListType, PositionsAreKeys
    <3>3. LastOf(DOMAIN saves) \in Nat  BY <3>2, LastKey
    <3> QED  BY <3>3
  <2>3. g[LastOf(DOMAIN saves)] \in Databases(tags, taxonomy)
    BY <2>1, <2>2 DEF SaveRounds
  <2> QED  BY <2>1, <2>3 DEF start
<1> HIDE DEF db
<1>6. objectTags' \in Tables(tags, taxonomy)
  BY <1>1, <1>5 DEF ObjectTagsInv, Databases
<1>7. TagsOK' /\ CallOK'
  BY <1>1 DEF ObjectTagsInv, TagsOK, CallOK
<1> QED  BY <1>1, <1>6, <1>7 DEF ObjectTagsInv

LEMMA CopyTagsInv ==
    ASSUME ObjectTagsInv, NEW src \in Objects, NEW dst \in Objects, CopyTags(src, dst)
    PROVE  ObjectTagsInv'
<1> DEFINE S == {j \in DOMAIN objectTags :
                    objectTags[j].object = dst => ~ objectTags[j].is_copied}
           kept == [k \in S |-> objectTags[k]]
           keys == Shown(src) \cap DOMAIN kept
           db == ForEach(keys, LAMBDA d, k : CopyTag(dst, d, kept[k]), Working(kept))
<1>1. /\ objectTags' = db.rows
      /\ UNCHANGED <<tags, lastTag, instance, taxonomy, lastTaxonomy, call>>
  BY DEF CopyTags
<1>2. S \in SUBSET DOMAIN objectTags  OBVIOUS
<1>3. \A k \in S : kept[k] = objectTags[k]  OBVIOUS
<1> HIDE DEF S
<1>4. kept \in Tables(tags, taxonomy) /\ DOMAIN kept = S
  BY <1>2, KeptRows DEF ObjectTagsInv
<1> HIDE DEF kept
<1>5. keys \subseteq DOMAIN kept /\ \A k \in keys : kept[k].taxonomy # 0
  BY <1>2, <1>3, <1>4 DEF Shown, IsDeleted
<1> HIDE DEF keys
<1> DEFINE start == Working(kept)
<1>6. start \in Databases(tags, taxonomy)  BY <1>4, WorkingDb
<1> HIDE DEF start
<1>7. TagsOK /\ CallOK /\ taxonomy \in Taxonomy \cup {NoTaxonomy}  BY DEF ObjectTagsInv
<1>8. PICK g : /\ CopyRounds(dst, keys, start, kept, g)
               /\ ForEach(keys, LAMBDA d, m : CopyTag(dst, d, kept[m]), start) = g[LastOf(keys)]
  BY <1>4, <1>5, <1>6, <1>7, CopyRuns
<1>9. LastOf(keys) \in 0 .. LastOf(keys)
  <2>1. DOMAIN kept \in KeySets  BY <1>4, TableType
  <2>2. keys \in KeySets  BY <1>5, <2>1 DEF KeySets, Bounded
  <2>3. LastOf(keys) \in Nat  BY <2>2, LastKey
  <2> QED  BY <2>3
<1>10. g[LastOf(keys)] \in Databases(tags, taxonomy)
  BY <1>8, <1>9 DEF CopyRounds
<1>11. db \in Databases(tags, taxonomy)  BY <1>8, <1>10 DEF start
<1> HIDE DEF db
<1>12. objectTags' \in Tables(tags, taxonomy)
  BY <1>1, <1>11 DEF Databases
<1>13. TagsOK' /\ CallOK'
  BY <1>1 DEF ObjectTagsInv, TagsOK, CallOK
<1> QED  BY <1>1, <1>12, <1>13 DEF ObjectTagsInv

LEMMA UnmarkCopiedTagsInv ==
    ASSUME ObjectTagsInv, NEW o \in Objects, UnmarkCopiedTags(o)
    PROVE  ObjectTagsInv'
<1>1. /\ objectTags' = [k \in DOMAIN objectTags |->
                          IF k \in OfObject(o) THEN [objectTags[k] EXCEPT !.is_copied = FALSE]
                                               ELSE objectTags[k]]
      /\ UNCHANGED <<tags, lastTag, instance, taxonomy, lastTaxonomy, call>>
  BY DEF UnmarkCopiedTags
<1>2. /\ DOMAIN objectTags \in KeySets /\ Unique(objectTags)
      /\ objectTags \in [DOMAIN objectTags -> RowsOf(tags, taxonomy)]
  BY TableType DEF ObjectTagsInv
<1>3. ASSUME NEW row \in RowsOf(tags, taxonomy)
      PROVE  LET marked == [row EXCEPT !.is_copied = FALSE]
             IN  /\ marked \in RowsOf(tags, taxonomy) /\ marked.object = row.object
                 /\ marked._value = row._value /\ marked.tag = row.tag
                 /\ marked.taxonomy = row.taxonomy
  BY DEF RowsOf, ObjectTag
<1>4. objectTags' \in Tables(tags, taxonomy)
  <2>1. ASSUME NEW k \in DOMAIN objectTags
        PROVE  /\ objectTags'[k] \in RowsOf(tags, taxonomy)
               /\ objectTags'[k].object = objectTags[k].object
               /\ objectTags'[k]._value = objectTags[k]._value
               /\ objectTags'[k].tag = objectTags[k].tag
               /\ objectTags'[k].taxonomy = objectTags[k].taxonomy
    <3> DEFINE row == objectTags[k]
               marked == [row EXCEPT !.is_copied = FALSE]
    <3>1. objectTags'[k] = marked \/ objectTags'[k] = row  BY <1>1
    <3>2. row \in RowsOf(tags, taxonomy)  BY <1>2
    <3>3. /\ marked \in RowsOf(tags, taxonomy) /\ marked.object = row.object
          /\ marked._value = row._value /\ marked.tag = row.tag
          /\ marked.taxonomy = row.taxonomy
      <4> HIDE DEF row
      <4> QED  BY <1>3, <3>2
    <3> HIDE DEF marked
    <3> QED  BY <3>1, <3>2, <3>3
  <2>2. /\ objectTags' \in [DOMAIN objectTags -> RowsOf(tags, taxonomy)]
        /\ DOMAIN objectTags' = DOMAIN objectTags
    BY <1>1, <2>1
  <2>3. Unique(objectTags')  BY <1>2, <2>1, <2>2, UniqueLeft
  <2> QED  BY <1>2, <2>2, <2>3, TableType
<1>5. TagsOK' /\ CallOK'
  BY <1>1 DEF ObjectTagsInv, TagsOK, CallOK
<1> QED  BY <1>1, <1>4, <1>5 DEF ObjectTagsInv

LEMMA DeleteObjectTagsInv ==
    ASSUME ObjectTagsInv, NEW o \in Objects, DeleteObjectTags(o)
    PROVE  ObjectTagsInv'
<1>1. /\ objectTags' = [k \in DOMAIN objectTags \ OfObject(o) |-> objectTags[k]]
      /\ UNCHANGED <<tags, lastTag, instance, taxonomy, lastTaxonomy, call>>
  BY DEF DeleteObjectTags
<1>2. objectTags' \in Tables(tags, taxonomy)
  <2> DEFINE S == DOMAIN objectTags \ OfObject(o)
  <2>1. S \in SUBSET DOMAIN objectTags  OBVIOUS
  <2> HIDE DEF S
  <2>2. [k \in S |-> objectTags[k]] \in Tables(tags, taxonomy)
    BY <2>1, KeptRows DEF ObjectTagsInv
  <2> QED  BY <1>1, <2>2 DEF S
<1>3. TagsOK' /\ CallOK'
  BY <1>1 DEF ObjectTagsInv, TagsOK, CallOK
<1> QED  BY <1>1, <1>2, <1>3 DEF ObjectTagsInv

\* An empty database is in order.
LEMMA ObjectTagsStart ==
    ASSUME ObjectTagsInit
    PROVE  ObjectTagsInv
<1>1. /\ tags = << >> /\ lastTag = 0 /\ instance = [r \in Requests |-> NoInstance]
      /\ taxonomy = NoTaxonomy /\ lastTaxonomy = 0 /\ objectTags = << >> /\ call = NoCall
  BY DEF ObjectTagsInit, Init
<1>2. DOMAIN tags = {} /\ DOMAIN objectTags = {}  BY <1>1
<1>3. TagsOK
  <2>1. tags = [t \in DOMAIN tags |-> tags[t]]  BY <1>1
  <2> QED  BY <1>1, <1>2, <2>1 DEF TagsOK, TreeOK, GoodTree, KeysTyped
<1>4. objectTags \in Tables(tags, taxonomy)
  <2>1. objectTags \in [{} -> RowsOf(tags, taxonomy)]  BY <1>1, <1>2
  <2>2. {} \in KeySets  BY DEF KeySets, Bounded
  <2>3. Unique(objectTags)  BY <1>2 DEF Unique
  <2> QED  BY <1>2, <2>1, <2>2, <2>3, TableType
<1> QED  BY <1>1, <1>2, <1>3, <1>4 DEF ObjectTagsInv, CallOK

LEMMA ObjectTagsStep ==
    ASSUME ObjectTagsInv, [ObjectTagsNext]_vars
    PROVE  ObjectTagsInv'
<1>1. CASE UNCHANGED vars
  BY <1>1 DEF vars, ObjectTagsInv, TagsOK, CallOK
<1>2. CASE TagObjectWrite
  BY <1>2, TagObjectWriteInv
<1>3. CASE \E user \in Users, o \in Objects, values \in TagLists, create_invalid \in BOOLEAN :
              TagObject(user, o, values, create_invalid)
  BY <1>3, TagObjectInv
<1>4. ASSUME NEW user \in Users, NEW s \in Settings, CreateTaxonomy(user, s)
      PROVE  ObjectTagsInv'
  BY <1>4, CreateTaxonomyInv
<1>5. ASSUME NEW user \in Users, NEW s \in Settings, NEW value \in Values,
             ImportTaxonomy(user, s, value)
      PROVE  ObjectTagsInv'
  BY <1>5, ImportTaxonomyInv
<1>6. ASSUME NEW user \in Users, NEW s \in Settings, UpdateTaxonomy(user, s)
      PROVE  ObjectTagsInv'
  BY <1>6, UpdateTaxonomyInv
<1>7. ASSUME NEW user \in Users, DeleteTaxonomy(user) PROVE ObjectTagsInv'
  BY <1>7, DeleteTaxonomyInv
<1>8. ASSUME NEW user \in Users, NEW value \in Values, NEW parent \in DOMAIN tags \cup {NoTag},
             AddTagToTaxonomy(user, value, parent)
      PROVE  ObjectTagsInv'
  BY <1>8, AddTagToTaxonomyInv
<1>9. ASSUME NEW user \in Users, NEW t \in DOMAIN tags, NEW value \in Values,
             UpdateTagInTaxonomy(user, t, value)
      PROVE  ObjectTagsInv'
  BY <1>9, UpdateTagInTaxonomyInv
<1>10. ASSUME NEW user \in Users, NEW ts \in SUBSET DOMAIN tags, NEW with_subtags \in BOOLEAN,
              DeleteTagsFromTaxonomy(user, ts, with_subtags)
       PROVE  ObjectTagsInv'
  BY <1>10, DeleteTagsFromTaxonomyInv
<1>11. ASSUME NEW src \in Objects, NEW dst \in Objects, CopyTags(src, dst)
       PROVE  ObjectTagsInv'
  BY <1>11, CopyTagsInv
<1>12. ASSUME NEW o \in Objects, UnmarkCopiedTags(o) \/ DeleteObjectTags(o)
       PROVE  ObjectTagsInv'
  BY <1>12, UnmarkCopiedTagsInv, DeleteObjectTagsInv
<1>13. CASE \E o \in Objects, values \in TagLists, s \in Settings :
               TagObjectByExportId(o, values, s.export_id)
  BY <1>13, TagObjectByExportIdInv
<1>14. CASE OtherCalls
  BY <1>4, <1>5, <1>6, <1>7, <1>8, <1>9, <1>10, <1>11, <1>12, <1>14 DEF OtherCalls
<1> QED  BY <1>1, <1>2, <1>3, <1>13, <1>14 DEF ObjectTagsNext

LEMMA ObjectTagsInvariance == ObjectTagsSpec => []ObjectTagsInv
<1>1. ObjectTagsInit => ObjectTagsInv  BY ObjectTagsStart
<1>2. ObjectTagsInv /\ [ObjectTagsNext]_vars => ObjectTagsInv'  BY ObjectTagsStep
<1> QED  BY <1>1, <1>2, PTL DEF ObjectTagsSpec

-----------------------------------------------------------------------------
(* Counts                                                                  *)

\* Every part of a lineage up to a value is the lineage of the tag with that value.
LEMMA LineageParts ==
    ASSUME NEW rows, GoodTree(rows), NEW t \in DOMAIN rows, NEW k \in 1 .. Len(rows[t].lineage)
    PROVE  \E a \in DOMAIN rows : /\ IsPrefix(rows[a].lineage, rows[t].lineage)
                                  /\ Len(rows[a].lineage) = k
<1> DEFINE Part(x, j) == \E a \in DOMAIN rows : /\ IsPrefix(rows[a].lineage, rows[x].lineage)
                                                /\ Len(rows[a].lineage) = j
           bad == {x \in DOMAIN rows : \E j \in 1 .. Len(rows[x].lineage) : ~ Part(x, j)}
<1>1. bad = {}
  <2>1. SUFFICES ASSUME bad # {} PROVE FALSE
    OBVIOUS
  <2>2. bad \in SUBSET DOMAIN rows  OBVIOUS
  <2> HIDE DEF bad
  <2>3. PICK x \in bad : \A y \in bad : Len(rows[x].lineage) <= Len(rows[y].lineage)
    BY <2>1, <2>2, ShallowestTag
  <2>4. PICK j \in 1 .. Len(rows[x].lineage) : ~ Part(x, j)
    BY DEF bad
  <2>5. x \in DOMAIN rows  BY <2>2
  <2>6. j # Len(rows[x].lineage)
    BY <2>4, <2>5, OwnLineage
  <2> DEFINE p == rows[x].parent
             above == LineageAt(rows, p)
  <2>7. /\ p \in DOMAIN rows \cup {NoTag} /\ rows[x].value \in Values
        /\ rows[x].lineage = Append(above, rows[x].value)
    BY <2>5 DEF GoodTree, Below, RowOK
  <2>8. above \in Seq(Values)  BY <2>7, RowBelow
  <2> HIDE DEF above
  <2>9. Len(rows[x].lineage) = Len(above) + 1 /\ Len(above) \in Nat
    BY <2>7, <2>8, AppendProperties, LenProperties
  <2>10. j \in 1 .. Len(above)
    <3>1. j \in 1 .. Len(above) + 1  BY <2>9
    <3> QED  BY <2>6, <2>9, <3>1
  <2>11. p # NoTag
    BY <2>10 DEF above, LineageAt
  <2>12. above = rows[p].lineage /\ p \in DOMAIN rows
    BY <2>7, <2>11 DEF above, LineageAt
  <2>13. p \notin bad
    <3>1. Len(rows[p].lineage) < Len(rows[x].lineage)  BY <2>9, <2>12
    <3> QED  BY <2>3, <2>9, <2>12, <3>1
  <2>14. Part(p, j)
    BY <2>10, <2>12, <2>13 DEF bad
  <2>15. PICK a \in DOMAIN rows : IsPrefix(rows[a].lineage, above) /\ Len(rows[a].lineage) = j
    BY <2>12, <2>14
  <2>16. rows[a].lineage \in Seq(Values)  BY DEF GoodTree, RowOK
  <2>17. IsPrefix(rows[a].lineage, rows[x].lineage)
    BY <2>7, <2>8, <2>15, <2>16, PrefixOfAppend
  <2> QED  BY <2>4, <2>15, <2>17
<1>2. Part(t, k)  BY <1>1
<1> QED  BY <1>2

\* A lineage ends with the tag's own value.
LEMMA LastOfLineage ==
    ASSUME NEW rows, GoodTree(rows), NEW t \in DOMAIN rows
    PROVE  /\ Len(rows[t].lineage) \in Nat \ {0}
           /\ rows[t].lineage \in Seq(Values)
           /\ rows[t].lineage[Len(rows[t].lineage)] = rows[t].value
<1> DEFINE p == rows[t].parent
           above == LineageAt(rows, p)
<1>1. /\ p \in DOMAIN rows \cup {NoTag} /\ rows[t].value \in Values
      /\ rows[t].lineage = Append(above, rows[t].value) /\ rows[t].lineage \in Seq(Values)
  BY DEF GoodTree, Below, RowOK
<1>2. above \in Seq(Values)  BY <1>1, RowBelow
<1> HIDE DEF above
<1>3. /\ Len(rows[t].lineage) = Len(above) + 1 /\ Len(above) \in Nat
      /\ rows[t].lineage[Len(above) + 1] = rows[t].value
  BY <1>1, <1>2, AppendProperties, LenProperties
<1> QED  BY <1>1, <1>3

\* Lineages are the tags' own.
LEMMA LineagesDiffer ==
    ASSUME NEW rows, GoodTree(rows), NEW t \in DOMAIN rows, NEW u \in DOMAIN rows,
           rows[t].lineage = rows[u].lineage
    PROVE  t = u
<1>1. rows[t].value = rows[u].value  BY LastOfLineage
<1> QED  BY <1>1 DEF GoodTree

\* A value is in a lineage where the tag's own lineage ends.
LEMMA ValueInLineage ==
    ASSUME NEW rows, GoodTree(rows), NEW t \in DOMAIN rows, NEW u \in DOMAIN rows
    PROVE  /\ IsPrefix(rows[t].lineage, rows[u].lineage)
                <=> \E n \in DOMAIN rows[u].lineage : rows[u].lineage[n] = rows[t].value
<1> DEFINE s == rows[t].lineage
           l == rows[u].lineage
<1>1. /\ s \in Seq(Values) /\ Len(s) \in Nat \ {0} /\ s[Len(s)] = rows[t].value
      /\ l \in Seq(Values) /\ Len(l) \in Nat \ {0} /\ DOMAIN l = 1 .. Len(l)
  <2>1. s \in Seq(Values) /\ Len(s) \in Nat \ {0} /\ s[Len(s)] = rows[t].value
    BY LastOfLineage
  <2>2. l \in Seq(Values) /\ Len(l) \in Nat \ {0}  BY LastOfLineage
  <2> QED  BY <2>1, <2>2, LenProperties
<1>2. ASSUME IsPrefix(s, l) PROVE \E n \in DOMAIN l : l[n] = rows[t].value
  <2> HIDE DEF s, l
  <2>1. Len(s) <= Len(l) /\ \A k \in 1 .. Len(s) : s[k] = l[k]
    BY <1>1, <1>2, PrefixByPosition
  <2>2. Len(s) \in 1 .. Len(s) /\ Len(s) \in DOMAIN l  BY <1>1, <2>1
  <2> QED  BY <1>1, <2>1, <2>2
<1>3. ASSUME NEW n \in DOMAIN l, l[n] = rows[t].value PROVE IsPrefix(s, l)
  <2>1. PICK a \in DOMAIN rows : IsPrefix(rows[a].lineage, l) /\ Len(rows[a].lineage) = n
    BY <1>1, LineageParts
  <2> DEFINE m == rows[a].lineage
  <2>2. m \in Seq(Values) /\ Len(m) \in Nat \ {0} /\ m[Len(m)] = rows[a].value
    BY LastOfLineage
  <2>3. \A k \in 1 .. Len(m) : m[k] = l[k]
    <3> HIDE DEF m, l
    <3> QED  BY <1>1, <2>1, <2>2, PrefixByPosition DEF m
  <2>4. Len(m) \in 1 .. Len(m)  BY <2>2
  <2>5. rows[a].value = rows[t].value  BY <1>3, <2>1, <2>2, <2>3, <2>4
  <2>6. a = t  BY <2>5 DEF GoodTree
  <2> QED  BY <2>1, <2>6
<1> QED  BY <1>2, <1>3

\* The beginnings of a lineage.
LEMMA BeginningsAreLineages ==
    ASSUME NEW rows, GoodTree(rows), NEW u \in DOMAIN rows
    PROVE  /\ \A n \in DOMAIN rows[u].lineage :
                 \E t \in DOMAIN rows : /\ IsPrefix(rows[t].lineage, rows[u].lineage)
                                        /\ rows[t].lineage = SubSeq(rows[u].lineage, 1, n)
           /\ \A t \in DOMAIN rows : IsPrefix(rows[t].lineage, rows[u].lineage) =>
                 \E n \in DOMAIN rows[u].lineage :
                     rows[t].lineage = SubSeq(rows[u].lineage, 1, n)
<1> DEFINE l == rows[u].lineage
<1>1. l \in Seq(Values) /\ Len(l) \in Nat \ {0} /\ DOMAIN l = 1 .. Len(l)
  <2>1. l \in Seq(Values) /\ Len(l) \in Nat \ {0}  BY LastOfLineage
  <2> QED  BY <2>1, LenProperties
<1>2. ASSUME NEW t \in DOMAIN rows, IsPrefix(rows[t].lineage, l)
      PROVE  /\ Len(rows[t].lineage) \in DOMAIN l
             /\ rows[t].lineage = SubSeq(l, 1, Len(rows[t].lineage))
  <2> DEFINE s == rows[t].lineage
  <2>1. s \in Seq(Values) /\ Len(s) \in Nat \ {0}  BY LastOfLineage
  <2> HIDE DEF s, l
  <2>2. IsPrefix(s, l)  BY <1>2 DEF s, l
  <2>3. Len(s) <= Len(l) /\ \A k \in 1 .. Len(s) : s[k] = l[k]
    BY <1>1, <2>1, <2>2, PrefixByPosition
  <2>4. Len(s) \in DOMAIN l  BY <1>1, <2>1, <2>3
  <2>5. /\ SubSeq(l, 1, Len(s)) \in Seq(Values) /\ Len(SubSeq(l, 1, Len(s))) = Len(s)
        /\ \A k \in 1 .. Len(s) : SubSeq(l, 1, Len(s))[k] = l[k]
    <3>1. \A k \in 1 .. Len(s) : l[k] \in Values
      BY <1>1, <2>1, <2>3, ElementOfSeq
    <3> QED  BY <1>1, <2>1, <2>3, <3>1, SubSeqProperties
  <2>6. s = SubSeq(l, 1, Len(s))
    BY <2>1, <2>3, <2>5, SeqEqual
  <2> QED  BY <2>4, <2>6 DEF s
<1>3. ASSUME NEW n \in DOMAIN l
      PROVE  \E t \in DOMAIN rows : /\ IsPrefix(rows[t].lineage, l)
                                     /\ rows[t].lineage = SubSeq(l, 1, n)
  <2>1. PICK t \in DOMAIN rows : IsPrefix(rows[t].lineage, l) /\ Len(rows[t].lineage) = n
    BY <1>1, LineageParts
  <2> QED  BY <1>2, <2>1
<1> QED  BY <1>2, <1>3

\* Distinct beginnings of the lineages of some tags are as many as the tags they are
\* the lineages of.
Beginnings(rows, us) ==
    UNION {{SubSeq(rows[u].lineage, 1, n) : n \in DOMAIN rows[u].lineage} : u \in us}

LEMMA BeginningsCounted ==
    ASSUME NEW rows, GoodTree(rows), IsFiniteSet(DOMAIN rows), NEW us \in SUBSET DOMAIN rows
    PROVE  /\ Cardinality(Beginnings(rows, us)) \in Nat
           /\ Cardinality(Beginnings(rows, us))
                = Cardinality({t \in DOMAIN rows : \E u \in us : u \in WithSubtagsIn(rows, {t})})
<1> DEFINE T == {t \in DOMAIN rows : \E u \in us : u \in WithSubtagsIn(rows, {t})}
           P == Beginnings(rows, us)
           f == [t \in T |-> rows[t].lineage]
<1>1. \A t \in DOMAIN rows, u \in us :
         u \in WithSubtagsIn(rows, {t}) <=> IsPrefix(rows[t].lineage, rows[u].lineage)
  <2>1. SUFFICES ASSUME NEW t \in DOMAIN rows, NEW u \in us
                 PROVE  u \in WithSubtagsIn(rows, {t})
                          <=> IsPrefix(rows[t].lineage, rows[u].lineage)
    OBVIOUS
  <2> DEFINE ts == {t}
  <2>2. ts \in SUBSET DOMAIN rows /\ u \in DOMAIN rows  OBVIOUS
  <2>3. \A x : x \in ts <=> x = t  OBVIOUS
  <2> HIDE DEF ts
  <2>4. u \in WithSubtagsIn(rows, ts) <=> \E x \in ts : IsPrefix(rows[x].lineage, rows[u].lineage)
    BY <2>2, SubtagsByLineage
  <2> QED  BY <2>3, <2>4 DEF ts
<1>2. T \in SUBSET DOMAIN rows  OBVIOUS
<1>3. \A t \in T : rows[t].lineage \in P
  <2>1. SUFFICES ASSUME NEW t \in T PROVE rows[t].lineage \in P  OBVIOUS
  <2>2. PICK u \in us : IsPrefix(rows[t].lineage, rows[u].lineage)  BY <1>1
  <2>3. PICK n \in DOMAIN rows[u].lineage : rows[t].lineage = SubSeq(rows[u].lineage, 1, n)
    BY <2>2, BeginningsAreLineages
  <2> DEFINE own == {SubSeq(rows[u].lineage, 1, m) : m \in DOMAIN rows[u].lineage}
  <2>4. rows[t].lineage \in own  BY <2>3
  <2>5. own \in {{SubSeq(rows[x].lineage, 1, m) : m \in DOMAIN rows[x].lineage} : x \in us}
    OBVIOUS
  <2> HIDE DEF own, T
  <2> QED  BY <2>4, <2>5 DEF Beginnings
<1>4. \A p \in P : \E t \in T : rows[t].lineage = p
  <2>1. SUFFICES ASSUME NEW p \in P PROVE \E t \in T : rows[t].lineage = p  OBVIOUS
  <2>2. PICK u \in us : \E n \in DOMAIN rows[u].lineage : p = SubSeq(rows[u].lineage, 1, n)
    BY DEF Beginnings
  <2>3. PICK n \in DOMAIN rows[u].lineage : p = SubSeq(rows[u].lineage, 1, n)
    BY <2>2
  <2>4. PICK t \in DOMAIN rows : /\ IsPrefix(rows[t].lineage, rows[u].lineage)
                                 /\ rows[t].lineage = SubSeq(rows[u].lineage, 1, n)
    BY BeginningsAreLineages
  <2>5. t \in T  BY <1>1, <2>4
  <2> QED  BY <2>3, <2>4, <2>5
<1> HIDE DEF P
<1>5. f \in Bijection(T, P)
  <2>1. f \in [T -> P]  BY <1>3
  <2>2. ASSUME NEW x \in T, NEW y \in T, f[x] = f[y] PROVE x = y
    <3>1. rows[x].lineage = rows[y].lineage /\ x \in DOMAIN rows /\ y \in DOMAIN rows
      BY <1>2, <2>2
    <3> QED  BY <3>1, LineagesDiffer
  <2>3. \A p \in P : \E t \in T : f[t] = p  BY <1>4
  <2> HIDE DEF f, T
  <2> QED  BY <2>1, <2>2, <2>3 DEF Bijection, Injection, Surjection, IsInjective
<1> HIDE DEF T, f
<1>6. IsFiniteSet(T)  BY <1>2, FS_Subset
<1>7. ExistsBijection(T, P)  BY <1>5 DEF ExistsBijection
<1>8. Cardinality(P) = Cardinality(T)  BY <1>6, <1>7, FS_Bijection
<1>9. Cardinality(T) \in Nat  BY <1>6, FS_CardinalityType
<1> QED  BY <1>8, <1>9 DEF P, T

\* Both counts from the invariant.
LEMMA CountsFromInv ==
    ASSUME ObjectTagsInv
    PROVE  CountsFollowTheTree
<1>1. /\ GoodTree(tags) /\ KeysTyped(tags) /\ lastTag \in Nat /\ DOMAIN tags \subseteq 1 .. lastTag
      /\ IsFiniteSet(DOMAIN tags)
  <2>1. GoodTree(tags) /\ KeysTyped(tags) /\ lastTag \in Nat /\ DOMAIN tags \subseteq 1 .. lastTag
    BY DEF ObjectTagsInv, TagsOK, TreeOK
  <2> QED  BY <2>1, FinitelyMany
<1>2. DOMAIN objectTags \in KeySets /\ objectTags \in [DOMAIN objectTags -> RowsOf(tags, taxonomy)]
  BY TableType DEF ObjectTagsInv
<1>3. ASSUME NEW k \in DOMAIN objectTags
      PROVE  /\ objectTags[k] \in ObjectTag
             /\ objectTags[k].tag \in DOMAIN tags \cup {0}
             /\ objectTags[k].taxonomy = 0 \/ objectTags[k].taxonomy = taxonomy.id
             /\ 0 \notin DOMAIN tags
  <2>1. objectTags[k] \in RowsOf(tags, taxonomy)  BY <1>2
  <2>2. 0 \notin DOMAIN tags  BY <1>1 DEF GoodTree, NoTag
  <2> QED  BY <2>1, <2>2 DEF RowsOf, TaxonomyKeys
<1>4. ObjectTagsTypeOK
  <2>1. TypeOK
    <3>1. tags \in [DOMAIN tags -> Tag]  BY <1>1, RowsTyped
    <3>2. instance \in [Requests -> Instances \cup {NoInstance}]  BY DEF ObjectTagsInv
    <3> QED  BY <1>1, <3>1, <3>2 DEF TypeOK
  <2>2. DOMAIN objectTags \subseteq Nat \ {0}  BY <1>2 DEF KeySets
  <2> QED  BY <1>3, <2>1, <2>2 DEF ObjectTagsTypeOK, ObjectTagsInv
<1>5. ASSUME NEW t \in DOMAIN tags, NEW k \in DOMAIN objectTags
      PROVE  objectTags[k].tag \in WithSubtags({t})
               <=> /\ objectTags[k].tag # 0
                   /\ \E n \in DOMAIN tags[objectTags[k].tag].lineage :
                         tags[objectTags[k].tag].lineage[n] = tags[t].value
  <2> DEFINE u == objectTags[k].tag
             ts == {t}
  <2>1. u \in DOMAIN tags \cup {0} /\ 0 \notin DOMAIN tags  BY <1>3
  <2> HIDE DEF u
  <2>2. u \in WithSubtags(ts) => u \in DOMAIN tags
    BY DEF WithSubtags, WithSubtagsIn
  <2>3. ASSUME u \in DOMAIN tags
        PROVE  u \in WithSubtags(ts)
                 <=> \E n \in DOMAIN tags[u].lineage : tags[u].lineage[n] = tags[t].value
    <3>1. ts \in SUBSET DOMAIN tags /\ \A x : x \in ts <=> x = t  OBVIOUS
    <3> HIDE DEF ts
    <3>2. u \in WithSubtagsIn(tags, ts)
            <=> \E x \in ts : IsPrefix(tags[x].lineage, tags[u].lineage)
      BY <1>1, <2>3, <3>1, SubtagsByLineage
    <3>3. IsPrefix(tags[t].lineage, tags[u].lineage)
            <=> \E n \in DOMAIN tags[u].lineage : tags[u].lineage[n] = tags[t].value
      BY <1>1, <2>3, ValueInLineage
    <3> QED  BY <3>1, <3>2, <3>3 DEF WithSubtags
  <2> QED  BY <2>1, <2>2, <2>3 DEF u
<1>6. ASSUME NEW t \in DOMAIN tags
      PROVE  UsageCount(tags[t].value)
               = Cardinality({o \in Objects : \E k \in OfObject(o) :
                                 objectTags[k].tag \in WithSubtags({t})})
  <2>1. \A o \in Objects : OfObject(o) \subseteq DOMAIN objectTags  BY DEF OfObject
  <2>2. {o \in Objects : \E k \in OfObject(o) :
            /\ objectTags[k].tag # 0
            /\ \E n \in DOMAIN tags[objectTags[k].tag].lineage :
                  tags[objectTags[k].tag].lineage[n] = tags[t].value}
          = {o \in Objects : \E k \in OfObject(o) : objectTags[k].tag \in WithSubtags({t})}
    BY <1>5, <2>1
  <2> QED  BY <2>2 DEF UsageCount
<1>7. ASSUME Closed, NEW o \in Objects
      PROVE  ImplicitCount(o)
               = Cardinality({t \in DOMAIN tags : \E k \in Shown(o) :
                                 objectTags[k].tag \in WithSubtags({t})})
  <2> DEFINE us == {objectTags[k].tag : k \in {j \in Shown(o) : objectTags[j].tag # 0}}
             untagged == {k \in Shown(o) : objectTags[k].tag = 0}
             above == {t \in DOMAIN tags : \E u \in us : u \in WithSubtagsIn(tags, {t})}
             counted == {t \in DOMAIN tags : \E k \in Shown(o) :
                            objectTags[k].tag \in WithSubtags({t})}
             parts == Beginnings(tags, us)
  <2>1. Shown(o) \subseteq DOMAIN objectTags /\ \A k \in Shown(o) : objectTags[k].tag # 0
    BY <1>7 DEF Shown, IsDeleted
  <2>2. untagged = {}  BY <2>1
  <2>3. us \in SUBSET DOMAIN tags  BY <1>3, <2>1
  <2>4. UNION {{SubSeq(tags[objectTags[k].tag].lineage, 1, n) :
                   n \in DOMAIN tags[objectTags[k].tag].lineage} :
                 k \in {j \in Shown(o) : objectTags[j].tag # 0}}
          = parts
    BY DEF Beginnings
  <2>5. ImplicitCount(o) = Cardinality(untagged) + Cardinality(parts)
    BY <2>4 DEF ImplicitCount
  <2>6. above = counted
    BY <2>1 DEF WithSubtags
  <2> HIDE DEF us
  <2>7. Cardinality(parts) \in Nat /\ Cardinality(parts) = Cardinality(above)
    BY <1>1, <2>3, BeginningsCounted
  <2>8. Cardinality(untagged) = 0  BY <2>2, FS_EmptySet
  <2>9. ImplicitCount(o) = Cardinality(counted)
    <3> HIDE DEF untagged, parts, above, counted
    <3> QED  BY <2>5, <2>6, <2>7, <2>8
  <2> QED  BY <2>9
<1> QED  BY <1>4, <1>6, <1>7 DEF CountsFollowTheTree

\* The counts of tags per object, and of objects per tag, that the service takes
\* from cached lineages are those that the parents give (get_object_tag_counts,
\* add_usage_counts), with requests that overlap, too.
THEOREM CountsAreRight == ObjectTagsSpec => []CountsFollowTheTree
<1>1. ObjectTagsInv => CountsFollowTheTree  BY CountsFromInv
<1> QED  BY <1>1, ObjectTagsInvariance, PTL

-----------------------------------------------------------------------------
(* What copy_tags leaves                                                   *)

\* The tags that rows not of a deleted taxonomy link an object to.
HasTag(rows, o, t) ==
    \E k \in DOMAIN rows : rows[k].object = o /\ rows[k].taxonomy # 0 /\ rows[k].tag = t

\* One round links the destination to the tag of the source row and nothing else.
LEMMA CopiedTagIsLinked ==
    ASSUME TagsOK, CallOK, taxonomy \in Taxonomy \cup {NoTaxonomy}, NEW dst \in Objects,
           NEW db \in Databases(tags, taxonomy), NEW source \in RowsOf(tags, taxonomy),
           source.taxonomy # 0, ~ CopyTag(dst, db, source).failed
    PROVE  /\ ~ db.failed
           /\ \A t : HasTag(CopyTag(dst, db, source).rows, dst, t)
                        <=> HasTag(db.rows, dst, t) \/ t = source.tag
<1> DEFINE found == {k \in DOMAIN db.rows : /\ db.rows[k].object = dst
                                            /\ db.rows[k].taxonomy = source.taxonomy
                                            /\ db.rows[k].tag = source.tag}
           k == CHOOSE j \in found : TRUE
           new == NewObjectTag(dst, source.tag, EmptyValue, TRUE)
           copied == [db.rows[k] EXCEPT !.is_copied = TRUE]
           free == FreeKey(db.rows)
<1>1. DOMAIN db.rows \in KeySets /\ db.rows \in [DOMAIN db.rows -> RowsOf(tags, taxonomy)]
      /\ db.rows \in Tables(tags, taxonomy)
      /\ db = [rows |-> db.rows, failed |-> db.failed]
  BY TableType DEF Databases
<1>2. \/ found = {} /\ CopyTag(dst, db, source) = SaveRow(db, free, new)
      \/ found # {} /\ CopyTag(dst, db, source) = SaveRow(db, k, copied)
      \/ CopyTag(dst, db, source) = [db EXCEPT !.failed = TRUE]
  BY DEF CopyTag
<1>3. found # {} => /\ k \in DOMAIN db.rows /\ db.rows[k].object = dst
                    /\ db.rows[k].taxonomy = source.taxonomy /\ db.rows[k].tag = source.tag
  OBVIOUS
<1> HIDE DEF found, k
<1>4. CASE found = {} /\ CopyTag(dst, db, source) = SaveRow(db, free, new)
  <2>1. free \in Nat \ {0} /\ free \notin DOMAIN db.rows
    BY <1>1, FreeKeyIsFree DEF CallOK
  <2>2. taxonomy \in Taxonomy /\ source.tag \in DOMAIN tags \cup {0}
    BY DEF RowsOf, TaxonomyKeys
  <2>3. new \in RowsOf(tags, taxonomy)
    BY <2>2, NewRow
  <2>4. new.object = dst /\ new.taxonomy # 0 /\ new.tag = source.tag
    BY <2>2 DEF NewObjectTag, Taxonomy
  <2> HIDE DEF new, free
  <2> DEFINE rows == CopyTag(dst, db, source).rows
  <2>5. /\ ~ db.failed /\ DOMAIN rows = DOMAIN db.rows \cup {free}
        /\ \A j \in DOMAIN db.rows \cup {free} : rows[j] = IF j = free THEN new ELSE db.rows[j]
    BY <1>4, <2>1, <2>3, SavedRow
  <2> HIDE DEF rows
  <2>6. ASSUME NEW t
        PROVE  HasTag(rows, dst, t) <=> HasTag(db.rows, dst, t) \/ t = source.tag
    <3>1. ASSUME HasTag(rows, dst, t) PROVE HasTag(db.rows, dst, t) \/ t = source.tag
      BY <2>4, <2>5, <3>1 DEF HasTag
    <3>2. ASSUME HasTag(db.rows, dst, t) PROVE HasTag(rows, dst, t)
      BY <2>1, <2>5, <3>2 DEF HasTag
    <3>3. ASSUME t = source.tag PROVE HasTag(rows, dst, t)
      <4>1. free \in DOMAIN rows /\ rows[free] = new  BY <2>5
      <4> QED  BY <2>4, <3>3, <4>1 DEF HasTag
    <3> QED  BY <3>1, <3>2, <3>3
  <2> QED  BY <2>5, <2>6 DEF rows
<1>5. CASE found # {} /\ CopyTag(dst, db, source) = SaveRow(db, k, copied)
  <2>1. k \in Nat \ {0} /\ db.rows[k] \in RowsOf(tags, taxonomy)
    BY <1>1, <1>3, <1>5 DEF KeySets
  <2>2. /\ copied \in RowsOf(tags, taxonomy) /\ copied.object = db.rows[k].object
        /\ copied.taxonomy = db.rows[k].taxonomy /\ copied.tag = db.rows[k].tag
    <3> DEFINE row == db.rows[k]
    <3>1. row \in RowsOf(tags, taxonomy)  BY <2>1
    <3> HIDE DEF row
    <3>2. /\ [row EXCEPT !.is_copied = TRUE] \in RowsOf(tags, taxonomy)
          /\ [row EXCEPT !.is_copied = TRUE].object = row.object
          /\ [row EXCEPT !.is_copied = TRUE].taxonomy = row.taxonomy
          /\ [row EXCEPT !.is_copied = TRUE].tag = row.tag
      BY <3>1 DEF RowsOf, ObjectTag
    <3> QED  BY <3>2 DEF row
  <2> HIDE DEF copied
  <2> DEFINE rows == CopyTag(dst, db, source).rows
  <2>5. /\ ~ db.failed /\ DOMAIN rows = DOMAIN db.rows \cup {k}
        /\ \A j \in DOMAIN db.rows \cup {k} : rows[j] = IF j = k THEN copied ELSE db.rows[j]
    BY <1>5, <2>1, <2>2, SavedRow
  <2>6. DOMAIN rows = DOMAIN db.rows  BY <1>3, <1>5, <2>5
  <2> HIDE DEF rows
  <2>7. \A j \in DOMAIN db.rows : /\ rows[j].object = db.rows[j].object
                                  /\ rows[j].taxonomy = db.rows[j].taxonomy
                                  /\ rows[j].tag = db.rows[j].tag
    BY <2>2, <2>5
  <2>8. HasTag(db.rows, dst, source.tag)  BY <1>3, <1>5 DEF HasTag
  <2>9. \A t : HasTag(rows, dst, t) <=> HasTag(db.rows, dst, t)
    BY <2>6, <2>7 DEF HasTag
  <2> QED  BY <2>5, <2>8, <2>9 DEF rows
<1>6. CASE CopyTag(dst, db, source) = [db EXCEPT !.failed = TRUE]
  <2>1. CopyTag(dst, db, source) = [rows |-> db.rows, failed |-> TRUE]
    BY <1>1, <1>6
  <2> QED  BY <2>1
<1> QED  BY <1>2, <1>4, <1>5, <1>6

\* After the whole loop the destination is linked to the tags it kept and to those
\* of the source.
LEMMA CopiedTagsAreLinked ==
    ASSUME TagsOK, CallOK, taxonomy \in Taxonomy \cup {NoTaxonomy}, NEW dst \in Objects,
           NEW start \in Databases(tags, taxonomy), NEW kept \in Tables(tags, taxonomy),
           NEW keys \in SUBSET DOMAIN kept, \A k \in keys : kept[k].taxonomy # 0,
           NEW g, CopyRounds(dst, keys, start, kept, g), ~ g[LastOf(keys)].failed
    PROVE  \A t : HasTag(g[LastOf(keys)].rows, dst, t)
                    <=> HasTag(start.rows, dst, t) \/ \E j \in keys : kept[j].tag = t
<1> DEFINE n == LastOf(keys)
           D == Databases(tags, taxonomy)
           Done(k) == \A t : HasTag(g[k].rows, dst, t)
                        <=> HasTag(start.rows, dst, t) \/ \E j \in keys : j <= k /\ kept[j].tag = t
           S == {k \in 0 .. n : g[k].failed \/ Done(k)}
<1>1. keys \in KeySets /\ \A k \in keys : kept[k] \in RowsOf(tags, taxonomy)
                                           /\ kept[k].taxonomy # 0
  <2>1. DOMAIN kept \in KeySets /\ kept \in [DOMAIN kept -> RowsOf(tags, taxonomy)]
    BY TableType
  <2> QED  BY <2>1 DEF KeySets, Bounded
<1>2. n \in Nat /\ \A k \in keys : k \in 1 .. n  BY <1>1, LastKey
<1>3. /\ \A k \in 0 .. n : g[k] \in D
      /\ g[0] = start
      /\ \A k \in 1 .. n : g[k] = IF k \in keys THEN CopyTag(dst, g[k - 1], kept[k]) ELSE g[k - 1]
  BY DEF CopyRounds
<1> HIDE DEF n, D
<1>4. 0 \in S
  <2>1. \A j \in keys : ~ (j <= 0)  BY <1>2
  <2> QED  BY <1>2, <1>3, <2>1
<1>5. ASSUME NEW k \in 1 .. n, k - 1 \in S PROVE k \in S
  <2>1. k \in 0 .. n /\ k - 1 \in 0 .. n /\ g[k - 1] \in D /\ g[k] \in D
    BY <1>2, <1>3
  <2>2. SUFFICES ASSUME ~ g[k].failed PROVE Done(k)
    BY <2>1
  <2>3. CASE k \in keys
    <3>1. g[k] = CopyTag(dst, g[k - 1], kept[k]) /\ kept[k] \in RowsOf(tags, taxonomy)
          /\ kept[k].taxonomy # 0
      BY <1>1, <1>3, <2>3
    <3>2. /\ ~ g[k - 1].failed
          /\ \A t : HasTag(g[k].rows, dst, t) <=> HasTag(g[k - 1].rows, dst, t) \/ t = kept[k].tag
      BY <2>1, <2>2, <3>1, CopiedTagIsLinked DEF D
    <3>3. Done(k - 1)  BY <1>5, <3>2
    <3>4. \A j \in keys : j <= k <=> (j <= k - 1 \/ j = k)  BY <1>2
    <3> HIDE DEF S
    <3> QED  BY <2>3, <3>2, <3>3, <3>4
  <2>4. CASE k \notin keys
    <3>1. g[k] = g[k - 1]  BY <1>3, <2>4
    <3>2. Done(k - 1)  BY <1>5, <2>2, <3>1
    <3>3. \A j \in keys : j <= k <=> j <= k - 1  BY <1>2, <2>4
    <3> HIDE DEF S
    <3> QED  BY <3>1, <3>2, <3>3
  <2> QED  BY <2>3, <2>4
<1>6. 0 .. n \subseteq S
  <2> HIDE DEF S
  <2> QED  BY <1>2, <1>4, <1>5, RoundByRound
<1>7. Done(n)
  <2>1. n \in S  BY <1>2, <1>6
  <2> QED  BY <2>1 DEF n
<1>8. \A j \in keys : j <= n  BY <1>2
<1> HIDE DEF S
<1> QED  BY <1>7, <1>8 DEF n

LEMMA CopyTagsShows ==
    ASSUME ObjectTagsInv, NEW src \in Objects, NEW dst \in Objects, src # dst, Closed,
           CopyTags(src, dst)
    PROVE  ShownValues(dst)' =
                ShownValues(src) \cup
                {ValueOf(objectTags[k]) : k \in {j \in Shown(dst) : ~ objectTags[j].is_copied}}
<1> DEFINE S == {j \in DOMAIN objectTags :
                    objectTags[j].object = dst => ~ objectTags[j].is_copied}
           kept == [k \in S |-> objectTags[k]]
           keys == Shown(src) \cap DOMAIN kept
           db == ForEach(keys, LAMBDA d, k : CopyTag(dst, d, kept[k]), Working(kept))
           start == Working(kept)
<1>1. /\ ~ db.failed /\ objectTags' = db.rows
      /\ UNCHANGED <<tags, taxonomy>>
  BY DEF CopyTags
<1>2. S \in SUBSET DOMAIN objectTags  OBVIOUS
<1>3. \A k \in S : kept[k] = objectTags[k]  OBVIOUS
<1>4. \A k \in DOMAIN objectTags :
          k \in S <=> (objectTags[k].object = dst => ~ objectTags[k].is_copied)
  OBVIOUS
<1> HIDE DEF S
<1>5. kept \in Tables(tags, taxonomy) /\ DOMAIN kept = S
  BY <1>2, KeptRows DEF ObjectTagsInv
<1>6. start = [rows |-> kept, failed |-> FALSE]  BY DEF Working
<1> HIDE DEF kept
<1>7. keys \subseteq DOMAIN kept /\ \A k \in keys : kept[k].taxonomy # 0
  BY <1>2, <1>3, <1>5 DEF Shown, IsDeleted
<1>8. \A k : k \in keys <=> k \in Shown(src)
  BY <1>4, <1>5 DEF Shown
<1> HIDE DEF keys
<1>9. start \in Databases(tags, taxonomy)  BY <1>5, WorkingDb
<1>10. start.rows = kept  BY <1>6
<1> HIDE DEF start
<1>11. TagsOK /\ CallOK /\ taxonomy \in Taxonomy \cup {NoTaxonomy}  BY DEF ObjectTagsInv
<1>12. PICK g : /\ CopyRounds(dst, keys, start, kept, g)
                /\ ForEach(keys, LAMBDA d, m : CopyTag(dst, d, kept[m]), start) = g[LastOf(keys)]
  BY <1>5, <1>7, <1>9, <1>11, CopyRuns
<1>13. db = g[LastOf(keys)]  BY <1>12 DEF start
<1> HIDE DEF db
<1>14. \A t : HasTag(objectTags', dst, t)
                 <=> HasTag(kept, dst, t) \/ \E j \in keys : kept[j].tag = t
  <2>1. ~ g[LastOf(keys)].failed /\ objectTags' = g[LastOf(keys)].rows  BY <1>1, <1>13
  <2>2. CopyRounds(dst, keys, start, kept, g)  BY <1>12
  <2>3. \A t : HasTag(g[LastOf(keys)].rows, dst, t)
                 <=> HasTag(start.rows, dst, t) \/ \E j \in keys : kept[j].tag = t
    BY <1>5, <1>7, <1>9, <1>11, <2>1, <2>2, CopiedTagsAreLinked
  <2> QED  BY <1>10, <2>1, <2>3
<1> DEFINE val(t) == tags[t].value
           Is(rows, o, k) == /\ k \in DOMAIN rows /\ rows[k].object = o
                             /\ rows[k].taxonomy # 0 /\ rows[k].tag # 0
                             /\ taxonomy.settings.enabled
<1>15. \A o, k : k \in Shown(o) <=> Is(objectTags, o, k)
  BY DEF Shown, IsDeleted
<1>16. \A o, k : k \in Shown(o)' <=> Is(objectTags', o, k)
  BY <1>1 DEF Shown, IsDeleted, Closed
<1>17. /\ \A k : objectTags[k].tag # 0 => ValueOf(objectTags[k]) = val(objectTags[k].tag)
       /\ \A k : objectTags'[k].tag # 0 => ValueOf(objectTags[k])' = val(objectTags'[k].tag)
  BY <1>1 DEF ValueOf
<1> DEFINE own == {ValueOf(objectTags[k]) : k \in {j \in Shown(dst) : ~ objectTags[j].is_copied}}
<1>18. ASSUME NEW v \in ShownValues(dst)' PROVE v \in ShownValues(src) \cup own
  <2>1. PICK k \in Shown(dst)' : v = ValueOf(objectTags[k])'  BY DEF ShownValues
  <2>2. Is(objectTags', dst, k)  BY <1>16
  <2>3. v = val(objectTags'[k].tag)  BY <1>17, <2>1, <2>2
  <2>4. HasTag(objectTags', dst, objectTags'[k].tag)  BY <2>2 DEF HasTag
  <2>5. CASE HasTag(kept, dst, objectTags'[k].tag)
    <3>1. PICK j \in DOMAIN kept : /\ kept[j].object = dst /\ kept[j].taxonomy # 0
                                   /\ kept[j].tag = objectTags'[k].tag
      BY <2>5 DEF HasTag
    <3>2. j \in DOMAIN objectTags /\ objectTags[j] = kept[j] /\ ~ objectTags[j].is_copied
      BY <1>2, <1>3, <1>4, <1>5, <3>1
    <3>3. j \in Shown(dst)  BY <1>15, <2>2, <3>1, <3>2
    <3>4. v = ValueOf(objectTags[j])  BY <1>17, <2>2, <2>3, <3>1, <3>2
    <3> QED  BY <3>2, <3>3, <3>4
  <2>6. CASE \E j \in keys : kept[j].tag = objectTags'[k].tag
    <3>1. PICK j \in keys : kept[j].tag = objectTags'[k].tag  BY <2>6
    <3>2. j \in Shown(src) /\ objectTags[j] = kept[j]  BY <1>3, <1>5, <1>7, <1>8
    <3>3. v = ValueOf(objectTags[j])  BY <1>17, <2>2, <2>3, <3>1, <3>2
    <3> QED  BY <3>2, <3>3 DEF ShownValues
  <2> QED  BY <1>14, <2>4, <2>5, <2>6
<1>19. ASSUME NEW t, t # 0, HasTag(objectTags', dst, t), taxonomy.settings.enabled
       PROVE  val(t) \in ShownValues(dst)'
  <2>1. PICK k \in DOMAIN objectTags' : /\ objectTags'[k].object = dst
                                        /\ objectTags'[k].taxonomy # 0 /\ objectTags'[k].tag = t
    BY <1>19 DEF HasTag
  <2>2. k \in Shown(dst)'  BY <1>16, <1>19, <2>1
  <2>3. val(t) = ValueOf(objectTags[k])'  BY <1>17, <1>19, <2>1
  <2> QED  BY <2>2, <2>3 DEF ShownValues
<1>20. ASSUME NEW v \in ShownValues(src) PROVE v \in ShownValues(dst)'
  <2>1. PICK k \in Shown(src) : v = ValueOf(objectTags[k])  BY DEF ShownValues
  <2>2. Is(objectTags, src, k)  BY <1>15
  <2>3. k \in keys /\ kept[k] = objectTags[k]  BY <1>3, <1>5, <1>7, <1>8
  <2>4. HasTag(objectTags', dst, objectTags[k].tag)  BY <1>14, <2>3
  <2>5. v = val(objectTags[k].tag)  BY <1>17, <2>1, <2>2
  <2> QED  BY <1>19, <2>2, <2>4, <2>5
<1>21. ASSUME NEW v \in own PROVE v \in ShownValues(dst)'
  <2>1. PICK k \in Shown(dst) : ~ objectTags[k].is_copied /\ v = ValueOf(objectTags[k])
    OBVIOUS
  <2>2. Is(objectTags, dst, k)  BY <1>15
  <2>3. k \in DOMAIN kept /\ kept[k] = objectTags[k]  BY <1>3, <1>4, <1>5, <2>1, <2>2
  <2>4. HasTag(kept, dst, objectTags[k].tag)  BY <2>2, <2>3 DEF HasTag
  <2>5. HasTag(objectTags', dst, objectTags[k].tag)  BY <1>14, <2>4
  <2>6. v = val(objectTags[k].tag)  BY <1>17, <2>1, <2>2
  <2> QED  BY <1>19, <2>2, <2>5, <2>6
<1> HIDE DEF own
<1>22. ShownValues(dst)' = ShownValues(src) \cup own
  BY <1>18, <1>20, <1>21
<1> QED  BY <1>22 DEF own

\* The destination of copy_tags shows its own tags and those of the source.
THEOREM CopiesAreRight == ObjectTagsSpec => CopiesFollowTheSource
<1>1. ASSUME ObjectTagsInv, ObjectTagsInv', [ObjectTagsNext]_vars
      PROVE  \A src, dst \in Objects :
                (src # dst /\ Closed /\ CopyTags(src, dst)) =>
                    ShownValues(dst)' =
                        ShownValues(src) \cup
                        {ValueOf(objectTags[k]) :
                            k \in {j \in Shown(dst) : ~ objectTags[j].is_copied}}
  BY <1>1, CopyTagsShows
<1> QED  BY <1>1, ObjectTagsInvariance, PTL DEF ObjectTagsSpec, CopiesFollowTheSource

-----------------------------------------------------------------------------
(* Tags that come back                                                     *)

\* A row whose tag is gone gets the tag with its value.
LEMMA ResyncedLinks ==
    ASSUME NEW trs, NEW tx \in Taxonomy, ~ tx.settings.allow_free_text,
           NEW row \in RowsOf(trs, tx), row.tag = 0,
           NEW t \in DOMAIN trs, trs[t].value = row._value,
           \A u \in DOMAIN trs : trs[u].value = row._value => u = t,
           Resynced(tx, trs, row).taxonomy # 0
    PROVE  Resynced(tx, trs, row).tag = t
<1> DEFINE exported == IF row.taxonomy # 0 THEN [row EXCEPT !.export_id = tx.settings.export_id]
                                           ELSE row
           linked == IF row.taxonomy = 0 /\ tx # NoTaxonomy /\ tx.settings.export_id = row.export_id
                     THEN [row EXCEPT !.taxonomy = tx.id] ELSE exported
           same == {u \in DOMAIN trs : trs[u].value = linked._value}
           found == CHOOSE u \in same : TRUE
<1>1. row \in ObjectTag  BY DEF RowsOf
<1>2. linked \in ObjectTag /\ linked.tag = 0 /\ linked._value = row._value
  <2>1. \/ linked = [row EXCEPT !.export_id = tx.settings.export_id]
        \/ linked = [row EXCEPT !.taxonomy = tx.id]
        \/ linked = row
    OBVIOUS
  <2>2. tx.settings.export_id \in {s.export_id : s \in Settings} /\ tx.id \in Nat
    BY DEF Taxonomy
  <2> HIDE DEF linked
  <2>3. [row EXCEPT !.export_id = tx.settings.export_id] \in ObjectTag
    BY <1>1, <2>2 DEF ObjectTag
  <2>4. [row EXCEPT !.taxonomy = tx.id] \in ObjectTag
    BY <1>1, <2>2 DEF ObjectTag
  <2>5. linked \in ObjectTag  BY <1>1, <2>1, <2>3, <2>4
  <2>6. linked.tag = row.tag /\ linked._value = row._value
    BY <1>1, <2>1 DEF ObjectTag
  <2> QED  BY <2>5, <2>6
<1>3. same = {t}  BY <1>2
<1>4. found = t  BY <1>3
<1>5. Resynced(tx, trs, row)
        = IF linked.taxonomy # 0 /\ ~ tx.settings.allow_free_text /\ linked.tag = 0
          THEN IF same = {} THEN linked ELSE [linked EXCEPT !.tag = found]
          ELSE IF linked.tag # 0 THEN [linked EXCEPT !._value = trs[linked.tag].value]
          ELSE linked
  BY DEF Resynced
<1> HIDE DEF linked, same, found
<1>6. linked.taxonomy # 0  BY <1>2, <1>5
<1>7. Resynced(tx, trs, row) = [linked EXCEPT !.tag = found]
  BY <1>2, <1>3, <1>5, <1>6
<1> QED  BY <1>2, <1>4, <1>7 DEF ObjectTag

\* A row of the taxonomy that has the value of its tag keeps it.
LEMMA ResyncedKeeps ==
    ASSUME NEW trs, NEW tx \in Taxonomy, NEW row \in RowsOf(trs, tx), row.taxonomy # 0,
           row.tag # 0 => row._value = trs[row.tag].value
    PROVE  /\ Resynced(tx, trs, row).taxonomy = row.taxonomy
           /\ Resynced(tx, trs, row)._value = row._value
           /\ Resynced(tx, trs, row).tag # 0 =>
                 trs[Resynced(tx, trs, row).tag].value = row._value
<1> DEFINE linked == [row EXCEPT !.export_id = tx.settings.export_id]
           same == {u \in DOMAIN trs : trs[u].value = linked._value}
           found == CHOOSE u \in same : TRUE
<1>1. row \in ObjectTag  BY DEF RowsOf
<1>2. /\ linked \in ObjectTag /\ linked.tag = row.tag /\ linked._value = row._value
      /\ linked.taxonomy = row.taxonomy
  <2>1. tx.settings.export_id \in {s.export_id : s \in Settings}  BY DEF Taxonomy
  <2> QED  BY <1>1, <2>1 DEF ObjectTag
<1>3. same # {} => trs[found].value = row._value  BY <1>2
<1>4. \/ /\ Resynced(tx, trs, row) = linked
         /\ (linked.tag # 0 => linked._value = trs[linked.tag].value)
      \/ same # {} /\ Resynced(tx, trs, row) = [linked EXCEPT !.tag = found]
      \/ linked.tag # 0 /\ Resynced(tx, trs, row) = [linked EXCEPT !._value = trs[linked.tag].value]
  <2>1. Resynced(tx, trs, row)
          = IF linked.taxonomy # 0 /\ ~ tx.settings.allow_free_text /\ linked.tag = 0
            THEN IF same = {} THEN linked ELSE [linked EXCEPT !.tag = found]
            ELSE IF linked.tag # 0 THEN [linked EXCEPT !._value = trs[linked.tag].value]
            ELSE linked
    BY DEF Resynced
  <2> HIDE DEF linked, same, found
  <2> QED  BY <2>1
<1> HIDE DEF linked, same, found
<1>5. CASE Resynced(tx, trs, row) = linked
  BY <1>2, <1>5
<1>6. CASE same # {} /\ Resynced(tx, trs, row) = [linked EXCEPT !.tag = found]
  <2> DEFINE after == [linked EXCEPT !.tag = found]
  <2>1. after.taxonomy = linked.taxonomy /\ after._value = linked._value /\ after.tag = found
    BY <1>2 DEF ObjectTag
  <2> HIDE DEF after
  <2>2. Resynced(tx, trs, row) = after  BY <1>6 DEF after
  <2> QED  BY <1>2, <1>3, <1>6, <2>1, <2>2
<1>7. CASE /\ linked.tag # 0
           /\ Resynced(tx, trs, row) = [linked EXCEPT !._value = trs[linked.tag].value]
  <2> DEFINE after == [linked EXCEPT !._value = trs[linked.tag].value]
  <2>1. /\ after.taxonomy = linked.taxonomy /\ after._value = trs[linked.tag].value
        /\ after.tag = linked.tag
    BY <1>2 DEF ObjectTag
  <2> HIDE DEF after
  <2>2. Resynced(tx, trs, row) = after  BY <1>7 DEF after
  <2> QED  BY <1>2, <1>7, <2>1, <2>2
<1> QED  BY <1>4, <1>5, <1>6, <1>7

\* What there is between two rounds of the loop.
LEMMA BetweenRounds ==
    ASSUME NEW trs, NEW tx, NEW rows \in Tables(trs, tx), NEW keys,
           NEW g, ResyncRounds(tx, trs, rows, keys, g)
    PROVE  /\ \A m \in 0 .. LastOf(keys) : /\ g[m] \in Databases(trs, tx)
                                          /\ DOMAIN g[m].rows = DOMAIN rows
           /\ g[0].rows = rows /\ ~ g[0].failed
           /\ \A m \in 1 .. LastOf(keys) :
                 g[m] = IF m \in keys THEN ResyncRow(tx, trs, g[m - 1], m) ELSE g[m - 1]
<1> DEFINE D == {db \in Databases(trs, tx) : DOMAIN db.rows = DOMAIN rows}
<1>1. g \in [0 .. LastOf(keys) -> D]  BY DEF ResyncRounds
<1>2. \A db \in D : db \in Databases(trs, tx) /\ DOMAIN db.rows = DOMAIN rows  OBVIOUS
<1> HIDE DEF D
<1>3. \A m \in 0 .. LastOf(keys) : g[m] \in D  BY <1>1
<1>4. g[0] = Working(rows)  BY DEF ResyncRounds
<1>5. \A m \in 1 .. LastOf(keys) :
         g[m] = IF m \in keys THEN ResyncRow(tx, trs, g[m - 1], m) ELSE g[m - 1]
  BY DEF ResyncRounds
<1>6. \A m \in 0 .. LastOf(keys) : g[m] \in Databases(trs, tx) /\ DOMAIN g[m].rows = DOMAIN rows
  BY <1>2, <1>3
<1>7. g[0].rows = rows /\ ~ g[0].failed  BY <1>4 DEF Working
<1> QED  BY <1>5, <1>6, <1>7

\* After the loop a row is what it was, or resynced; one that was not chosen is what it was.
LEMMA ResyncedOrNot ==
    ASSUME NEW trs, NEW tx \in Taxonomy \cup {NoTaxonomy}, DOMAIN trs \subseteq Nat,
           \A t \in DOMAIN trs : trs[t].value \in Values,
           NEW rows \in Tables(trs, tx), NEW keys \in SUBSET DOMAIN rows,
           NEW g, ResyncRounds(tx, trs, rows, keys, g)
    PROVE  \A k \in DOMAIN rows :
              /\ \/ g[LastOf(keys)].rows[k] = rows[k]
                 \/ g[LastOf(keys)].rows[k] = Resynced(tx, trs, rows[k])
              /\ k \notin keys => g[LastOf(keys)].rows[k] = rows[k]
<1> DEFINE n == LastOf(keys)
           Fine(m, k) == /\ \/ g[m].rows[k] = rows[k]
                            \/ g[m].rows[k] = Resynced(tx, trs, rows[k])
                         /\ k \notin keys \/ k > m => g[m].rows[k] = rows[k]
           S == {m \in 0 .. n : \A k \in DOMAIN rows : Fine(m, k)}
<1>1. keys \in KeySets /\ DOMAIN rows \in KeySets
      /\ \A k \in DOMAIN rows : k \in Nat \ {0} /\ rows[k] \in RowsOf(trs, tx)
  BY TableType DEF KeySets, Bounded
<1>2. n \in Nat /\ \A k \in keys : k \in 1 .. n  BY <1>1, LastKey
<1>3. /\ \A m \in 0 .. n : g[m] \in Databases(trs, tx) /\ DOMAIN g[m].rows = DOMAIN rows
      /\ g[0].rows = rows
      /\ \A m \in 1 .. n : g[m] = IF m \in keys THEN ResyncRow(tx, trs, g[m - 1], m) ELSE g[m - 1]
  BY BetweenRounds
<1> HIDE DEF n
<1>4. 0 \in S  BY <1>2, <1>3
<1>5. ASSUME NEW m \in 1 .. n, m - 1 \in S PROVE m \in S
  <2>1. /\ m \in 0 .. n /\ m - 1 \in 0 .. n /\ g[m - 1] \in Databases(trs, tx)
        /\ DOMAIN g[m - 1].rows = DOMAIN rows
    BY <1>2, <1>3
  <2>2. ASSUME NEW k \in DOMAIN rows PROVE Fine(m, k)
    <3>1. Fine(m - 1, k)  BY <1>5
    <3>2. k \in Nat /\ m \in Nat /\ (k > m => k > m - 1) /\ (k > m - 1 => k > m \/ k = m)
      BY <1>1, <1>2
    <3> DEFINE db == g[m - 1]
               row == Resynced(tx, trs, db.rows[m])
    <3>3. CASE g[m] = db
      BY <1>2, <3>1, <3>2, <3>3
    <3>4. CASE m \in keys /\ g[m] = SaveRow(db, m, row)
      <4>1. m \in DOMAIN rows /\ db.rows[m] = rows[m]
        <5>1. m \in DOMAIN rows  BY <3>4
        <5>2. Fine(m - 1, m)  BY <1>5, <5>1
        <5>3. m > m - 1  BY <3>2
        <5> QED  BY <5>1, <5>2, <5>3
      <4>2. row \in RowsOf(trs, tx) /\ row = Resynced(tx, trs, rows[m])
        BY <1>1, <4>1, ResyncedFits
      <4>3. m \in Nat \ {0}  BY <1>2
      <4> HIDE DEF row
      <4>4. \/ SaveRow(db, m, row).rows = db.rows
            \/ \A j \in DOMAIN rows :
                  SaveRow(db, m, row).rows[j] = IF j = m THEN row ELSE db.rows[j]
        <5>1. SaveRow(db, m, row).failed \in BOOLEAN
          BY <2>1, <4>2, <4>3, SavedRow DEF Databases, db
        <5>2. db \in Databases(trs, tx) /\ DOMAIN db.rows = DOMAIN rows  BY <2>1 DEF db
        <5>3. DOMAIN db.rows \cup {m} = DOMAIN rows  BY <4>1, <5>2
        <5> HIDE DEF db
        <5> QED  BY <4>2, <4>3, <5>1, <5>2, <5>3, SavedRow
      <4>5. CASE SaveRow(db, m, row).rows = db.rows
        <5>1. g[m].rows = g[m - 1].rows  BY <3>4, <4>5 DEF db
        <5> QED  BY <3>1, <3>2, <5>1
      <4>6. CASE g[m].rows[k] = IF k = m THEN row ELSE db.rows[k]
        <5>1. CASE k = m
          BY <3>2, <3>4, <4>2, <4>6, <5>1
        <5>2. CASE k # m
          <6>1. g[m].rows[k] = g[m - 1].rows[k]  BY <4>6, <5>2 DEF db
          <6> QED  BY <3>1, <3>2, <6>1
        <5> QED  BY <5>1, <5>2
      <4> QED  BY <3>4, <4>4, <4>5, <4>6
    <3>5. g[m] = db \/ (m \in keys /\ g[m] = SaveRow(db, m, row))
      BY <1>3 DEF ResyncRow
    <3> QED  BY <3>3, <3>4, <3>5
  <2> QED  BY <2>1, <2>2
<1>6. 0 .. n \subseteq S
  <2> HIDE DEF S
  <2> QED  BY <1>2, <1>4, <1>5, RoundByRound
<1>7. n \in S  BY <1>2, <1>6
<1> QED  BY <1>7 DEF n

\* Where every row of the taxonomy has the value of its tag, none stands in the way.
LEMMA ResyncedAll ==
    ASSUME NEW trs, NEW tx \in Taxonomy, DOMAIN trs \subseteq Nat,
           \A t \in DOMAIN trs : trs[t].value \in Values,
           NEW rows \in Tables(trs, tx), NEW keys \in SUBSET DOMAIN rows,
           \A k \in keys : rows[k].taxonomy # 0,
           \A k \in DOMAIN rows : rows[k].tag # 0 => rows[k]._value = trs[rows[k].tag].value,
           NEW g, ResyncRounds(tx, trs, rows, keys, g)
    PROVE  \A k \in keys : g[LastOf(keys)].rows[k] = Resynced(tx, trs, rows[k])
<1> DEFINE n == LastOf(keys)
           Now(m, k) == IF k \in keys /\ k <= m THEN Resynced(tx, trs, rows[k]) ELSE rows[k]
           S == {m \in 0 .. n : /\ ~ g[m].failed
                                /\ \A k \in DOMAIN rows : g[m].rows[k] = Now(m, k)}
<1>1. keys \in KeySets /\ DOMAIN rows \in KeySets /\ Unique(rows)
      /\ \A k \in DOMAIN rows : k \in Nat \ {0} /\ rows[k] \in RowsOf(trs, tx)
  BY TableType DEF KeySets, Bounded
<1>2. n \in Nat /\ \A k \in keys : k \in 1 .. n  BY <1>1, LastKey
<1>3. /\ \A m \in 0 .. n : g[m] \in Databases(trs, tx) /\ DOMAIN g[m].rows = DOMAIN rows
      /\ g[0].rows = rows /\ ~ g[0].failed
      /\ \A m \in 1 .. n : g[m] = IF m \in keys THEN ResyncRow(tx, trs, g[m - 1], m) ELSE g[m - 1]
  BY BetweenRounds
<1> HIDE DEF n
<1>4. 0 \in S
  <2>1. \A k \in keys : ~ (k <= 0)  BY <1>2
  <2> QED  BY <1>2, <1>3, <2>1
<1>5. ASSUME NEW m, NEW k \in DOMAIN rows
      PROVE  /\ Now(m, k).object = rows[k].object
             /\ Now(m, k).taxonomy = rows[k].taxonomy
             /\ Now(m, k)._value = rows[k]._value
             /\ Now(m, k).tag # 0 => trs[Now(m, k).tag].value = rows[k]._value
  <2>1. CASE k \in keys /\ k <= m
    BY <1>1, <2>1, ResyncedKeeps, ResyncedFits
  <2>2. CASE ~ (k \in keys /\ k <= m)
    BY <2>2
  <2> QED  BY <2>1, <2>2
<1>6. ASSUME NEW m \in 1 .. n, m - 1 \in S PROVE m \in S
  <2> DEFINE db == g[m - 1]
             row == Resynced(tx, trs, rows[m])
  <2>1. m \in 0 .. n /\ m - 1 \in 0 .. n /\ db \in Databases(trs, tx)
        /\ DOMAIN db.rows = DOMAIN rows
    BY <1>2, <1>3
  <2>2. ~ db.failed /\ \A k \in DOMAIN rows : db.rows[k] = Now(m - 1, k)
    BY <1>6
  <2>3. CASE m \notin keys
    <3>1. g[m] = db  BY <1>3, <2>3
    <3>2. \A k \in DOMAIN rows : Now(m, k) = Now(m - 1, k)
      <4>1. \A k \in DOMAIN rows : k \in keys => (k <= m <=> k <= m - 1)  BY <1>2, <2>3
      <4> QED  BY <4>1
    <3> HIDE DEF Now, db
    <3> QED  BY <2>1, <2>2, <3>1, <3>2
  <2>4. CASE m \in keys
    <3>1. m \in DOMAIN rows /\ m \in Nat \ {0} /\ ~ (m <= m - 1)  BY <1>2, <2>4
    <3>2. db.rows[m] = rows[m]  BY <2>2, <3>1
    <3>3. /\ row \in RowsOf(trs, tx) /\ row.object = rows[m].object
          /\ row.taxonomy = rows[m].taxonomy /\ rows[m].taxonomy # 0
          /\ row._value = rows[m]._value
          /\ row.tag # 0 => trs[row.tag].value = rows[m]._value
      BY <1>1, <2>4, <3>1, ResyncedKeeps, ResyncedFits
    <3>4. g[m] = IF row = rows[m] THEN db ELSE SaveRow(db, m, row)
      <4>1. g[m] = ResyncRow(tx, trs, db, m)  BY <1>3, <2>4
      <4> HIDE DEF db
      <4>2. ResyncRow(tx, trs, db, m) = IF Resynced(tx, trs, db.rows[m]) = db.rows[m] THEN db
                                        ELSE SaveRow(db, m, Resynced(tx, trs, db.rows[m]))
        BY <2>2 DEF ResyncRow
      <4> QED  BY <3>2, <4>1, <4>2
    <3> HIDE DEF row
    <3>5. ASSUME Clashes(db.rows, m, row) PROVE FALSE
      <4>1. PICK j \in DOMAIN rows \ {m} :
              /\ db.rows[j].object = row.object
              /\ row.taxonomy # 0 /\ db.rows[j].taxonomy = row.taxonomy
              /\ db.rows[j]._value = row._value \/ (row.tag # 0 /\ db.rows[j].tag = row.tag)
        BY <2>1, <3>5 DEF Clashes
      <4>2. /\ db.rows[j].object = rows[j].object /\ db.rows[j].taxonomy = rows[j].taxonomy
            /\ db.rows[j]._value = rows[j]._value
            /\ db.rows[j].tag # 0 => trs[db.rows[j].tag].value = rows[j]._value
        <5> HIDE DEF Now, db
        <5> QED  BY <1>5, <2>2
      <4>3. rows[j]._value = rows[m]._value  BY <3>3, <4>1, <4>2
      <4>4. Clashes(rows, m, rows[m])  BY <3>3, <4>1, <4>2, <4>3 DEF Clashes
      <4> QED  BY <1>1, <3>1, <4>4 DEF Unique
    <3>6. /\ ~ g[m].failed
          /\ \A j \in DOMAIN rows : g[m].rows[j] = IF j = m THEN row ELSE db.rows[j]
      <4>1. CASE row = rows[m]
        BY <2>2, <3>2, <3>4, <4>1
      <4>2. CASE row # rows[m]
        <5> HIDE DEF db
        <5>1. g[m] = SaveRow(db, m, row)  BY <3>4, <4>2
        <5>2. ~ SaveRow(db, m, row).failed
          <6>1. ~ (db.failed \/ Clashes(db.rows, m, row))  BY <2>2, <3>5
          <6>2. db = [rows |-> db.rows, failed |-> db.failed]  BY <2>1 DEF Databases
          <6> QED  BY <2>2, <6>1, <6>2 DEF SaveRow
        <5>3. ~ SaveRow(db, m, row).failed =>
                \A j \in DOMAIN db.rows \cup {m} :
                   SaveRow(db, m, row).rows[j] = IF j = m THEN row ELSE db.rows[j]
          BY <2>1, <3>1, <3>3, SavedRow
        <5> QED  BY <2>1, <5>1, <5>2, <5>3
      <4> QED  BY <4>1, <4>2
    <3>7. ASSUME NEW k \in DOMAIN rows PROVE g[m].rows[k] = Now(m, k)
      <4>1. CASE k = m
        BY <2>4, <3>1, <3>6, <4>1 DEF row
      <4>2. CASE k # m
        <5>1. k \in keys => (k <= m <=> k <= m - 1)  BY <1>2, <4>2
        <5>2. Now(m, k) = Now(m - 1, k)  BY <5>1
        <5> HIDE DEF Now
        <5> QED  BY <2>2, <3>6, <4>2, <5>2
      <4> QED  BY <4>1, <4>2
    <3> HIDE DEF Now
    <3> QED  BY <2>1, <3>6, <3>7
  <2> QED  BY <2>3, <2>4
<1>7. 0 .. n \subseteq S
  <2> HIDE DEF S
  <2> QED  BY <1>2, <1>4, <1>6, RoundByRound
<1>8. n \in S  BY <1>2, <1>7
<1>9. \A k \in keys : k <= n /\ k \in DOMAIN rows  BY <1>2
<1> QED  BY <1>8, <1>9 DEF n

\* The tag that a call adds is the only one with its value.
LEMMA RelinkedTo ==
    ASSUME NEW trs, NEW last, TreeOK(trs, last), NEW tx \in Taxonomy, ~ tx.settings.allow_free_text,
           NEW rows \in Tables(trs, tx), NEW keys \in SUBSET DOMAIN rows,
           \/ keys = {} /\ \A k \in DOMAIN rows : rows[k].taxonomy = 0
           \/ /\ keys # {}
              /\ \A k \in DOMAIN rows : k \in keys <=> rows[k].taxonomy # 0
              /\ \A k \in DOMAIN rows : rows[k].tag # 0 => rows[k]._value = trs[rows[k].tag].value,
           NEW t \in DOMAIN trs, NEW k \in DOMAIN rows, rows[k].tag = 0,
           rows[k]._value = trs[t].value,
           ResyncObjectTags(tx, trs, rows, keys)[k].taxonomy # 0
    PROVE  ResyncObjectTags(tx, trs, rows, keys)[k].tag = t
<1> DEFINE chosen == IF keys = {} THEN DOMAIN rows ELSE keys
           after == ResyncObjectTags(tx, trs, rows, keys)
<1>1. /\ DOMAIN trs \subseteq Nat /\ \A u \in DOMAIN trs : trs[u].value \in Values
      /\ \A u \in DOMAIN trs : trs[u].value = trs[t].value => u = t
  BY DEF TreeOK, GoodTree, RowOK
<1>2. \E g : /\ ResyncRounds(tx, trs, rows, chosen, g)
             /\ ResyncObjectTags(tx, trs, rows, keys) = g[LastOf(chosen)].rows
  BY <1>1, ResyncRuns
<1>3. /\ chosen \in SUBSET DOMAIN rows
      /\ keys = {} => chosen = DOMAIN rows
      /\ keys # {} => chosen = keys
  OBVIOUS
<1> HIDE DEF chosen
<1>4. PICK g : /\ ResyncRounds(tx, trs, rows, chosen, g)
               /\ after = g[LastOf(chosen)].rows
  BY <1>2
<1>5. \/ after[k] = rows[k]
      \/ after[k] = Resynced(tx, trs, rows[k])
  BY <1>1, <1>3, <1>4, ResyncedOrNot
<1>6. k \notin chosen => after[k] = rows[k]
  BY <1>1, <1>3, <1>4, ResyncedOrNot
<1> HIDE DEF after
<1>7. after[k] = Resynced(tx, trs, rows[k])
  <2>1. CASE keys = {}
    BY <1>5, <2>1 DEF after
  <2>2. CASE keys # {}
    <3>1. \A j \in chosen : rows[j].taxonomy # 0  BY <1>3, <2>2
    <3>2. \A j \in DOMAIN rows : rows[j].tag # 0 => rows[j]._value = trs[rows[j].tag].value
      BY <2>2
    <3>3. \A j \in chosen : g[LastOf(chosen)].rows[j] = Resynced(tx, trs, rows[j])
      BY <1>1, <1>3, <1>4, <3>1, <3>2, ResyncedAll
    <3>4. k \in chosen  BY <1>3, <1>6, <2>2 DEF after
    <3> QED  BY <1>4, <3>3, <3>4
  <2> QED  BY <2>1, <2>2
<1>8. rows[k] \in RowsOf(trs, tx)  BY TableType
<1>9. Resynced(tx, trs, rows[k]).tag = t
  <2> DEFINE row == rows[k]
  <2>1. Resynced(tx, trs, row).taxonomy # 0  BY <1>7 DEF after
  <2>2. row \in RowsOf(trs, tx) /\ row.tag = 0 /\ row._value = trs[t].value  BY <1>8
  <2>3. \A u \in DOMAIN trs : trs[u].value = row._value => u = t  BY <1>1, <2>2
  <2> HIDE DEF row
  <2>4. Resynced(tx, trs, row).tag = t  BY <2>1, <2>2, <2>3, ResyncedLinks
  <2> QED  BY <2>4 DEF row
<1> QED  BY <1>7, <1>9 DEF after

LEMMA ImportRelinks ==
    ASSUME ObjectTagsInv, ObjectTagsInv', NEW user, NEW s \in Settings, NEW value \in Values,
           ImportTaxonomy(user, s, value), NEW t \in DOMAIN tags', NEW k \in DOMAIN objectTags,
           objectTags[k].tag = 0, objectTags[k]._value = tags'[t].value,
           objectTags'[k].taxonomy # 0
    PROVE  objectTags'[k].tag = t
<1>1. /\ taxonomy = NoTaxonomy /\ DOMAIN tags = {} /\ ~ s.allow_free_text
      /\ taxonomy' = [id |-> lastTaxonomy + 1, settings |-> s]
      /\ objectTags' = ResyncObjectTags(taxonomy', tags', objectTags, {})
  BY DEF ImportTaxonomy, ObjectTagsInv
<1>2. TreeOK(tags', lastTag') /\ taxonomy' \in Taxonomy /\ ~ taxonomy'.settings.allow_free_text
  BY <1>1 DEF ObjectTagsInv, TagsOK, Taxonomy
<1>3. objectTags \in Tables(tags, taxonomy)  BY DEF ObjectTagsInv
<1>4. objectTags \in Tables(tags', taxonomy')
  <2>1. TaxonomyKeys(taxonomy) \subseteq TaxonomyKeys(taxonomy')
    BY <1>1 DEF TaxonomyKeys
  <2>2. DOMAIN tags \subseteq DOMAIN tags'  BY <1>1
  <2> QED  BY <1>3, <2>1, <2>2, TablesGrow
<1>5. \A j \in DOMAIN objectTags : objectTags[j].taxonomy = 0
  <2>1. objectTags \in [DOMAIN objectTags -> RowsOf(tags, taxonomy)]  BY <1>3, TableType
  <2>2. \A row \in RowsOf(tags, taxonomy) : row.taxonomy = 0
    BY <1>1 DEF RowsOf, TaxonomyKeys
  <2> QED  BY <2>1, <2>2
<1> DEFINE keys == {}
<1>6. keys \in SUBSET DOMAIN objectTags /\ keys = {}  OBVIOUS
<1>7. objectTags' = ResyncObjectTags(taxonomy', tags', objectTags, keys)  BY <1>1
<1> HIDE DEF keys
<1>8. ResyncObjectTags(taxonomy', tags', objectTags, keys)[k].taxonomy # 0  BY <1>7
<1>9. ResyncObjectTags(taxonomy', tags', objectTags, keys)[k].tag = t
  BY <1>2, <1>4, <1>5, <1>6, <1>8, RelinkedTo
<1> QED  BY <1>7, <1>9

LEMMA AddingRelinks ==
    ASSUME ObjectTagsInv, ObjectTagsInv', CacheInSync, NEW user, NEW value \in Values,
           NEW parent \in DOMAIN tags \cup {NoTag}, AddTagToTaxonomy(user, value, parent),
           NEW t \in DOMAIN tags', NEW k \in DOMAIN objectTags,
           objectTags[k].tag = 0, objectTags[k]._value = tags'[t].value,
           objectTags'[k].taxonomy # 0
    PROVE  objectTags'[k].tag = t
<1> DEFINE i == NewTag(tags, value, parent, NoExternalId)
<1>1. /\ taxonomy # NoTaxonomy /\ ~ taxonomy.settings.allow_free_text /\ CanSave(tags, i)
      /\ tags' = Saved(tags, lastTag, i) /\ taxonomy' = taxonomy
      /\ objectTags' = ResyncObjectTags(taxonomy, tags', objectTags, OfTaxonomy)
  BY DEF AddTagToTaxonomy, MayEditTags, Closed
<1>2. \A u \in DOMAIN tags : tags[u].value # value
  <2>1. i.pk = NoTag /\ i.value = value  BY DEF NewTag
  <2>2. NoTag \notin DOMAIN tags  BY DEF ObjectTagsInv, TagsOK, TreeOK, GoodTree
  <2> QED  BY <1>1, <2>1, <2>2 DEF CanSave
<1>3. \A u \in DOMAIN tags : u \in DOMAIN tags' /\ tags'[u] = tags[u]
  <2>1. TreeOK(tags, lastTag)  BY DEF ObjectTagsInv, TagsOK
  <2>2. tags' = WithTag(tags, lastTag, value, parent)  BY <1>1 DEF WithTag
  <2>3. \A u \in DOMAIN tags : /\ u \in DOMAIN WithTag(tags, lastTag, value, parent)
                               /\ WithTag(tags, lastTag, value, parent)[u] = tags[u]
    BY <1>2, <2>1, AddedTagOK
  <2> QED  BY <2>2, <2>3
<1>4. TreeOK(tags', lastTag') /\ taxonomy \in Taxonomy
  BY <1>1 DEF ObjectTagsInv, TagsOK
<1>5. objectTags \in Tables(tags, taxonomy)  BY DEF ObjectTagsInv
<1>6. objectTags \in Tables(tags', taxonomy)
  BY <1>3, <1>5, TablesGrow
<1>7. \A j \in DOMAIN objectTags : objectTags[j] \in RowsOf(tags, taxonomy)
  BY <1>5, TableType
<1>8. \A j \in DOMAIN objectTags : j \in OfTaxonomy <=> objectTags[j].taxonomy # 0
  BY <1>1, <1>4, <1>7 DEF RowsOf, TaxonomyKeys, OfTaxonomy, Taxonomy
<1>9. ASSUME NEW j \in DOMAIN objectTags, objectTags[j].tag # 0
      PROVE  objectTags[j]._value = tags'[objectTags[j].tag].value
  <2>1. objectTags[j].tag \in DOMAIN tags  BY <1>7, <1>9 DEF RowsOf
  <2>2. objectTags[j]._value = tags[objectTags[j].tag].value
    BY <1>9 DEF CacheInSync, ValueOf
  <2> QED  BY <1>3, <2>1, <2>2
<1>10. OfTaxonomy \in SUBSET DOMAIN objectTags  BY DEF OfTaxonomy
<1>11. ResyncObjectTags(taxonomy, tags', objectTags, OfTaxonomy)[k].taxonomy # 0  BY <1>1
<1>12. OfTaxonomy = {} => \A j \in DOMAIN objectTags : objectTags[j].taxonomy = 0  BY <1>8
<1>13. ResyncObjectTags(taxonomy, tags', objectTags, OfTaxonomy)[k].tag = t
  <2> DEFINE keys == OfTaxonomy
             trs == tags'
             last == lastTag'
  <2>1. /\ TreeOK(trs, last) /\ t \in DOMAIN trs /\ objectTags[k]._value = trs[t].value
        /\ objectTags \in Tables(trs, taxonomy) /\ keys \in SUBSET DOMAIN objectTags
        /\ ResyncObjectTags(taxonomy, trs, objectTags, keys)[k].taxonomy # 0
    BY <1>4, <1>6, <1>10, <1>11
  <2>2. \/ keys = {} /\ \A j \in DOMAIN objectTags : objectTags[j].taxonomy = 0
        \/ /\ keys # {}
           /\ \A j \in DOMAIN objectTags : j \in keys <=> objectTags[j].taxonomy # 0
           /\ \A j \in DOMAIN objectTags :
                 objectTags[j].tag # 0 => objectTags[j]._value = trs[objectTags[j].tag].value
    BY <1>8, <1>9, <1>12
  <2> HIDE DEF keys, trs, last
  <2>3. ResyncObjectTags(taxonomy, trs, objectTags, keys)[k].tag = t
    BY <1>1, <1>4, <2>1, <2>2, RelinkedTo
  <2> QED  BY <2>3 DEF keys, trs
<1> QED  BY <1>1, <1>13

\* The other steps add no tags.
LEMMA OnlyTheseAddTags ==
    ASSUME ObjectTagsInv, [ObjectTagsNext]_vars, NEW t \in DOMAIN tags' \ DOMAIN tags
    PROVE  \/ \E user \in Users, s \in Settings, value \in Values : ImportTaxonomy(user, s, value)
           \/ \E user \in Users, value \in Values, parent \in DOMAIN tags \cup {NoTag} :
                 AddTagToTaxonomy(user, value, parent)
<1>1. CASE tags' = tags  BY <1>1
<1>2. ASSUME NEW user, NEW u \in DOMAIN tags, NEW value \in Values,
             UpdateTagInTaxonomy(user, u, value)
      PROVE  FALSE
  <2> DEFINE i == RenamedTag(tags, u, value)
  <2>1. CanSave(tags, i) /\ tags' = Saved(tags, lastTag, i)
    BY <1>2 DEF UpdateTagInTaxonomy
  <2>2. \A x \in DOMAIN tags \ {u} : tags[x].value # value
    <3>1. i.pk = u /\ i.value = value  BY DEF RenamedTag
    <3> QED  BY <2>1, <3>1 DEF CanSave
  <2>3. DOMAIN tags' = DOMAIN tags
    BY <2>1, <2>2, RenamedTagOK DEF ObjectTagsInv, TagsOK
  <2> QED  BY <2>3
<1>3. ASSUME NEW user, NEW ts, NEW with_subtags, DeleteTagsFromTaxonomy(user, ts, with_subtags)
      PROVE  FALSE
  <2>1. tags' = Without(tags, ts)  BY <1>3 DEF DeleteTagsFromTaxonomy
  <2> QED  BY <2>1, TagsLeftOK DEF ObjectTagsInv, TagsOK
<1>4. ASSUME NEW user, DeleteTaxonomy(user) PROVE FALSE
  <2>1. taxonomy' = NoTaxonomy /\ tags' = << >> /\ objectTags' = SetNull(DOMAIN tags, TRUE)
    BY <1>4 DEF DeleteTaxonomy
  <2>2. DOMAIN tags' = {}  BY <2>1
  <2> QED  BY <2>2
<1>5. (\E user : \E s : CreateTaxonomy(user, s) \/ UpdateTaxonomy(user, s)) => tags' = tags
  BY DEF CreateTaxonomy, UpdateTaxonomy
<1>6. (\E src, dst : CopyTags(src, dst)) => tags' = tags
  <2>1. ASSUME NEW src, NEW dst, CopyTags(src, dst) PROVE tags' = tags
    BY <2>1 DEF CopyTags
  <2> QED  BY <2>1
<1>7. (\E o : UnmarkCopiedTags(o) \/ DeleteObjectTags(o)) => tags' = tags
  BY DEF UnmarkCopiedTags, DeleteObjectTags
<1>8. (\E o, values, export_id : TagObjectByExportId(o, values, export_id)) => tags' = tags
  BY DEF TagObjectByExportId
<1>9. TagObjectWrite => tags' = tags
  BY DEF TagObjectWrite
<1>10. (\E user, o, values, create_invalid : TagObject(user, o, values, create_invalid))
          => tags' = tags
  BY DEF TagObject
<1>11. UNCHANGED vars => tags' = tags
  BY DEF vars
<1> QED
  BY <1>1, <1>2, <1>3, <1>4, <1>5, <1>6, <1>7, <1>8, <1>9, <1>10, <1>11
     DEF ObjectTagsNext, OtherCalls

\* A tag that comes back is linked to the rows that kept its value.
THEOREM ReaddedAreRelinked == ObjectTagsSpec => ReaddedTagsAreRelinked
<1>1. ASSUME ObjectTagsInv, ObjectTagsInv', [ObjectTagsNext]_vars
      PROVE  \A t \in DOMAIN tags' \ DOMAIN tags :
                CacheInSync =>
                    \A k \in DOMAIN objectTags :
                        (/\ objectTags[k].tag = 0 /\ objectTags[k]._value = tags'[t].value
                         /\ objectTags'[k].taxonomy # 0)
                            => objectTags'[k].tag = t
  BY <1>1, OnlyTheseAddTags, ImportRelinks, AddingRelinks
<1> QED  BY <1>1, ObjectTagsInvariance, PTL DEF ObjectTagsSpec, ReaddedTagsAreRelinked

-----------------------------------------------------------------------------
(* What tag_object leaves                                                  *)

\* The rows that a plan starts from.
CurrentRows(o) == OfObject(o) \cap OfTaxonomy

\* A row that a value is applied by already: the cached value counts, and in a closed
\* taxonomy a tag.
Applied(k, value) == objectTags[k]._value = value /\ (FreeText \/ objectTags[k].tag # 0)

\* The key that a value is saved with, and the row.
KeyFor(value) ==
    LET same == {t \in DOMAIN tags : tags[t].value = value}
    IN  IF FreeText \/ same = {} THEN 0 ELSE CHOOSE t \in same : TRUE
RowFor(o, value) == NewObjectTag(o, KeyFor(value), value, FALSE)

LEMMA RowForValue ==
    ASSUME TagsOK, taxonomy \in Taxonomy, NEW o \in Objects, NEW value \in Values
    PROVE  /\ KeyFor(value) \in DOMAIN tags \cup {0}
           /\ KeyFor(value) # 0 => tags[KeyFor(value)].value = value
           /\ RowFor(o, value) \in RowsOf(tags, taxonomy)
           /\ RowFor(o, value).object = o /\ RowFor(o, value).taxonomy = taxonomy.id
           /\ RowFor(o, value).tag = KeyFor(value) /\ RowFor(o, value)._value = value
<1> DEFINE same == {t \in DOMAIN tags : tags[t].value = value}
           key == KeyFor(value)
<1>1. key = 0 \/ (key \in DOMAIN tags /\ tags[key].value = value)
  <2>1. key = 0 \/ (same # {} /\ key = CHOOSE t \in same : TRUE)  BY DEF KeyFor
  <2> QED  BY <2>1
<1>2. 0 \notin DOMAIN tags  BY DEF TagsOK, TreeOK, GoodTree, NoTag
<1> HIDE DEF key
<1> DEFINE new == NewObjectTag(o, key, value, FALSE)
<1>3. new \in RowsOf(tags, taxonomy) /\ new.object = o /\ new.taxonomy = taxonomy.id
      /\ new.tag = key
  <2> DEFINE copied == FALSE
  <2>1. copied \in BOOLEAN /\ new = NewObjectTag(o, key, value, copied)  OBVIOUS
  <2> HIDE DEF copied, new
  <2>2. key \in DOMAIN tags \cup {0} /\ value \in Values \cup {EmptyValue}  BY <1>1
  <2> QED  BY <2>1, <2>2, NewRow
<1>4. new._value = value
  BY <1>1, <1>2 DEF NewObjectTag
<1>5. RowFor(o, value) = new  BY DEF RowFor, key
<1> HIDE DEF new
<1> QED  BY <1>1, <1>3, <1>4, <1>5 DEF key

\* Under caches in sync a value is applied by the row that tag_object looks for.
LEMMA AppliedRows ==
    ASSUME TagsOK, taxonomy \in Taxonomy, objectTags \in Tables(tags, taxonomy), CacheInSync,
           NEW value \in Values, NEW k \in DOMAIN objectTags
    PROVE  (IF FreeText THEN ValueOf(objectTags[k]) = value
                        ELSE objectTags[k].tag = KeyFor(value) /\ KeyFor(value) # 0)
             <=> Applied(k, value)
<1> DEFINE row == objectTags[k]
           same == {t \in DOMAIN tags : tags[t].value = value}
<1>1. row.tag # 0 => row._value = tags[row.tag].value /\ ValueOf(row) = row._value
  BY DEF CacheInSync, ValueOf
<1>2. row.tag = 0 => ValueOf(row) = row._value  BY DEF ValueOf
<1>3. row.tag \in DOMAIN tags \cup {0}
  <2>1. row \in RowsOf(tags, taxonomy)  BY TableType
  <2> QED  BY <2>1 DEF RowsOf
<1> HIDE DEF row
<1>4. CASE FreeText
  BY <1>1, <1>2, <1>4 DEF Applied, row
<1>5. CASE ~ FreeText
  <2>1. \A t \in DOMAIN tags : tags[t].value = value => same = {t}
    BY DEF TagsOK, TreeOK, GoodTree
  <2>2. KeyFor(value) = IF same = {} THEN 0 ELSE CHOOSE t \in same : TRUE
    BY <1>5 DEF KeyFor
  <2>3. \A t \in DOMAIN tags : tags[t].value = value => KeyFor(value) = t
    BY <2>1, <2>2
  <2>4. KeyFor(value) # 0 => KeyFor(value) \in same
    BY <2>2
  <2>5. 0 \notin DOMAIN tags  BY DEF TagsOK, TreeOK, GoodTree, NoTag
  <2> QED  BY <1>1, <1>3, <1>5, <2>3, <2>4, <2>5 DEF Applied, row
<1> QED  BY <1>4, <1>5

\* No two rows of the object apply one value.
LEMMA AppliedOnce ==
    ASSUME taxonomy \in Taxonomy, objectTags \in Tables(tags, taxonomy), NEW o,
           NEW k \in CurrentRows(o), NEW j \in CurrentRows(o),
           objectTags[k]._value = objectTags[j]._value
    PROVE  k = j
<1>1. SUFFICES ASSUME k # j PROVE FALSE  OBVIOUS
<1>2. Unique(objectTags)  BY TableType
<1>3. /\ k \in DOMAIN objectTags /\ j \in DOMAIN objectTags
      /\ objectTags[k].object = objectTags[j].object
      /\ objectTags[k].taxonomy = taxonomy.id /\ objectTags[j].taxonomy = taxonomy.id
  BY DEF CurrentRows, OfObject, OfTaxonomy
<1>4. taxonomy.id # 0  BY DEF Taxonomy
<1>5. Clashes(objectTags, k, objectTags[k])
  BY <1>1, <1>3, <1>4 DEF Clashes
<1> QED  BY <1>2, <1>3, <1>5 DEF Unique

\* No row applies the value.
Missing(o, value) == \A k \in CurrentRows(o) : ~ Applied(k, value)

\* What is planned for the first n values.
PlannedFor(o, values, n, plan) ==
    /\ \A k : k \in plan.current <=>
          k \in CurrentRows(o) /\ \A m \in 1 .. n : ~ Applied(k, values[m])
    /\ \A i \in 1 .. Len(plan.saves) : \E m \in 1 .. n :
          /\ Missing(o, values[m]) /\ plan.saves[i].key = 0
          /\ plan.saves[i].row = RowFor(o, values[m])
    /\ \A m \in 1 .. n : Missing(o, values[m]) =>
          \E i \in 1 .. Len(plan.saves) : plan.saves[i].row = RowFor(o, values[m])
    /\ \A i, j \in 1 .. Len(plan.saves) :
          plan.saves[i].row._value = plan.saves[j].row._value => i = j

\* One round of the loop over the values.
LEMMA ValuePlanned ==
    ASSUME TagsOK, taxonomy \in Taxonomy, objectTags \in Tables(tags, taxonomy), CacheInSync,
           NEW o \in Objects, NEW values \in Seq(Values), IsInjective(values),
           NEW m \in 1 .. Len(values), NEW plan \in Plans,
           PlannedFor(o, values, m - 1, plan)
    PROVE  PlannedFor(o, values, m, TagStep(o, plan, values[m]))
<1> DEFINE value == values[m]
           same == {t \in DOMAIN tags : tags[t].value = value}
           key == IF FreeText \/ same = {} THEN 0 ELSE CHOOSE t \in same : TRUE
           applied == {k \in plan.current : IF FreeText THEN ValueOf(objectTags[k]) = value
                                                        ELSE objectTags[k].tag = key /\ key # 0}
           k == CHOOSE j \in applied : TRUE
           new == NewObjectTag(o, key, value, FALSE)
           added == Append(plan.saves, [key |-> 0, row |-> new])
           changed == Append(plan.saves,
                             [key |-> k, row |-> [objectTags[k] EXCEPT !._value = value]])
           after == TagStep(o, plan, value)
<1>1. /\ m \in Nat /\ m - 1 \in Nat /\ value \in Values /\ DOMAIN values = 1 .. Len(values)
      /\ \A j \in 1 .. m - 1 : values[j] \in Values /\ values[j] # value
  BY ListType DEF IsInjective
<1>2. /\ plan.current \subseteq DOMAIN objectTags /\ plan.saves \in Saves
      /\ plan = [current |-> plan.current, saves |-> plan.saves]
      /\ Len(plan.saves) \in Nat
  BY DEF Plans, Saves
<1>3. key = KeyFor(value)  BY DEF KeyFor
<1>4. new = RowFor(o, value)  BY DEF KeyFor, RowFor
<1>5. after = IF applied = {} THEN [plan EXCEPT !.saves = added]
              ELSE [current |-> plan.current \ {k},
                    saves |-> IF FreeText \/ objectTags[k]._value = value THEN plan.saves
                              ELSE changed]
  BY Zenon DEF TagStep
<1>6. \A j \in plan.current : j \in applied <=> Applied(j, value)
  <2> HIDE DEF value, key
  <2>1. \A j \in plan.current :
          (IF FreeText THEN ValueOf(objectTags[j]) = value
                       ELSE objectTags[j].tag = key /\ key # 0) <=> Applied(j, value)
    BY <1>1, <1>2, <1>3, AppliedRows
  <2> QED  BY <2>1
<1>7. applied \subseteq plan.current /\ (applied # {} => k \in applied)  OBVIOUS
<1> HIDE DEF value, key, applied, k, new, added, changed, after
<1>8. \A j \in plan.current : j \in CurrentRows(o)  BY DEF PlannedFor
<1>9. \A j \in CurrentRows(o) : Applied(j, value) => j \in plan.current
  <2>1. \A j, i : i \in 1 .. m - 1 /\ Applied(j, value) => ~ Applied(j, values[i])
    BY <1>1 DEF Applied
  <2> QED  BY <2>1 DEF PlannedFor
<1>10. applied = {} <=> Missing(o, value)
  BY <1>6, <1>7, <1>8, <1>9 DEF Missing
<1>11. \A i \in 1 .. m : i \in 1 .. m - 1 \/ i = m  BY <1>1
<1>12. \A i \in 1 .. m - 1 : i \in 1 .. m  BY <1>1
<1>13. m \in 1 .. m  BY <1>1
<1>14. CASE applied = {}
  <2>1. after.current = plan.current /\ after.saves = added
    BY <1>2, <1>5, <1>14
  <2> DEFINE s == plan.saves
             l == Len(s)
  <2>2. /\ Len(added) = l + 1 /\ \A i \in 1 .. l : added[i] = s[i]
        /\ added[l + 1].key = 0 /\ added[l + 1].row = new
    <3>1. new \in ObjectTag
      BY <1>1, <1>4, RowForValue DEF RowsOf
    <3> DEFINE zero == 0
    <3>2. zero \in Nat /\ zero = 0  OBVIOUS
    <3>3. added = Append(s, [key |-> zero, row |-> new])  BY DEF added
    <3> HIDE DEF zero
    <3>4. /\ Len(added) = l + 1 /\ \A i \in 1 .. l : added[i] = s[i]
          /\ added[l + 1] = [key |-> zero, row |-> new]
      BY <1>2, <3>1, <3>2, <3>3, AppendedSave
    <3> QED  BY <3>2, <3>4
  <2>3. l \in Nat /\ \A i \in 1 .. l + 1 : i \in 1 .. l \/ i = l + 1  BY <1>2
  <2>4. l + 1 \in 1 .. l + 1 /\ \A i \in 1 .. l : i \in 1 .. l + 1  BY <2>3
  <2> HIDE DEF s, l
  <2>5. \A j : j \in after.current <=>
           j \in CurrentRows(o) /\ \A i \in 1 .. m : ~ Applied(j, values[i])
    <3>1. \A j : j \in plan.current <=>
           j \in CurrentRows(o) /\ \A i \in 1 .. m - 1 : ~ Applied(j, values[i])
      BY DEF PlannedFor
    <3>2. \A j \in CurrentRows(o) : ~ Applied(j, values[m])
      BY <1>10, <1>14 DEF Missing, value
    <3> QED  BY <1>11, <1>12, <2>1, <3>1, <3>2
  <2>6. ASSUME NEW i \in 1 .. l + 1
        PROVE  \E j \in 1 .. m : /\ Missing(o, values[j]) /\ added[i].key = 0
                                 /\ added[i].row = RowFor(o, values[j])
    <3>1. CASE i \in 1 .. l
      <4>1. \E j \in 1 .. m - 1 : /\ Missing(o, values[j]) /\ s[i].key = 0
                                  /\ s[i].row = RowFor(o, values[j])
        BY <3>1 DEF PlannedFor, s, l
      <4> QED  BY <1>12, <2>2, <3>1, <4>1
    <3>2. CASE i = l + 1
      BY <1>4, <1>10, <1>13, <1>14, <2>2, <3>2 DEF value
    <3> QED  BY <2>3, <3>1, <3>2
  <2>7. ASSUME NEW j \in 1 .. m, Missing(o, values[j])
        PROVE  \E i \in 1 .. l + 1 : added[i].row = RowFor(o, values[j])
    <3>1. CASE j \in 1 .. m - 1
      <4>1. \E i \in 1 .. l : s[i].row = RowFor(o, values[j])
        BY <2>7, <3>1 DEF PlannedFor, s, l
      <4> QED  BY <2>2, <2>4, <4>1
    <3>2. CASE j = m
      BY <1>4, <2>2, <2>4, <3>2 DEF value
    <3> QED  BY <1>11, <3>1, <3>2
  <2>8. ASSUME NEW i \in 1 .. l PROVE s[i].row._value # value
    <3>1. PICK j \in 1 .. m - 1 : s[i].row = RowFor(o, values[j])
      BY DEF PlannedFor, s, l
    <3>2. s[i].row._value = values[j]  BY <1>1, <3>1, RowForValue
    <3> QED  BY <1>1, <3>2
  <2>9. new._value = value  BY <1>1, <1>4, RowForValue
  <2>10. \A i, j \in 1 .. l + 1 : added[i].row._value = added[j].row._value => i = j
    <3>1. \A i, j \in 1 .. l : s[i].row._value = s[j].row._value => i = j
      BY DEF PlannedFor, s, l
    <3> QED  BY <2>2, <2>3, <2>8, <2>9, <3>1
  <2>11. PlannedFor(o, values, m, after)
    <3>1. after.saves = added /\ Len(added) = l + 1  BY <2>1, <2>2
    <3> QED  BY <2>5, <2>6, <2>7, <2>10, <3>1 DEF PlannedFor
  <2> QED  BY <2>11 DEF after, value
<1>15. CASE applied # {}
  <2>1. k \in plan.current /\ Applied(k, value)  BY <1>6, <1>7, <1>15
  <2>2. FreeText \/ objectTags[k]._value = value  BY <2>1 DEF Applied
  <2>3. after.current = plan.current \ {k} /\ after.saves = plan.saves
    BY <1>5, <1>15, <2>2
  <2>4. \A j \in CurrentRows(o) : Applied(j, value) <=> j = k
    <3>1. \A j \in CurrentRows(o) : Applied(j, value) => objectTags[j]._value = objectTags[k]._value
      BY <2>1 DEF Applied
    <3> QED  BY <1>8, <2>1, <3>1, AppliedOnce
  <2>5. \A j : j \in after.current <=>
           j \in CurrentRows(o) /\ \A i \in 1 .. m : ~ Applied(j, values[i])
    <3>1. \A j : j \in plan.current <=>
           j \in CurrentRows(o) /\ \A i \in 1 .. m - 1 : ~ Applied(j, values[i])
      BY DEF PlannedFor
    <3> QED  BY <1>11, <1>12, <1>13, <2>3, <2>4, <3>1 DEF value
  <2>6. ASSUME NEW i \in 1 .. Len(plan.saves)
        PROVE  \E j \in 1 .. m : /\ Missing(o, values[j]) /\ plan.saves[i].key = 0
                                 /\ plan.saves[i].row = RowFor(o, values[j])
    <3>1. \E j \in 1 .. m - 1 : /\ Missing(o, values[j]) /\ plan.saves[i].key = 0
                                /\ plan.saves[i].row = RowFor(o, values[j])
      BY DEF PlannedFor
    <3> QED  BY <1>12, <3>1
  <2>7. ASSUME NEW j \in 1 .. m, Missing(o, values[j])
        PROVE  \E i \in 1 .. Len(plan.saves) : plan.saves[i].row = RowFor(o, values[j])
    <3>1. j # m  BY <1>10, <1>15, <2>7 DEF value
    <3> QED  BY <1>11, <2>7, <3>1 DEF PlannedFor
  <2>8. PlannedFor(o, values, m, after)
    <3>1. \A i, j \in 1 .. Len(plan.saves) :
             plan.saves[i].row._value = plan.saves[j].row._value => i = j
      BY DEF PlannedFor
    <3> QED  BY <2>3, <2>5, <2>6, <2>7, <3>1 DEF PlannedFor
  <2> QED  BY <2>8 DEF after, value
<1> QED  BY <1>14, <1>15

\* A list ends where it is long.
LEMMA LastPosition ==
    ASSUME NEW n \in Nat
    PROVE  LastOf(1 .. n) = n
<1> DEFINE keys == 1 .. n
           S == keys \cup {0}
<1>1. n \in S /\ \A y \in S : n >= y  OBVIOUS
<1>2. \A x \in S : (\A y \in S : x >= y) => x = n  BY <1>1
<1> HIDE DEF S
<1>3. LastOf(keys) = n  BY <1>1, <1>2 DEF LastOf, Max, S
<1> QED  BY <1>3

\* The loop over the values plans a row for each that is missing, and keeps the others.
LEMMA PlanIsRight ==
    ASSUME TagsOK, taxonomy \in Taxonomy, objectTags \in Tables(tags, taxonomy), CacheInSync,
           NEW o \in Objects, NEW values \in Seq(Values), IsInjective(values)
    PROVE  Plan(o, values) \in Plans /\ PlannedFor(o, values, Len(values), Plan(o, values))
<1> DEFINE start == [current |-> OfObject(o) \cap OfTaxonomy, saves |-> << >>]
           n == LastOf(DOMAIN values)
<1>1. start \in Plans /\ start.current = CurrentRows(o) /\ Len(start.saves) = 0
  BY DEF Plans, Saves, OfObject, CurrentRows
<1>2. Plan(o, values)
        = ForEach(DOMAIN values, LAMBDA plan, m : TagStep(o, plan, values[m]), start)
  BY DEF Plan, ForEach
<1> HIDE DEF start
<1>3. PICK g : /\ PlanRounds(o, values, start, g)
               /\ Plan(o, values) = g[LastOf(DOMAIN values)]
  BY <1>1, <1>2, PlanRuns
<1>4. Len(values) \in Nat /\ DOMAIN values = 1 .. Len(values)
      /\ \A m \in 1 .. Len(values) : values[m] \in Values
  BY ListType
<1>5. n \in Nat /\ n = Len(values)  BY <1>4, LastPosition
<1>6. /\ \A m \in 0 .. n : g[m] \in Plans
      /\ g[0] = start
      /\ \A m \in 1 .. n : g[m] = IF m \in DOMAIN values THEN TagStep(o, g[m - 1], values[m])
                                  ELSE g[m - 1]
  BY <1>3 DEF PlanRounds
<1> HIDE DEF n
<1> DEFINE S == {m \in 0 .. n : PlannedFor(o, values, m, g[m])}
<1>7. 0 \in S
  <2>1. 1 .. 0 = {}  OBVIOUS
  <2>2. PlannedFor(o, values, 0, start)  BY <1>1, <2>1 DEF PlannedFor
  <2> QED  BY <1>5, <1>6, <2>2
<1>8. ASSUME NEW m \in 1 .. n, m - 1 \in S PROVE m \in S
  <2>1. /\ m \in 0 .. n /\ m - 1 \in 0 .. n /\ g[m - 1] \in Plans /\ values[m] \in Values
        /\ g[m] = TagStep(o, g[m - 1], values[m]) /\ PlannedFor(o, values, m - 1, g[m - 1])
    BY <1>4, <1>5, <1>6, <1>8
  <2>2. PlannedFor(o, values, m, g[m])
    BY <1>4, <1>5, <2>1, ValuePlanned
  <2> QED  BY <2>1, <2>2
<1>9. 0 .. n \subseteq S
  <2> HIDE DEF S
  <2> QED  BY <1>5, <1>7, <1>8, RoundByRound
<1>10. n \in 0 .. n  BY <1>5
<1> QED  BY <1>3, <1>5, <1>6, <1>9, <1>10 DEF n

\* What the loop has saved after n rounds: what was kept is as it was, and the rest are
\* the rows of the plan.
SavedSoFar(kept, saves, n, db) ==
    /\ ~ db.failed
    /\ \A k \in DOMAIN kept : k \in DOMAIN db.rows /\ db.rows[k] = kept[k]
    /\ \A k \in DOMAIN db.rows \ DOMAIN kept : \E i \in 1 .. n : db.rows[k] = saves[i].row
    /\ \A i \in 1 .. n : \E k \in DOMAIN db.rows \ DOMAIN kept : db.rows[k] = saves[i].row

\* Two rows that no unique constraint keeps apart.
Apart(row, other) ==
    (row.object = other.object /\ row.taxonomy = other.taxonomy) =>
        row._value # other._value /\ (row.tag # 0 => row.tag # other.tag)

\* A new row that nothing is in the way of is saved.
LEMMA NewRowSaved ==
    ASSUME CallOK, taxonomy \in Taxonomy, NEW db \in Databases(tags, taxonomy), ~ db.failed,
           NEW save, save.key = 0, save.row \in RowsOf(tags, taxonomy),
           save.row.taxonomy = taxonomy.id,
           \A k \in DOMAIN db.rows : Apart(save.row, db.rows[k])
    PROVE  /\ ~ CleanAndSave(db, save).failed
           /\ \E free : /\ free \notin DOMAIN db.rows
                        /\ DOMAIN CleanAndSave(db, save).rows = DOMAIN db.rows \cup {free}
                        /\ \A j \in DOMAIN db.rows \cup {free} : CleanAndSave(db, save).rows[j]
                              = IF j = free THEN save.row ELSE db.rows[j]
<1> DEFINE row == save.row
           free == FreeKey(db.rows)
<1>1. DOMAIN db.rows \in KeySets /\ db.rows \in Tables(tags, taxonomy)
      /\ db = [rows |-> db.rows, failed |-> db.failed]
  BY TableType DEF Databases
<1>2. free \in Nat \ {0} /\ free \notin DOMAIN db.rows  BY <1>1, FreeKeyIsFree DEF CallOK
<1> HIDE DEF free
<1>3. taxonomy # NoTaxonomy /\ row.tag \in DOMAIN tags \cup {0}
  BY ObjectTagsAssumption DEF RowsOf
<1>4. CleanAndSave(db, save) = SaveRow(db, free, row)
  BY <1>3 DEF CleanAndSave, free
<1>5. ~ Clashes(db.rows, free, row)
  BY DEF Clashes, Apart
<1> HIDE DEF row
<1>6. ~ SaveRow(db, free, row).failed
  <2> DEFINE rows == [j \in DOMAIN db.rows \cup {free} |-> IF j = free THEN row ELSE db.rows[j]]
  <2>1. SaveRow(db, free, row) = [db EXCEPT !.rows = rows]  BY <1>5 DEF SaveRow
  <2> HIDE DEF rows
  <2>2. [db EXCEPT !.rows = rows] = [rows |-> rows, failed |-> db.failed]  BY <1>1
  <2> QED  BY <2>1, <2>2
<1>7. row \in RowsOf(tags, taxonomy)  BY DEF row
<1>8. /\ DOMAIN SaveRow(db, free, row).rows = DOMAIN db.rows \cup {free}
      /\ \A j \in DOMAIN db.rows \cup {free} :
            SaveRow(db, free, row).rows[j] = IF j = free THEN row ELSE db.rows[j]
  BY <1>2, <1>6, <1>7, SavedRow
<1> QED  BY <1>2, <1>4, <1>6, <1>8 DEF row

\* No row that is kept, and none that is saved, is in the way of a row of the plan.
LEMMA NothingInTheWay ==
    ASSUME TagsOK, taxonomy \in Taxonomy, objectTags \in Tables(tags, taxonomy), CacheInSync,
           NEW o \in Objects, NEW values \in Seq(Values), NEW plan,
           PlannedFor(o, values, Len(values), plan), NEW i \in 1 .. Len(plan.saves)
    PROVE  /\ plan.saves[i].key = 0 /\ plan.saves[i].row \in RowsOf(tags, taxonomy)
           /\ plan.saves[i].row.taxonomy = taxonomy.id /\ plan.saves[i].row.object = o
           /\ \A k \in DOMAIN objectTags \ plan.current :
                 Apart(plan.saves[i].row, objectTags[k])
           /\ \A j \in 1 .. Len(plan.saves) :
                 i # j => Apart(plan.saves[i].row, plan.saves[j].row)
<1> DEFINE IsPlanned(j, m) == Missing(o, values[m]) /\ plan.saves[j].key = 0
                              /\ plan.saves[j].row = RowFor(o, values[m])
<1>1. \A j \in 1 .. Len(plan.saves) : \E m \in 1 .. Len(values) : IsPlanned(j, m)
  BY DEF PlannedFor
<1>2. \A m \in 1 .. Len(values) : values[m] \in Values  BY ListType
<1>3. ASSUME NEW j \in 1 .. Len(plan.saves)
      PROVE  /\ plan.saves[j].row \in RowsOf(tags, taxonomy)
             /\ plan.saves[j].row.taxonomy = taxonomy.id /\ plan.saves[j].row.object = o
             /\ plan.saves[j].row.tag # 0 =>
                   tags[plan.saves[j].row.tag].value = plan.saves[j].row._value
  <2>1. PICK m \in 1 .. Len(values) : IsPlanned(j, m)  BY <1>1
  <2> QED  BY <1>2, <2>1, RowForValue
<1>4. PICK m \in 1 .. Len(values) : IsPlanned(i, m)  BY <1>1
<1>5. plan.saves[i].row._value = values[m]  BY <1>2, <1>4, RowForValue
<1> DEFINE row == plan.saves[i].row
<1>6. ASSUME NEW k \in DOMAIN objectTags \ plan.current PROVE Apart(row, objectTags[k])
  <2>1. SUFFICES ASSUME objectTags[k].object = o, objectTags[k].taxonomy = taxonomy.id
                 PROVE  /\ row._value # objectTags[k]._value
                        /\ row.tag # 0 => row.tag # objectTags[k].tag
    BY <1>3 DEF Apart
  <2>2. k \in CurrentRows(o)  BY <2>1 DEF CurrentRows, OfObject, OfTaxonomy
  <2>3. FreeText \/ objectTags[k].tag # 0
    <3>1. \E x \in 1 .. Len(values) : Applied(k, values[x])  BY <2>2 DEF PlannedFor
    <3> QED  BY <3>1 DEF Applied
  <2>4. ~ Applied(k, values[m])  BY <1>4, <2>2 DEF Missing
  <2>5. objectTags[k]._value # values[m]  BY <2>3, <2>4 DEF Applied
  <2>6. objectTags[k].tag # 0 => objectTags[k]._value = tags[objectTags[k].tag].value
    BY DEF CacheInSync, ValueOf
  <2>7. row.tag # 0 => tags[row.tag].value = row._value  BY <1>3
  <2> QED  BY <1>5, <2>5, <2>6, <2>7
<1>7. ASSUME NEW j \in 1 .. Len(plan.saves), i # j PROVE Apart(row, plan.saves[j].row)
  <2>1. row._value # plan.saves[j].row._value  BY <1>7 DEF PlannedFor
  <2>2. /\ row.tag # 0 => tags[row.tag].value = row._value
        /\ plan.saves[j].row.tag # 0 =>
              tags[plan.saves[j].row.tag].value = plan.saves[j].row._value
    BY <1>3
  <2> QED  BY <2>1, <2>2 DEF Apart
<1> QED  BY <1>3, <1>4, <1>6, <1>7

\* The loop saves every row of the plan.
LEMMA PlanSaved ==
    ASSUME TagsOK, CallOK, taxonomy \in Taxonomy, objectTags \in Tables(tags, taxonomy),
           CacheInSync, NEW o \in Objects, NEW values \in Seq(Values), NEW plan \in Plans,
           PlannedFor(o, values, Len(values), plan),
           NEW kept, DOMAIN kept = DOMAIN objectTags \ plan.current,
           \A k \in DOMAIN kept : kept[k] = objectTags[k],
           NEW g, SaveRounds([rows |-> kept, failed |-> FALSE], plan.saves, g)
    PROVE  SavedSoFar(kept, plan.saves, Len(plan.saves), g[LastOf(DOMAIN plan.saves)])
<1> DEFINE saves == plan.saves
           l == Len(saves)
           n == LastOf(DOMAIN saves)
           start == [rows |-> kept, failed |-> FALSE]
           S == {k \in 0 .. n : SavedSoFar(kept, saves, k, g[k])}
<1>1. l \in Nat /\ DOMAIN saves = 1 .. l
  <2>1. saves \in Seq([key : Nat, row : ObjectTag])  BY DEF Plans, Saves
  <2> HIDE DEF saves
  <2> QED  BY <2>1, ListType
<1>2. n \in Nat /\ n = l  BY <1>1, LastPosition
<1>3. /\ \A k \in 0 .. n : g[k] \in Databases(tags, taxonomy)
      /\ g[0] = start
      /\ \A k \in 1 .. n : g[k] = IF k \in DOMAIN saves THEN CleanAndSave(g[k - 1], saves[k])
                                  ELSE g[k - 1]
  BY DEF SaveRounds
<1>4. start.rows = kept /\ ~ start.failed  OBVIOUS
<1> HIDE DEF start, n
<1>5. 0 \in S
  <2>1. 1 .. 0 = {}  OBVIOUS
  <2>2. SavedSoFar(kept, saves, 0, start)  BY <1>4, <2>1 DEF SavedSoFar
  <2> QED  BY <1>2, <1>3, <2>2
<1>6. ASSUME NEW k \in 1 .. n, k - 1 \in S PROVE k \in S
  <2> DEFINE db == g[k - 1]
             row == saves[k].row
  <2>1. /\ k \in Nat /\ k - 1 \in Nat /\ k \in 0 .. n /\ k - 1 \in 0 .. n
        /\ k \in 1 .. l /\ k \in 1 .. k /\ db \in Databases(tags, taxonomy)
        /\ g[k] = CleanAndSave(db, saves[k]) /\ SavedSoFar(kept, saves, k - 1, db)
    BY <1>1, <1>2, <1>3, <1>6
  <2>2. \A i \in 1 .. k : i \in 1 .. k - 1 \/ i = k  BY <2>1
  <2>3. \A i \in 1 .. k - 1 : i \in 1 .. k /\ i \in 1 .. l /\ i # k  BY <2>1, <1>1
  <2>4. /\ saves[k].key = 0 /\ row \in RowsOf(tags, taxonomy) /\ row.taxonomy = taxonomy.id
        /\ \A j \in DOMAIN objectTags \ plan.current : Apart(row, objectTags[j])
        /\ \A i \in 1 .. l : k # i => Apart(row, saves[i].row)
    BY <2>1, NothingInTheWay
  <2> HIDE DEF db, S
  <2>5. ASSUME NEW j \in DOMAIN db.rows PROVE Apart(row, db.rows[j])
    <3>1. CASE j \in DOMAIN kept
      <4>1. db.rows[j] = objectTags[j]  BY <2>1, <3>1 DEF SavedSoFar
      <4> QED  BY <2>4, <3>1, <4>1
    <3>2. CASE j \notin DOMAIN kept
      <4>1. PICK i \in 1 .. k - 1 : db.rows[j] = saves[i].row
        BY <2>1, <3>2 DEF SavedSoFar
      <4>2. i \in 1 .. l /\ k # i  BY <2>3
      <4> QED  BY <2>4, <4>1, <4>2
    <3> QED  BY <3>1, <3>2
  <2>6. ~ db.failed  BY <2>1 DEF SavedSoFar
  <2> HIDE DEF row
  <2>7. /\ ~ g[k].failed
        /\ \E free : /\ free \notin DOMAIN db.rows
                     /\ DOMAIN g[k].rows = DOMAIN db.rows \cup {free}
                     /\ \A j \in DOMAIN db.rows \cup {free} :
                           g[k].rows[j] = IF j = free THEN row ELSE db.rows[j]
    <3> DEFINE save == saves[k]
               new == CleanAndSave(db, save)
    <3>1. save.key = 0 /\ save.row = row /\ g[k] = new  BY <2>1, <2>4 DEF row
    <3> HIDE DEF save, saves
    <3>2. /\ ~ new.failed
          /\ \E free : /\ free \notin DOMAIN db.rows
                       /\ DOMAIN new.rows = DOMAIN db.rows \cup {free}
                       /\ \A j \in DOMAIN db.rows \cup {free} :
                             new.rows[j] = IF j = free THEN save.row ELSE db.rows[j]
      BY <2>1, <2>4, <2>5, <2>6, <3>1, NewRowSaved
    <3> HIDE DEF new
    <3> QED  BY <3>1, <3>2
  <2>8. PICK free : /\ free \notin DOMAIN db.rows
                    /\ DOMAIN g[k].rows = DOMAIN db.rows \cup {free}
                    /\ \A j \in DOMAIN db.rows \cup {free} :
                          g[k].rows[j] = IF j = free THEN row ELSE db.rows[j]
    BY <2>7
  <2>9. /\ \A j \in DOMAIN kept : j \in DOMAIN db.rows /\ db.rows[j] = kept[j]
        /\ \A j \in DOMAIN db.rows \ DOMAIN kept : \E i \in 1 .. k - 1 : db.rows[j] = saves[i].row
        /\ \A i \in 1 .. k - 1 : \E j \in DOMAIN db.rows \ DOMAIN kept : db.rows[j] = saves[i].row
    BY <2>1 DEF SavedSoFar
  <2> DEFINE rows == g[k].rows
  <2>10. \A j \in DOMAIN kept : j \in DOMAIN rows /\ rows[j] = kept[j]
    BY <2>8, <2>9
  <2>11. ASSUME NEW j \in DOMAIN rows \ DOMAIN kept
         PROVE  \E i \in 1 .. k : rows[j] = saves[i].row
    <3>1. CASE j = free
      BY <2>1, <2>8, <3>1 DEF row
    <3>2. CASE j # free
      <4>1. j \in DOMAIN db.rows \ DOMAIN kept /\ rows[j] = db.rows[j]  BY <2>8, <3>2
      <4> QED  BY <2>3, <2>9, <4>1
    <3> QED  BY <3>1, <3>2
  <2>12. ASSUME NEW i \in 1 .. k
         PROVE  \E j \in DOMAIN rows \ DOMAIN kept : rows[j] = saves[i].row
    <3>1. CASE i = k
      <4>1. free \in DOMAIN rows /\ free \notin DOMAIN kept /\ rows[free] = row
        BY <2>8, <2>9
      <4> QED  BY <3>1, <4>1 DEF row
    <3>2. CASE i \in 1 .. k - 1
      <4>1. PICK j \in DOMAIN db.rows \ DOMAIN kept : db.rows[j] = saves[i].row
        BY <2>9, <3>2
      <4>2. j \in DOMAIN rows /\ rows[j] = db.rows[j]  BY <2>8, <4>1
      <4> QED  BY <4>1, <4>2
    <3> QED  BY <2>2, <3>1, <3>2
  <2>13. SavedSoFar(kept, saves, k, g[k])
    BY <2>7, <2>10, <2>11, <2>12 DEF SavedSoFar
  <2> QED  BY <2>1, <2>13 DEF S
<1>7. 0 .. n \subseteq S
  <2> HIDE DEF S
  <2> QED  BY <1>2, <1>5, <1>6, RoundByRound
<1>8. n \in 0 .. n  BY <1>2
<1> QED  BY <1>2, <1>7, <1>8 DEF n

\* What a write with a plan that is still right leaves.
LEMMA PlanWritten ==
    ASSUME ObjectTagsInv, TagObjectWrite, taxonomy # NoTaxonomy, CacheInSync,
           call.plan = Plan(call.object, call.values)
    PROVE  LET plan == call.plan
               values == call.values
           IN  /\ values \in Seq(Values) /\ IsInjective(values) /\ plan \in Plans
               /\ PlannedFor(call.object, values, Len(values), plan)
               /\ SavedSoFar([k \in DOMAIN objectTags \ plan.current |-> objectTags[k]],
                             plan.saves, Len(plan.saves),
                             [rows |-> objectTags', failed |-> FALSE])
<1> DEFINE o == call.object
           values == call.values
           plan == call.plan
           saves == plan.saves
           kept == [k \in DOMAIN objectTags \ plan.current |-> objectTags[k]]
           db == ForEach(DOMAIN saves, LAMBDA d, n : CleanAndSave(d, saves[n]), Working(kept))
           start == Working(kept)
<1>1. call # NoCall /\ objectTags' = IF db.failed THEN objectTags ELSE db.rows
  BY DEF TagObjectWrite
<1>2. /\ TagsOK /\ CallOK /\ taxonomy \in Taxonomy /\ objectTags \in Tables(tags, taxonomy)
      /\ o \in Objects /\ values \in TagLists
  BY <1>1 DEF ObjectTagsInv, CallOK
<1>3. values \in Seq(Values) /\ IsInjective(values)  BY <1>2, ObjectTagsAssumption
<1>4. plan \in Plans /\ PlannedFor(o, values, Len(values), plan)
  <2> HIDE DEF o, values, plan
  <2>1. plan = Plan(o, values)  BY DEF o, values, plan
  <2> QED  BY <1>2, <1>3, <2>1, PlanIsRight
<1>5. saves \in Saves  BY <1>4 DEF Plans
<1>6. /\ kept \in Tables(tags, taxonomy) /\ DOMAIN kept = DOMAIN objectTags \ plan.current
      /\ \A k \in DOMAIN kept : kept[k] = objectTags[k]
  BY <1>2, KeptRows
<1> HIDE DEF o, values, kept, plan
<1>7. start = [rows |-> kept, failed |-> FALSE]  BY DEF Working
<1>8. start \in Databases(tags, taxonomy)  BY <1>6, WorkingDb
<1> HIDE DEF start
<1>9. PICK g : /\ SaveRounds(start, saves, g)
               /\ ForEach(DOMAIN saves, LAMBDA d, n : CleanAndSave(d, saves[n]), start)
                    = g[LastOf(DOMAIN saves)]
  BY <1>2, <1>5, <1>8, SavesRun
<1>10. db = g[LastOf(DOMAIN saves)]  BY <1>9 DEF start
<1> HIDE DEF db
<1>11. SaveRounds([rows |-> kept, failed |-> FALSE], saves, g)  BY <1>7, <1>9
<1>12. SavedSoFar(kept, saves, Len(saves), db)
  BY <1>2, <1>3, <1>4, <1>6, <1>10, <1>11, PlanSaved
<1> DEFINE after == [rows |-> objectTags', failed |-> FALSE]
<1>13. ~ db.failed /\ after.rows = db.rows /\ ~ after.failed
  BY <1>1, <1>12 DEF SavedSoFar
<1> HIDE DEF after
<1>14. SavedSoFar(kept, saves, Len(saves), after)
  BY <1>12, <1>13 DEF SavedSoFar
<1> QED  BY <1>3, <1>4, <1>14 DEF o, values, plan, kept, after

\* The rows of the object are one for each value, and those that were right are as they
\* were.
LEMMA WriteIsExact ==
    ASSUME ObjectTagsInv, ObjectTagsInv', TagObjectWrite, taxonomy # NoTaxonomy, CacheInSync,
           call.plan = Plan(call.object, call.values)
    PROVE  LET o == call.object
               left == {k \in OfTaxonomy' : objectTags'[k].object = o}
           IN  /\ {ValueOf(objectTags[k])' : k \in left} = Range(call.values)
               /\ Cardinality(left) = Len(call.values)
               /\ \A k \in Shown(o) : ValueOf(objectTags[k]) \in Range(call.values) =>
                     \E j \in left : /\ objectTags'[j].tag = objectTags[k].tag
                                     /\ objectTags'[j].is_copied = objectTags[k].is_copied
<1> DEFINE o == call.object
           values == call.values
           plan == call.plan
           saves == plan.saves
           l == Len(values)
           left == {k \in OfTaxonomy' : objectTags'[k].object = o}
           kept == [k \in DOMAIN objectTags \ plan.current |-> objectTags[k]]
           after == [rows |-> objectTags', failed |-> FALSE]
<1>1. /\ values \in Seq(Values) /\ IsInjective(values) /\ plan \in Plans
      /\ PlannedFor(o, values, l, plan)
      /\ SavedSoFar(kept, saves, Len(saves), after)
  BY PlanWritten
<1>2. /\ TagsOK /\ taxonomy \in Taxonomy /\ objectTags \in Tables(tags, taxonomy)
      /\ o \in Objects /\ tags' = tags /\ taxonomy' = taxonomy
  BY DEF ObjectTagsInv, CallOK, TagObjectWrite
<1>3. /\ DOMAIN kept = DOMAIN objectTags \ plan.current
      /\ \A k \in DOMAIN kept : kept[k] = objectTags[k]
  OBVIOUS
<1>4. after.rows = objectTags'  OBVIOUS
<1>5. \A k : k \in left <=> /\ k \in DOMAIN objectTags' /\ objectTags'[k].taxonomy = taxonomy.id
                            /\ objectTags'[k].object = o
  BY <1>2 DEF OfTaxonomy
<1> HIDE DEF after, kept, left
<1>6. /\ \A k \in DOMAIN kept : k \in DOMAIN objectTags' /\ objectTags'[k] = objectTags[k]
      /\ \A k \in DOMAIN objectTags' \ DOMAIN kept :
            \E i \in 1 .. Len(saves) : objectTags'[k] = saves[i].row
      /\ \A i \in 1 .. Len(saves) : \E k \in DOMAIN objectTags' : objectTags'[k] = saves[i].row
  BY <1>1, <1>3, <1>4 DEF SavedSoFar
<1> HIDE DEF o, values, plan
<1>7. l \in Nat /\ DOMAIN values = 1 .. l /\ \A m \in 1 .. l : values[m] \in Values
  BY <1>1, ListType
<1>8. \A k \in DOMAIN kept : k \in CurrentRows(o) => \E m \in 1 .. l : Applied(k, values[m])
  BY <1>1, <1>3 DEF PlannedFor
<1>9. \A k \in CurrentRows(o), m \in 1 .. l :
         Applied(k, values[m]) => k \in left /\ objectTags'[k] = objectTags[k]
  <2>1. SUFFICES ASSUME NEW k \in CurrentRows(o), NEW m \in 1 .. l, Applied(k, values[m])
                 PROVE  k \in left /\ objectTags'[k] = objectTags[k]
    OBVIOUS
  <2>2. k \in DOMAIN objectTags /\ objectTags[k].taxonomy = taxonomy.id
        /\ objectTags[k].object = o
    BY DEF CurrentRows, OfObject, OfTaxonomy
  <2>3. k \notin plan.current  BY <1>1, <2>1 DEF PlannedFor
  <2>4. k \in DOMAIN kept  BY <1>3, <2>2, <2>3
  <2> QED  BY <1>5, <1>6, <2>2, <2>4
<1>10. \A k : objectTags'[k].tag = 0 => ValueOf(objectTags[k])' = objectTags'[k]._value
  BY DEF ValueOf
<1>11. \A k : objectTags'[k].tag # 0 => ValueOf(objectTags[k])' = tags[objectTags'[k].tag].value
  BY <1>2 DEF ValueOf
<1>12. ASSUME NEW k \in left
       PROVE  \E m \in 1 .. l : /\ objectTags'[k]._value = values[m]
                                /\ ValueOf(objectTags[k])' = values[m]
  <2>1. CASE k \in DOMAIN kept
    <3>1. k \in DOMAIN objectTags /\ objectTags'[k] = objectTags[k]  BY <1>3, <1>6, <2>1
    <3>2. k \in CurrentRows(o)
      BY <1>5, <3>1 DEF CurrentRows, OfObject, OfTaxonomy
    <3>3. PICK m \in 1 .. l : Applied(k, values[m])  BY <1>8, <2>1, <3>2
    <3>4. objectTags[k]._value = values[m]  BY <3>3 DEF Applied
    <3>5. objectTags[k].tag # 0 => objectTags[k]._value = tags[objectTags[k].tag].value
      BY <3>1 DEF CacheInSync, ValueOf
    <3> QED  BY <1>10, <1>11, <3>1, <3>4, <3>5
  <2>2. CASE k \notin DOMAIN kept
    <3>1. PICK i \in 1 .. Len(saves) : objectTags'[k] = saves[i].row  BY <1>5, <1>6, <2>2
    <3>2. PICK m \in 1 .. l : saves[i].row = RowFor(o, values[m])
      BY <1>1 DEF PlannedFor
    <3>3. /\ objectTags'[k]._value = values[m]
          /\ objectTags'[k].tag # 0 => tags[objectTags'[k].tag].value = values[m]
      BY <1>2, <1>7, <3>1, <3>2, RowForValue
    <3> QED  BY <1>10, <1>11, <3>3
  <2> QED  BY <2>1, <2>2
<1>13. ASSUME NEW m \in 1 .. l PROVE \E k \in left : objectTags'[k]._value = values[m]
  <2>1. CASE Missing(o, values[m])
    <3>1. PICK i \in 1 .. Len(saves) : saves[i].row = RowFor(o, values[m])
      BY <1>1, <2>1 DEF PlannedFor
    <3>2. PICK k \in DOMAIN objectTags' : objectTags'[k] = saves[i].row  BY <1>6
    <3>3. /\ objectTags'[k].object = o /\ objectTags'[k].taxonomy = taxonomy.id
          /\ objectTags'[k]._value = values[m]
      BY <1>2, <1>7, <3>1, <3>2, RowForValue
    <3> QED  BY <1>5, <3>3
  <2>2. CASE ~ Missing(o, values[m])
    <3>1. PICK k \in CurrentRows(o) : Applied(k, values[m])  BY <2>2 DEF Missing
    <3>2. k \in left /\ objectTags'[k] = objectTags[k]  BY <1>9, <3>1
    <3> QED  BY <3>1, <3>2 DEF Applied
  <2> QED  BY <2>1, <2>2
<1>14. \A k, j \in left : objectTags'[k]._value = objectTags'[j]._value => k = j
  <2>1. Unique(objectTags')
    <3>1. objectTags' \in Tables(tags', taxonomy')  BY DEF ObjectTagsInv
    <3> QED  BY <3>1, TableType
  <2>2. taxonomy.id # 0  BY <1>2 DEF Taxonomy
  <2>3. ASSUME NEW k \in left, NEW j \in left, k # j,
               objectTags'[k]._value = objectTags'[j]._value
        PROVE  Clashes(objectTags', k, objectTags'[k])
    BY <1>5, <2>2, <2>3 DEF Clashes
  <2> QED  BY <1>5, <2>1, <2>3 DEF Unique
<1>15. \A v : v \in Range(values) <=> \E m \in 1 .. l : v = values[m]
  BY <1>7 DEF Range
<1>16. {ValueOf(objectTags[k])' : k \in left} = Range(values)
  <2>1. \A k \in left : ValueOf(objectTags[k])' = objectTags'[k]._value  BY <1>12
  <2>2. \A k \in left : ValueOf(objectTags[k])' \in Range(values)  BY <1>12, <1>15
  <2>3. \A v \in Range(values) : \E k \in left : ValueOf(objectTags[k])' = v
    BY <1>13, <1>15, <2>1
  <2> QED  BY <2>2, <2>3
<1>17. Cardinality(left) = l
  <2> DEFINE f == [m \in 1 .. l |-> CHOOSE k \in left : objectTags'[k]._value = values[m]]
  <2>1. \A m \in 1 .. l : f[m] \in left /\ objectTags'[f[m]]._value = values[m]
    BY <1>13
  <2>2. f \in [1 .. l -> left]  BY <2>1
  <2> HIDE DEF f
  <2>3. ASSUME NEW i \in 1 .. l, NEW j \in 1 .. l, f[i] = f[j] PROVE i = j
    <3>1. values[i] = values[j]  BY <2>1, <2>3
    <3> QED  BY <1>1, <1>7, <3>1 DEF IsInjective
  <2>4. ASSUME NEW k \in left PROVE \E m \in 1 .. l : f[m] = k
    <3>1. PICK m \in 1 .. l : objectTags'[k]._value = values[m]  BY <1>12
    <3> QED  BY <1>14, <2>1, <3>1
  <2>5. f \in Bijection(1 .. l, left)
    BY <2>2, <2>3, <2>4 DEF Bijection, Injection, Surjection, IsInjective
  <2>6. ExistsBijection(1 .. l, left)  BY <2>5 DEF ExistsBijection
  <2>7. IsFiniteSet(1 .. l) /\ Cardinality(1 .. l) = l
    <3>1. 1 \in Int /\ l \in Int /\ (1 > l => l = 0) /\ l - 1 + 1 = l  BY <1>7
    <3>2. /\ IsFiniteSet(1 .. l)
          /\ Cardinality(1 .. l) = IF 1 > l THEN 0 ELSE l - 1 + 1
      <4> HIDE DEF l
      <4> QED  BY <3>1, FS_Interval
    <3> QED  BY <3>1, <3>2
  <2> QED  BY <2>6, <2>7, FS_Bijection
<1>18. ASSUME NEW k \in Shown(o), ValueOf(objectTags[k]) \in Range(values)
       PROVE  k \in left /\ objectTags'[k] = objectTags[k]
  <2>1. PICK m \in 1 .. l : ValueOf(objectTags[k]) = values[m]  BY <1>15, <1>18
  <2>2. /\ k \in DOMAIN objectTags /\ objectTags[k].object = o /\ objectTags[k].taxonomy # 0
        /\ objectTags[k].tag = 0 => ~ Closed
    BY DEF Shown, IsDeleted
  <2>3. objectTags[k].taxonomy = taxonomy.id
    <3>1. objectTags[k] \in RowsOf(tags, taxonomy)  BY <1>2, <2>2, TableType
    <3> QED  BY <2>2, <3>1 DEF RowsOf, TaxonomyKeys
  <2>4. k \in CurrentRows(o)  BY <2>2, <2>3 DEF CurrentRows, OfObject, OfTaxonomy
  <2>5. objectTags[k]._value = values[m]
    <3>1. objectTags[k].tag = 0 => ValueOf(objectTags[k]) = objectTags[k]._value
      BY DEF ValueOf
    <3>2. objectTags[k].tag # 0 => ValueOf(objectTags[k]) = objectTags[k]._value
      BY <2>2 DEF CacheInSync
    <3> QED  BY <2>1, <3>1, <3>2
  <2>6. FreeText \/ objectTags[k].tag # 0  BY <2>2 DEF FreeText, Closed
  <2>7. Applied(k, values[m])  BY <2>5, <2>6 DEF Applied
  <2> QED  BY <1>9, <2>4, <2>7
<1> QED  BY <1>16, <1>17, <1>18 DEF o, values, left

\* tag_object with a plan that is still right leaves exactly the values asked for, one
\* row each, and what it keeps it keeps as it was.
THEOREM TaggingIsExact == ObjectTagsSpec => TaggingAppliesExactly
<1>1. ASSUME ObjectTagsInv, ObjectTagsInv', [ObjectTagsNext]_vars
      PROVE  (call # NoCall /\ call' = NoCall /\ taxonomy # NoTaxonomy /\ CacheInSync
                /\ call.plan = Plan(call.object, call.values)) =>
                LET o == call.object
                    left == {k \in OfTaxonomy' : objectTags'[k].object = o}
                IN  /\ {ValueOf(objectTags[k])' : k \in left} = Range(call.values)
                    /\ Cardinality(left) = Len(call.values)
                    /\ \A k \in Shown(o) : ValueOf(objectTags[k]) \in Range(call.values) =>
                          \E j \in left : /\ objectTags'[j].tag = objectTags[k].tag
                                          /\ objectTags'[j].is_copied = objectTags[k].is_copied
  <2>1. SUFFICES ASSUME call # NoCall, call' = NoCall PROVE TagObjectWrite \/ call' = call
    BY <1>1, WriteIsExact
  <2>2. OtherCalls => call' = call
    BY DEF OtherCalls, CreateTaxonomy, ImportTaxonomy, UpdateTaxonomy, DeleteTaxonomy,
           AddTagToTaxonomy, UpdateTagInTaxonomy, DeleteTagsFromTaxonomy, CopyTags,
           UnmarkCopiedTags, DeleteObjectTags
  <2>3. \A user, o, values, create_invalid :
           ~ TagObject(user, o, values, create_invalid)
    BY <2>1 DEF TagObject
  <2>4. \A o, values, export_id : ~ TagObjectByExportId(o, values, export_id)
    BY <2>1 DEF TagObjectByExportId
  <2> QED  BY <1>1, <2>2, <2>3, <2>4 DEF ObjectTagsNext, vars
<1> QED  BY <1>1, ObjectTagsInvariance, PTL DEF ObjectTagsSpec, TaggingAppliesExactly

==============================================================================
