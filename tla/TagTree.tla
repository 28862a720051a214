------------------------------- MODULE TagTree -------------------------------
(***************************************************************************)
(* The tags of one closed taxonomy: src/src/openedx_tagging/models/base.py *)
(*                                                                         *)
(* A tag row holds its parent, and beside it a copy of what the parents    *)
(* say: its depth and its lineage, the values from the root to itself.     *)
(* Tag.save() writes the copies of the tag and, with one UPDATE selected   *)
(* by the old lineage as a prefix, those of everything below it.           *)
(*                                                                         *)
(* A request first loads the tag and its parent into memory and then saves *)
(* it; with Interleaved, other requests run in between.  save() itself is  *)
(* one step.                                                               *)
(***************************************************************************)
EXTENDS Integers, Sequences, SequencesExt, FiniteSets

CONSTANTS
    Values,              \* what a tag's value can be
    GivenExternalIds,    \* external ids that requests give, or NoExternalId
    Requests,            \* requests that may be in progress
    TAXONOMY_MAX_DEPTH,  \* depth of the deepest tag that save() accepts
    MaxTags,             \* bound: tags ever created
    Interleaved,         \* requests run between the load and the save of another
    MovesBelowSelf,      \* import files move tags below their own descendants
    NoInstance, NoExternalId, NotCached

ASSUME TagTreeAssumption ==
    /\ TAXONOMY_MAX_DEPTH \in Nat
    /\ MaxTags \in Nat
    /\ Interleaved \in BOOLEAN
    /\ MovesBelowSelf \in BOOLEAN
    /\ NoExternalId \notin Values \X (Nat \ {0})
    /\ GivenExternalIds \subseteq (Values \X (Nat \ {0})) \cup {NoExternalId}

VARIABLES
    tags,       \* the rows of Tag, by primary key
    lastTag,    \* the largest primary key ever given out
    instance    \* the Tag object each request has in memory

treeVars == <<tags, lastTag, instance>>

NoTag == 0      \* the parent of a root, the key of an unsaved tag

\* The external id tag_external_id_candidate builds from a value: the first
\* attempt is the value itself, later ones have a number appended.
ExternalIds == Values \X (Nat \ {0})

Tag == [value : Values, external_id : ExternalIds, parent : Nat,
        depth : Int, lineage : Seq(Values)]

Instances ==
    [pk : Nat, value : Values, external_id : ExternalIds \cup {NoExternalId},
     parent : Nat,
     cached : {NotCached} \cup [depth : Int, lineage : Seq(Values)]]

TypeOK ==
    /\ tags \in [DOMAIN tags -> Tag]
    /\ lastTag \in Nat
    /\ DOMAIN tags \subseteq 1 .. lastTag
    /\ instance \in [Requests -> Instances \cup {NoInstance}]

Init ==
    /\ tags = << >>
    /\ lastTag = 0
    /\ instance = [r \in Requests |-> NoInstance]

-----------------------------------------------------------------------------
(* Queries                                                                 *)

ChildrenIn(rows, t) == {c \in DOMAIN rows : rows[c].parent = t}

\* What the database deletes with a set of tags: parent is ON DELETE CASCADE.
WithSubtagsIn(rows, ts) ==
    {t \in DOMAIN rows : \A closed \in SUBSET DOMAIN rows :
        (ts \subseteq closed /\ \A u \in closed : ChildrenIn(rows, u) \subseteq closed)
            => t \in closed}

Without(rows, ts) == [t \in DOMAIN rows \ WithSubtagsIn(rows, ts) |-> rows[t]]

Children(t) == ChildrenIn(tags, t)

WithSubtags(ts) == WithSubtagsIn(tags, ts)

TagForValue(v) == CHOOSE t \in DOMAIN tags : tags[t].value = v

\* child_count, descendant_count
ChildCount(t) == Cardinality(Children(t))

DescendantCount(t) ==
    Cardinality({d \in DOMAIN tags : /\ tags[d].depth > tags[t].depth
                                     /\ IsPrefix(tags[t].lineage, tags[d].lineage)})

FilteredTagsOneLevel(parent, matching) == Children(parent) \cap matching

\* With a search term: the tags that match below the parent, and all their
\* ancestors, found through parent_id, that are below the parent themselves.
FilteredTagsDeep(parent, matching) ==
    LET initial == {t \in DOMAIN tags : parent # NoTag =>
                        /\ IsPrefix(tags[parent].lineage, tags[t].lineage)
                        /\ tags[t].depth > tags[parent].depth}
    IN  {t \in initial : WithSubtags({t}) \cap matching \cap initial # {}}

-----------------------------------------------------------------------------
(* Tag.save(), on the rows and the last key of a database                  *)

CachedTag(rows, t) ==
    IF t = NoTag THEN NotCached
    ELSE [depth |-> rows[t].depth, lineage |-> rows[t].lineage]

\* Depth and lineage of the parent: from the cached parent object if there is
\* one, else read from the database.  A root is put below nothing.
ParentValues(rows, i) ==
    CASE i.parent = NoTag       -> [depth |-> -1, lineage |-> << >>]
      [] i.parent # NoTag /\ i.cached # NotCached -> i.cached
      [] OTHER                  -> CachedTag(rows, i.parent)

\* The first candidate that no other tag of the taxonomy has.
GeneratedExternalId(rows, v) ==
    LET taken == {rows[t].external_id : t \in DOMAIN rows}
        free  == {n \in 1 .. Cardinality(taken) + 1 : <<v, n>> \notin taken}
    IN  <<v, CHOOSE n \in free : \A k \in free : n <= k>>

ExternalId(rows, i) ==
    IF i.external_id = NoExternalId THEN GeneratedExternalId(rows, i.value)
                                    ELSE i.external_id

SavedTag(rows, i) ==
    [value |-> i.value, external_id |-> ExternalId(rows, i), parent |-> i.parent,
     depth |-> ParentValues(rows, i).depth + 1,
     lineage |-> Append(ParentValues(rows, i).lineage, i.value)]

\* save() raises for a tag that is too deep, the database for a parent that is
\* gone and for a value or an external id that another tag has.
CanSave(rows, i) ==
    /\ i.parent \in DOMAIN rows \cup {NoTag}
    /\ ParentValues(rows, i).depth + 1 <= TAXONOMY_MAX_DEPTH
    /\ \A t \in DOMAIN rows \ {i.pk} : /\ rows[t].value # i.value
                                       /\ rows[t].external_id # ExternalId(rows, i)

\* A row below one whose depth and lineage change from old to new.
Updated(row, old, new) ==
    [row EXCEPT
        !.depth   = @ + (new.depth - old.depth),
        !.lineage = new.lineage \o SubSeq(row.lineage, Len(old.lineage) + 1, Len(row.lineage))]

\* Mutant: the direct children only.
CascadeToChildren(rows, key, old, new) ==
    [t \in DOMAIN rows |->
        IF rows[t].parent = key /\ old.lineage # new.lineage
        THEN Updated(rows[t], old, new) ELSE rows[t]]

\* Mutant: only when the value changes.
CascadeOnRename(rows, key, old, new) ==
    [t \in DOMAIN rows |->
        IF t # key /\ old.value # new.value /\ IsPrefix(old.lineage, rows[t].lineage)
        THEN Updated(rows[t], old, new) ELSE rows[t]]

\* The UPDATE of the descendants: depth and lineage of every other row whose
\* lineage starts with the old one.
Cascade(rows, key, old, new) ==
    [t \in DOMAIN rows |->
        IF t # key /\ old.lineage # new.lineage /\ IsPrefix(old.lineage, rows[t].lineage)
        THEN Updated(rows[t], old, new) ELSE rows[t]]

SavedKey(last, i) == IF i.pk = NoTag THEN last + 1 ELSE i.pk

Saved(rows, last, i) ==
    LET key  == SavedKey(last, i)
        new  == SavedTag(rows, i)
        with == [t \in DOMAIN rows \cup {key} |-> IF t = key THEN new ELSE rows[t]]
    IN  IF key \in DOMAIN rows THEN Cascade(with, key, rows[key], new) ELSE with

\* A new tag, a renamed tag, a moved tag, as a request builds them in memory.
NewTag(rows, v, parent, external_id) ==
    [pk |-> NoTag, value |-> v, external_id |-> external_id,
     parent |-> parent, cached |-> CachedTag(rows, parent)]

RenamedTag(rows, t, v) ==
    [pk |-> t, value |-> v, external_id |-> rows[t].external_id,
     parent |-> rows[t].parent, cached |-> NotCached]

MovedTag(rows, t, parent) ==
    [pk |-> t, value |-> rows[t].value, external_id |-> rows[t].external_id,
     parent |-> parent, cached |-> CachedTag(rows, parent)]

-----------------------------------------------------------------------------
(* Operations                                                              *)

Idle == \A r \in Requests : instance[r] = NoInstance

MayStart(r) == instance[r] = NoInstance /\ (Interleaved \/ Idle)

\* add_tag: checks the value and the external id, gets the parent, and goes on
\* to create the tag.
AddTag(r, v, parent, external_id) ==
    /\ MayStart(r)
    /\ lastTag < MaxTags
    /\ \A t \in DOMAIN tags : tags[t].value # v /\ tags[t].external_id # external_id
    /\ instance' = [instance EXCEPT ![r] = NewTag(tags, v, parent, external_id)]
    /\ UNCHANGED <<tags, lastTag>>

\* update_tag: the new value of a loaded tag; its parent is not loaded.
UpdateTag(r, t, v) ==
    /\ MayStart(r)
    /\ instance' = [instance EXCEPT ![r] = RenamedTag(tags, t, v)]
    /\ UNCHANGED <<tags, lastTag>>

\* UpdateParentTag.execute: imports are the only way to move a tag.
MoveTag(r, t, parent) ==
    /\ MayStart(r)
    /\ parent # tags[t].parent
    /\ parent # NoTag /\ ~ MovesBelowSelf
            => ~ IsPrefix(tags[t].lineage, tags[parent].lineage)
    /\ instance' = [instance EXCEPT ![r] = MovedTag(tags, t, parent)]
    /\ UNCHANGED <<tags, lastTag>>

\* Tag.save() of what the request has in memory, or the exception it raises.
Save(r) ==
    LET i == instance[r]
    IN  /\ i # NoInstance
        /\ IF CanSave(tags, i)
           THEN /\ tags' = Saved(tags, lastTag, i)
                /\ lastTag' = IF i.pk = NoTag THEN lastTag + 1 ELSE lastTag
           ELSE UNCHANGED <<tags, lastTag>>
        /\ instance' = [instance EXCEPT ![r] = NoInstance]

\* delete_tags: refused when a tag has children and with_subtags is not given.
DeleteTags(ts, with_subtags) ==
    /\ Interleaved \/ Idle
    /\ with_subtags \/ \A t \in ts : Children(t) = {}
    /\ tags' = Without(tags, ts)
    /\ UNCHANGED <<lastTag, instance>>

\* What requests do to the tags.
Edit ==
    \/ \E r \in Requests, v \in Values, parent \in DOMAIN tags \cup {NoTag},
          e \in GivenExternalIds : AddTag(r, v, parent, e)
    \/ \E r \in Requests, t \in DOMAIN tags, v \in Values : UpdateTag(r, t, v)
    \/ \E r \in Requests : Save(r)
    \/ \E ts \in SUBSET DOMAIN tags, with_subtags \in BOOLEAN : DeleteTags(ts, with_subtags)

Next ==
    \/ Edit
    \/ \E r \in Requests, t \in DOMAIN tags, parent \in DOMAIN tags \cup {NoTag} :
          MoveTag(r, t, parent)

Spec == Init /\ [][Next]_treeVars

-----------------------------------------------------------------------------
(* Properties                                                              *)

\* The cached depth and lineage of every tag are what its parent's say they
\* should be, after any sequence of additions, renamings, moves of subtrees and
\* deletions (Tag.save(), base.py:175).
LineageFollowsParent ==
    \A t \in DOMAIN tags :
        LET parent == tags[t].parent
        IN  IF parent = NoTag
            THEN tags[t].depth = 0 /\ tags[t].lineage = <<tags[t].value>>
            ELSE /\ parent \in DOMAIN tags
                 /\ tags[t].depth = tags[parent].depth + 1
                 /\ tags[t].lineage = Append(tags[parent].lineage, tags[t].value)

\* Nor do the queries that use lineages as prefixes (descendant_count, the deep
\* lists and searches) see anything but the tree that the parents make.
QueriesSeeTheTree ==
    /\ TypeOK
    /\ LineageFollowsParent
    /\ \A t \in DOMAIN tags :
        /\ DescendantCount(t) = Cardinality(WithSubtags({t})) - 1
        /\ \A m \in DOMAIN tags :
             FilteredTagsDeep(t, {m}) = {a \in WithSubtags({t}) \ {t} : m \in WithSubtags({a})}

\* The path of a tag, read from the values in its lineage.
Path == [t \in DOMAIN tags |->
            [k \in 1 .. Len(tags[t].lineage) |-> TagForValue(tags[t].lineage[k])]]

Forest == INSTANCE TagForest WITH Tags <- 1 .. MaxTags, path <- Path

\* Tags with cached lineages implement a forest: renaming changes no path, a
\* moved or deleted tag takes its subtree along, and nothing else moves.
ImplementsForest == Forest!Spec
==============================================================================
