----------------------------- MODULE ObjectTags ------------------------------
(***************************************************************************)
(* Objects tagged with the tags of a taxonomy: src/src/openedx_tagging/    *)
(* api.py, ObjectTag in models/base.py, and the REST views that call them. *)
(*                                                                         *)
(* A row of ObjectTag names its tag and taxonomy twice: by foreign keys,   *)
(* which become NULL when the tag or the taxonomy is deleted, and by a     *)
(* copied value and export id, which outlive both and are used to link the *)
(* row again (resync).                                                     *)
(*                                                                         *)
(* There is at most one taxonomy at a time.  Every call of the API is one  *)
(* step, except tag_object, which reads and decides outside its            *)
(* transaction and then writes.  A call that fails half-way leaves what it *)
(* had committed.                                                          *)
(***************************************************************************)
EXTENDS TagTree, Loops

CONSTANTS
    Objects, Users,
    Staff,            \* the users that are taxonomy admins
    MayTag,           \* the users the platform allows to tag objects
    Settings,         \* what a taxonomy can be set to
    TagLists,         \* the lists of values that objects are tagged with, which have no
                      \* repetitions once tag_object has dropped them, and no blanks at
                      \* their ends, which the REST serializer cuts off
    OBJECT_MAX_TAGS,
    MaxObjectTags,    \* bound: rows of ObjectTag
    MaxTaxonomies,    \* bound: taxonomies ever created
    NoTaxonomy, NoCall, EmptyValue

VARIABLES
    taxonomy,         \* the taxonomy, or NoTaxonomy
    lastTaxonomy,     \* the largest key of a taxonomy so far
    objectTags,       \* the rows of ObjectTag, by key
    call              \* the tag_object call that has read and not yet written

vars == <<tags, lastTag, instance, taxonomy, lastTaxonomy, objectTags, call>>

\* Zero stands for NULL.
ObjectTag == [object : Objects, taxonomy : Nat, tag : Nat,
              _value : Values \cup {EmptyValue}, export_id : {s.export_id : s \in Settings},
              is_copied : BOOLEAN]

Taxonomy == [id : Nat \ {0}, settings : Settings]

ASSUME ObjectTagsAssumption ==
    /\ NoTaxonomy \notin Taxonomy
    /\ TagLists \subseteq Seq(Values) /\ \A values \in TagLists : IsInjective(values)

Closed == taxonomy # NoTaxonomy /\ ~ taxonomy.settings.allow_free_text
FreeText == taxonomy # NoTaxonomy /\ taxonomy.settings.allow_free_text

ObjectTagsTypeOK ==
    /\ TypeOK
    /\ taxonomy \in Taxonomy \cup {NoTaxonomy}
    /\ lastTaxonomy \in Nat
    /\ DOMAIN objectTags \subseteq Nat \ {0}
    /\ \A k \in DOMAIN objectTags :
          /\ objectTags[k] \in ObjectTag
          /\ objectTags[k].tag \in DOMAIN tags \cup {0}
          /\ objectTags[k].taxonomy = 0 \/ objectTags[k].taxonomy = taxonomy.id

ObjectTagsInit ==
    /\ Init
    /\ taxonomy = NoTaxonomy
    /\ lastTaxonomy = 0
    /\ objectTags = << >>
    /\ call = NoCall

-----------------------------------------------------------------------------
(* Permissions: rules.py                                                   *)

IsTaxonomyAdmin(user) == user \in Staff
CanChangeTaxonomy(user) == IsTaxonomyAdmin(user)
CanChangeTag(user) == ~ taxonomy.settings.read_only /\ CanChangeTaxonomy(user)
CanViewObjectTagTaxonomy(user) == taxonomy.settings.enabled
CanChangeObjectTagObjectId(user) == user \in MayTag
CanChangeObjectTag(user) == CanViewObjectTagTaxonomy(user) /\ CanChangeObjectTagObjectId(user)

-----------------------------------------------------------------------------
(* Rows of ObjectTag                                                       *)

\* The properties value and is_deleted, and the rows that get_object_tags shows.
ValueOf(row) == IF row.tag # 0 THEN tags[row.tag].value ELSE row._value

IsDeleted(row) == row.taxonomy = 0 \/ (row.tag = 0 /\ Closed)

Shown(o) ==
    {k \in DOMAIN objectTags :
        /\ objectTags[k].object = o
        /\ ~ IsDeleted(objectTags[k])
        /\ taxonomy.settings.enabled}

ShownValues(o) == {ValueOf(objectTags[k]) : k \in Shown(o)}

\* The two unique constraints; NULLs are distinct from each other.
Clashes(rows, k, row) ==
    \E j \in DOMAIN rows \ {k} :
        /\ rows[j].object = row.object
        /\ row.taxonomy # 0 /\ rows[j].taxonomy = row.taxonomy
        /\ rows[j]._value = row._value \/ (row.tag # 0 /\ rows[j].tag = row.tag)

\* A key that no row has and no call has read; which one does not matter, so
\* the smallest.
FreeKey(rows) ==
    LET read == IF call = NoCall THEN {} ELSE call.read
        free == (1 .. Cardinality(DOMAIN rows \cup read) + 1) \ (DOMAIN rows \cup read)
    IN  CHOOSE k \in free : \A j \in free : k <= j

SaveRow(db, k, row) ==
    IF db.failed \/ Clashes(db.rows, k, row) THEN [db EXCEPT !.failed = TRUE]
    ELSE [db EXCEPT !.rows = [j \in DOMAIN db.rows \cup {k} |->
                                 IF j = k THEN row ELSE db.rows[j]]]

Working(rows) == [rows |-> rows, failed |-> FALSE]

\* ObjectTag.__init__ copies the value of its tag and the export id.
NewObjectTag(o, key, value, is_copied) ==
    [object |-> o, taxonomy |-> taxonomy.id, tag |-> key,
     _value |-> IF key = 0 THEN value ELSE tags[key].value,
     export_id |-> taxonomy.settings.export_id, is_copied |-> is_copied]

-----------------------------------------------------------------------------
(* resync                                                                  *)

\* Mutant: rows that lost their tag are left alone.
ResyncedIfTagged(tx, tagRows, row) ==
    IF row.tag # 0 THEN [row EXCEPT !._value = tagRows[row.tag].value] ELSE row

\* Resync one row: its export id, its taxonomy, then its tag or its value.
Resynced(tx, tagRows, row) ==
    LET exported == IF row.taxonomy # 0 THEN [row EXCEPT !.export_id = tx.settings.export_id]
                                        ELSE row
        linked == IF row.taxonomy = 0 /\ tx # NoTaxonomy /\ tx.settings.export_id = row.export_id
                  THEN [row EXCEPT !.taxonomy = tx.id] ELSE exported
        same == {t \in DOMAIN tagRows : tagRows[t].value = linked._value}
    IN  CASE linked.taxonomy # 0 /\ ~ tx.settings.allow_free_text /\ linked.tag = 0 ->
               IF same = {} THEN linked ELSE [linked EXCEPT !.tag = CHOOSE t \in same : TRUE]
          [] linked.tag # 0 -> [linked EXCEPT !._value = tagRows[linked.tag].value]
          [] OTHER -> linked

ResyncRow(tx, tagRows, db, k) ==
    IF db.failed \/ Resynced(tx, tagRows, db.rows[k]) = db.rows[k] THEN db
    ELSE SaveRow(db, k, Resynced(tx, tagRows, db.rows[k]))

\* resync_object_tags: rows are saved one by one, and an error stops the rest.
\* An empty queryset means all rows.
ResyncObjectTags(tx, tagRows, rows, keys) ==
    LET chosen == IF keys = {} THEN DOMAIN rows ELSE keys
    IN  ForEach(chosen, LAMBDA db, k : ResyncRow(tx, tagRows, db, k), Working(rows)).rows

\* taxonomy.objecttag_set
OfTaxonomy == {k \in DOMAIN objectTags : objectTags[k].taxonomy = taxonomy.id}

-----------------------------------------------------------------------------
(* Taxonomies                                                              *)

\* create_taxonomy
CreateTaxonomy(user, s) ==
    /\ CanChangeTaxonomy(user)
    /\ taxonomy = NoTaxonomy /\ lastTaxonomy < MaxTaxonomies
    /\ taxonomy' = [id |-> lastTaxonomy + 1, settings |-> s]
    /\ lastTaxonomy' = lastTaxonomy + 1
    /\ UNCHANGED <<tags, lastTag, instance, objectTags, call>>

\* create_import: a new taxonomy with the tags of a file, then all rows are
\* resynced.
ImportTaxonomy(user, s, value) ==
    /\ CanChangeTaxonomy(user)
    /\ taxonomy = NoTaxonomy /\ lastTaxonomy < MaxTaxonomies /\ lastTag < MaxTags
    /\ ~ s.allow_free_text
    /\ taxonomy' = [id |-> lastTaxonomy + 1, settings |-> s]
    /\ lastTaxonomy' = lastTaxonomy + 1
    /\ tags' = Saved(tags, lastTag, NewTag(tags, value, NoTag, NoExternalId))
    /\ lastTag' = lastTag + 1
    /\ objectTags' = ResyncObjectTags(taxonomy', tags', objectTags, {})
    /\ UNCHANGED <<instance, call>>

\* TaxonomyView.update: the fields are saved and nothing else.
UpdateTaxonomy(user, s) ==
    /\ CanChangeTaxonomy(user)
    /\ taxonomy # NoTaxonomy
    /\ taxonomy' = [taxonomy EXCEPT !.settings = s]
    /\ UNCHANGED <<tags, lastTag, instance, lastTaxonomy, objectTags, call>>

\* Foreign keys to what is gone become NULL.
SetNull(goneTags, goneTaxonomy) ==
    [k \in DOMAIN objectTags |->
        [objectTags[k] EXCEPT !.tag = IF @ \in goneTags THEN 0 ELSE @,
                              !.taxonomy = IF goneTaxonomy THEN 0 ELSE @]]

\* The tags go with their taxonomy.
DeleteTaxonomy(user) ==
    /\ CanChangeTaxonomy(user)
    /\ taxonomy # NoTaxonomy
    /\ taxonomy' = NoTaxonomy
    /\ tags' = << >>
    /\ objectTags' = SetNull(DOMAIN tags, TRUE)
    /\ UNCHANGED <<lastTag, instance, lastTaxonomy, call>>

-----------------------------------------------------------------------------
(* Tags                                                                    *)

MayEditTags(user) == taxonomy # NoTaxonomy /\ Closed /\ CanChangeTag(user)

\* add_tag_to_taxonomy: the tag, then the rows of the taxonomy are resynced.
AddTagToTaxonomy(user, value, parent) ==
    LET i == NewTag(tags, value, parent, NoExternalId)
    IN  /\ MayEditTags(user)
        /\ lastTag < MaxTags
        /\ CanSave(tags, i)
        /\ tags' = Saved(tags, lastTag, i)
        /\ lastTag' = lastTag + 1
        /\ objectTags' = ResyncObjectTags(taxonomy, tags', objectTags, OfTaxonomy)
        /\ UNCHANGED <<instance, taxonomy, lastTaxonomy, call>>

\* update_tag_in_taxonomy
UpdateTagInTaxonomy(user, t, value) ==
    LET i == RenamedTag(tags, t, value)
    IN  /\ MayEditTags(user)
        /\ CanSave(tags, i)
        /\ tags' = Saved(tags, lastTag, i)
        /\ objectTags' = ResyncObjectTags(taxonomy, tags', objectTags, OfTaxonomy)
        /\ UNCHANGED <<lastTag, instance, taxonomy, lastTaxonomy, call>>

\* delete_tags_from_taxonomy
DeleteTagsFromTaxonomy(user, ts, with_subtags) ==
    /\ MayEditTags(user)
    /\ ts # {}
    /\ with_subtags \/ \A t \in ts : Children(t) = {}
    /\ tags' = Without(tags, ts)
    /\ objectTags' = SetNull(WithSubtags(ts), FALSE)
    /\ UNCHANGED <<lastTag, instance, taxonomy, lastTaxonomy, call>>

-----------------------------------------------------------------------------
(* Tagging objects                                                         *)

OfObject(o) == {k \in DOMAIN objectTags : objectTags[k].object = o}

\* What tag_object decides to do with one value: keep a row, or save one.
TagStep(o, plan, value) ==
    LET same == {t \in DOMAIN tags : tags[t].value = value}
        key == IF FreeText \/ same = {} THEN 0 ELSE CHOOSE t \in same : TRUE
        applied == {k \in plan.current : IF FreeText THEN ValueOf(objectTags[k]) = value
                                                     ELSE objectTags[k].tag = key /\ key # 0}
        k == CHOOSE j \in applied : TRUE
    IN  IF applied = {}
        THEN [plan EXCEPT !.saves = Append(@, [key |-> 0, row |-> NewObjectTag(o, key, value, FALSE)])]
        ELSE [current |-> plan.current \ {k},
              saves |-> IF FreeText \/ objectTags[k]._value = value THEN plan.saves
                        ELSE Append(plan.saves,
                                    [key |-> k, row |-> [objectTags[k] EXCEPT !._value = value]])]

\* Mutant: only the rows that are shown count as current.
PlanOfShown(o, values) ==
    ForEach(DOMAIN values, LAMBDA plan, n : TagStep(o, plan, values[n]),
            [current |-> Shown(o) \cap OfTaxonomy, saves |-> << >>])

Plan(o, values) ==
    ForEach(DOMAIN values, LAMBDA plan, n : TagStep(o, plan, values[n]),
            [current |-> OfObject(o) \cap OfTaxonomy, saves |-> << >>])

\* tag_object up to its transaction: the checks and the plan.  The view asks
\* for permission first.
TagObject(user, o, values, create_invalid) ==
    /\ call = NoCall
    /\ taxonomy # NoTaxonomy
    /\ CanChangeObjectTag(user)
    /\ Cardinality(OfObject(o) \ OfTaxonomy) + Len(values) <= OBJECT_MAX_TAGS
    /\ Cardinality(DOMAIN objectTags \ (OfObject(o) \cap OfTaxonomy)) + Len(values) <= MaxObjectTags
    /\ taxonomy.settings.allow_multiple \/ Len(values) <= 1
    /\ create_invalid \/ FreeText \/
         \A n \in DOMAIN values : \E t \in DOMAIN tags : tags[t].value = values[n]
    /\ call' = [object |-> o, values |-> values, read |-> OfObject(o) \cap OfTaxonomy,
                plan |-> Plan(o, values)]
    /\ UNCHANGED <<tags, lastTag, instance, taxonomy, lastTaxonomy, objectTags>>

\* tag_object for the export id of a taxonomy that may come some day: all rows
\* with that id make way for new ones.
TagObjectByExportId(o, values, export_id) ==
    LET current == {k \in OfObject(o) : objectTags[k].export_id = export_id}
        NewRow(value) ==
            [object |-> o, taxonomy |-> 0, tag |-> 0, _value |-> value,
             export_id |-> export_id, is_copied |-> FALSE]
    IN  /\ call = NoCall
        /\ Cardinality(OfObject(o) \ current) + Len(values) <= OBJECT_MAX_TAGS
        /\ Cardinality(DOMAIN objectTags \ current) + Len(values) <= MaxObjectTags
        /\ call' = [object |-> o, values |-> values, read |-> current,
                    plan |-> [current |-> current,
                              saves |-> [n \in DOMAIN values |->
                                            [key |-> 0, row |-> NewRow(values[n])]]]]
        /\ UNCHANGED <<tags, lastTag, instance, taxonomy, lastTaxonomy, objectTags>>

\* full_clean and save of one row: its taxonomy and its tag must still exist,
\* and a row that was there must agree with them.
CleanAndSave(db, save) ==
    LET row == save.row
        clean == /\ row.taxonomy # 0 => taxonomy # NoTaxonomy /\ row.taxonomy = taxonomy.id
                 /\ row.tag \in DOMAIN tags \cup {0}
                 /\ save.key # 0 => /\ row.export_id = taxonomy.settings.export_id
                                    /\ row.tag # 0 => tags[row.tag].value = row._value
    IN  IF clean THEN SaveRow(db, IF save.key = 0 THEN FreeKey(db.rows) ELSE save.key, row)
                 ELSE [db EXCEPT !.failed = TRUE]

\* The transaction: omitted rows are deleted, then the others are saved.
TagObjectWrite ==
    /\ call # NoCall
    /\ LET kept == [k \in DOMAIN objectTags \ call.plan.current |-> objectTags[k]]
           saves == call.plan.saves
           db == ForEach(DOMAIN saves, LAMBDA d, n : CleanAndSave(d, saves[n]), Working(kept))
       IN  objectTags' = IF db.failed THEN objectTags ELSE db.rows
    /\ call' = NoCall
    /\ UNCHANGED <<tags, lastTag, instance, taxonomy, lastTaxonomy>>

\* update_or_create for one tag of the source: it looks for a row with the same
\* taxonomy and tag, where a free text row has no tag, and fails if it finds
\* two; a new row takes its value from its tag.
CopyTag(dst, db, source) ==
    LET found == {k \in DOMAIN db.rows : /\ db.rows[k].object = dst
                                         /\ db.rows[k].taxonomy = source.taxonomy
                                         /\ db.rows[k].tag = source.tag}
        k == CHOOSE j \in found : TRUE
    IN  IF found = {}
        THEN SaveRow(db, FreeKey(db.rows), NewObjectTag(dst, source.tag, EmptyValue, TRUE))
        ELSE IF Cardinality(found) = 1 THEN SaveRow(db, k, [db.rows[k] EXCEPT !.is_copied = TRUE])
        ELSE [db EXCEPT !.failed = TRUE]

\* Mutant: the tags of the destination go, copied or not.
CopyTagsOver(src, dst) ==
    LET kept == [k \in {j \in DOMAIN objectTags : objectTags[j].object # dst} |-> objectTags[k]]
        db == ForEach(Shown(src) \cap DOMAIN kept,
                      LAMBDA d, k : CopyTag(dst, d, kept[k]), Working(kept))
    IN  /\ Cardinality(DOMAIN db.rows) <= MaxObjectTags
        /\ ~ db.failed      \* else everything is rolled back
        /\ objectTags' = db.rows
        /\ UNCHANGED <<tags, lastTag, instance, taxonomy, lastTaxonomy, call>>

\* copy_tags: the earlier copies are deleted first, and the source is read
\* after that.
CopyTags(src, dst) ==
    LET kept == [k \in {j \in DOMAIN objectTags :
                          objectTags[j].object = dst => ~ objectTags[j].is_copied} |-> objectTags[k]]
        db == ForEach(Shown(src) \cap DOMAIN kept,
                      LAMBDA d, k : CopyTag(dst, d, kept[k]), Working(kept))
    IN  /\ Cardinality(DOMAIN db.rows) <= MaxObjectTags
        /\ ~ db.failed      \* else everything is rolled back
        /\ objectTags' = db.rows
        /\ UNCHANGED <<tags, lastTag, instance, taxonomy, lastTaxonomy, call>>

UnmarkCopiedTags(o) ==
    /\ objectTags' = [k \in DOMAIN objectTags |->
                        IF k \in OfObject(o) THEN [objectTags[k] EXCEPT !.is_copied = FALSE]
                                             ELSE objectTags[k]]
    /\ UNCHANGED <<tags, lastTag, instance, taxonomy, lastTaxonomy, call>>

DeleteObjectTags(o) ==
    /\ objectTags' = [k \in DOMAIN objectTags \ OfObject(o) |-> objectTags[k]]
    /\ UNCHANGED <<tags, lastTag, instance, taxonomy, lastTaxonomy, call>>

-----------------------------------------------------------------------------
(* Counts                                                                  *)

\* get_object_tag_counts with count_implicit: the distinct prefixes of the
\* lineages, and the free text rows.
ImplicitCount(o) ==
    Cardinality({k \in Shown(o) : objectTags[k].tag = 0}) +
    Cardinality(UNION {{SubSeq(tags[objectTags[k].tag].lineage, 1, n) :
                           n \in DOMAIN tags[objectTags[k].tag].lineage} :
                       k \in {j \in Shown(o) : objectTags[j].tag # 0}})

\* Mutant: the objects that have the value itself.
OwnUsageCount(value) ==
    Cardinality({o \in Objects : \E k \in OfObject(o) :
        objectTags[k].tag # 0 /\ tags[objectTags[k].tag].value = value})

\* add_usage_counts: the objects with the value in the lineage of a tag.
UsageCount(value) ==
    Cardinality({o \in Objects : \E k \in OfObject(o) :
        /\ objectTags[k].tag # 0
        /\ \E n \in DOMAIN tags[objectTags[k].tag].lineage :
              tags[objectTags[k].tag].lineage[n] = value})

-----------------------------------------------------------------------------
\* Calls that come in while tag_object has read and not written, unless
\* Interleaved is FALSE.
OtherCalls ==
    /\ call = NoCall \/ Interleaved
    /\ \/ \E user \in Users :
             \/ \E s \in Settings : CreateTaxonomy(user, s)
             \/ \E s \in Settings, value \in Values : ImportTaxonomy(user, s, value)
             \/ \E s \in Settings : UpdateTaxonomy(user, s)
             \/ DeleteTaxonomy(user)
             \/ \E value \in Values, parent \in DOMAIN tags \cup {NoTag} :
                   AddTagToTaxonomy(user, value, parent)
             \/ \E t \in DOMAIN tags, value \in Values : UpdateTagInTaxonomy(user, t, value)
             \/ \E ts \in SUBSET DOMAIN tags, with_subtags \in BOOLEAN :
                   DeleteTagsFromTaxonomy(user, ts, with_subtags)
       \/ \E src, dst \in Objects : CopyTags(src, dst)
       \/ \E o \in Objects : UnmarkCopiedTags(o) \/ DeleteObjectTags(o)

ObjectTagsNext ==
    \/ \E user \in Users, o \in Objects, values \in TagLists, create_invalid \in BOOLEAN :
          TagObject(user, o, values, create_invalid)
    \/ \E o \in Objects, values \in TagLists, s \in Settings :
          TagObjectByExportId(o, values, s.export_id)
    \/ TagObjectWrite
    \/ OtherCalls

ObjectTagsSpec == ObjectTagsInit /\ [][ObjectTagsNext]_vars

-----------------------------------------------------------------------------
(* Properties                                                              *)

\* Every row that has a tag has its value, too.
CacheInSync ==
    \A k \in DOMAIN objectTags :
        objectTags[k].tag # 0 => objectTags[k]._value = ValueOf(objectTags[k])

\* tag_object with a plan that is still right leaves exactly the values asked
\* for, whatever was there (rows that lost their tag, rows of a taxonomy that
\* was free text or closed before), and what it keeps it keeps as it was
\* (tag_object, api.py:337).
TaggingAppliesExactly ==
    [][(call # NoCall /\ call' = NoCall /\ taxonomy # NoTaxonomy /\ CacheInSync
        /\ call.plan = Plan(call.object, call.values)) =>
        LET o == call.object
            left == {k \in OfTaxonomy' : objectTags'[k].object = o}
        IN  /\ {ValueOf(objectTags[k])' : k \in left} = Range(call.values)
            /\ Cardinality(left) = Len(call.values)
            /\ \A k \in Shown(o) : ValueOf(objectTags[k]) \in Range(call.values) =>
                  \E j \in left : /\ objectTags'[j].tag = objectTags[k].tag
                                  /\ objectTags'[j].is_copied = objectTags[k].is_copied
      ]_vars

\* When a tag comes back under the value of a deleted one, the objects that
\* had it have it again, provided no cached value is in the way ("any existing
\* ObjectTags with the same value will be linked to the new Tag", api.py:455).
ReaddedTagsAreRelinked ==
    [][\A t \in DOMAIN tags' \ DOMAIN tags :
        CacheInSync =>
            \A k \in DOMAIN objectTags :
                (/\ objectTags[k].tag = 0 /\ objectTags[k]._value = tags'[t].value
                 /\ objectTags'[k].taxonomy # 0)
                    => objectTags'[k].tag = t
      ]_vars

\* Copying tags of a closed taxonomy shows on the destination its own tags and
\* those of the source, and nothing of what was copied to it before
\* (copy_tags, api.py:493).
CopiesFollowTheSource ==
    [][\A src, dst \in Objects :
        (src # dst /\ Closed /\ CopyTags(src, dst)) =>
            ShownValues(dst)' =
                ShownValues(src) \cup
                {ValueOf(objectTags[k]) : k \in {j \in Shown(dst) : ~ objectTags[j].is_copied}}
      ]_vars

\* Both counts, taken from cached lineages, count the tags and the objects that
\* the parents give (get_object_tag_counts, add_usage_counts).
CountsFollowTheTree ==
    /\ ObjectTagsTypeOK
    /\ Closed => \A o \in Objects :
         ImplicitCount(o) =
            Cardinality({t \in DOMAIN tags : \E k \in Shown(o) :
                            objectTags[k].tag \in WithSubtags({t})})
    /\ \A t \in DOMAIN tags :
         UsageCount(tags[t].value) =
            Cardinality({o \in Objects : \E k \in OfObject(o) :
                            objectTags[k].tag \in WithSubtags({t})})
==============================================================================
