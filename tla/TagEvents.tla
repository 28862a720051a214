------------------------------ MODULE TagEvents ------------------------------
(***************************************************************************)
(* What others hear of the tags of objects: signal_handlers.py and         *)
(* tasks.py under src/src/openedx_tagging, on top of ObjectTags.           *)
(*                                                                         *)
(* Saving or deleting a tag queues a task, and the task announces objects. *)
(* Tagging an object announces nothing.  A search index reads the tags of  *)
(* the objects it hears of, some time later, with the whole path of each.  *)
(***************************************************************************)
EXTENDS ObjectTags

CONSTANT MaxTasks     \* bound: tasks in the queue

VARIABLES
    tasks,            \* queued tasks
    announced,        \* objects announced and not yet read by the index
    index,            \* the paths that the index lists for each object
    touched           \* objects whose tags were changed by calls that announce
                      \* nothing, since the index read them

eventVars == <<tasks, announced, index, touched>>
allVars == <<vars, eventVars>>

TagEventsInit ==
    /\ ObjectTagsInit
    /\ tasks = {}
    /\ announced = {}
    /\ index = [o \in Objects |-> {}]
    /\ touched = {}

\* The rows of an object that are linked to a tag, and the paths of those tags.
Linked(o) == {k \in OfObject(o) : objectTags[k].tag # 0}
Paths(o) == {tags[objectTags[k].tag].lineage : k \in Linked(o)}

-----------------------------------------------------------------------------
(* Queueing: the handlers of saved and deleted tags                        *)

Task(t, objects) == [tag |-> t, objects |-> objects]

Queue(new) ==
    /\ Cardinality(tasks \cup new) <= MaxTasks
    /\ tasks' = tasks \cup new
    /\ UNCHANGED <<announced, index, touched>>

\* Mutant: the objects that have the tag itself.
ObjectsWith(t) ==
    {objectTags[k].object : k \in {j \in DOMAIN objectTags : objectTags[j].tag = t}}

\* The objects tagged with a tag or one below it, as its lineage finds them.
ObjectsUnder(t) ==
    {objectTags[k].object : k \in {j \in DOMAIN objectTags :
        /\ objectTags[j].tag # 0
        /\ IsPrefix(tags[t].lineage, tags[objectTags[j].tag].lineage)}}

\* _is_explicit_tag_delete for a queryset of tags: no ancestor is in it.
ExplicitlyDeleted(ts) ==
    {t \in ts : \A a \in ts \ {t} : ~ IsPrefix(tags[a].lineage, tags[t].lineage)}

\* tag_pre_delete: one task for every explicitly deleted tag with objects.
DeletionTasks(ts) ==
    {Task(NoTag, ObjectsUnder(t)) : t \in {x \in ExplicitlyDeleted(ts) : ObjectsUnder(x) # {}}}

\* tag_post_save
TagIsSaved ==
    \E user \in Users, t \in DOMAIN tags, value \in Values :
        UpdateTagInTaxonomy(user, t, value) /\ Queue({Task(t, {})})

\* tag_pre_delete.  With a taxonomy go its tags, and the root tags stand for the
\* rest.
TagsAreDeleted ==
    \E user \in Users :
       \/ \E ts \in SUBSET DOMAIN tags, with_subtags \in BOOLEAN :
             DeleteTagsFromTaxonomy(user, ts, with_subtags) /\ Queue(DeletionTasks(ts))
       \/ /\ DeleteTaxonomy(user)
          /\ Queue(DeletionTasks({t \in DOMAIN tags : Len(tags[t].lineage) = 1}))

\* No handler listens to the rows of objects.
NothingIsQueued ==
    /\ touched' = touched \cup {o \in Objects : Paths(o)' # Paths(o)}
    /\ UNCHANGED <<tasks, announced, index>>

\* The calls that tag objects.
ObjectsAreTagged ==
    \/ \E user \in Users, o \in Objects, values \in TagLists, create_invalid \in BOOLEAN :
          TagObject(user, o, values, create_invalid)
    \/ \E o \in Objects, values \in TagLists, s \in Settings :
          TagObjectByExportId(o, values, s.export_id)
    \/ \E src, dst \in Objects : CopyTags(src, dst)
    \/ \E o \in Objects : UnmarkCopiedTags(o) \/ DeleteObjectTags(o)

\* The calls that make taxonomies and tags; a new tag may be linked to old rows.
TagsAreAdded ==
    \E user \in Users :
       \/ \E s \in Settings : CreateTaxonomy(user, s) \/ UpdateTaxonomy(user, s)
       \/ \E s \in Settings, value \in Values : ImportTaxonomy(user, s, value)
       \/ \E value \in Values, parent \in DOMAIN tags \cup {NoTag} :
             AddTagToTaxonomy(user, value, parent)

-----------------------------------------------------------------------------
(* Announcing: a worker runs the queued tasks, in any order                *)

\* The objects linked to a saved tag, if it is still there, or those listed.
TaskObjects(task) ==
    IF task.tag # NoTag THEN {o \in Objects : \E k \in OfObject(o) : objectTags[k].tag = task.tag}
                        ELSE task.objects

RunTask(task) ==
    /\ task \in tasks
    /\ tasks' = tasks \ {task}
    /\ announced' = announced \cup TaskObjects(task)
    /\ UNCHANGED <<vars, index, touched>>

\* Whoever tagged an object may announce it.
CallerAnnounces(o) ==
    /\ o \in touched
    /\ announced' = announced \cup {o}
    /\ UNCHANGED <<vars, tasks, index, touched>>

\* The index reads the tags of an object it heard of.
Reindex(o) ==
    /\ o \in announced
    /\ index' = [index EXCEPT ![o] = Paths(o)]
    /\ announced' = announced \ {o}
    /\ touched' = touched \ {o}
    /\ UNCHANGED <<vars, tasks>>

-----------------------------------------------------------------------------
TagEventsNext ==
    \/ TagObjectWrite /\ NothingIsQueued
    \/ /\ call = NoCall \/ Interleaved
       /\ \/ (ObjectsAreTagged \/ TagsAreAdded) /\ NothingIsQueued
          \/ TagIsSaved \/ TagsAreDeleted
    \/ \E task \in tasks : RunTask(task)
    \/ \E o \in Objects : CallerAnnounces(o) \/ Reindex(o)

\* Every task that can ever be queued.
AnyTask == [tag : 1 .. MaxTags, objects : {{}}] \cup [tag : {NoTag}, objects : SUBSET Objects]

\* The workers run every task that is queued, and the index follows.
TagEventsSpec ==
    /\ TagEventsInit
    /\ [][TagEventsNext]_allVars
    /\ \A task \in AnyTask : WF_allVars(RunTask(task))
    /\ \A o \in Objects : WF_allVars(Reindex(o))

-----------------------------------------------------------------------------
(* Properties                                                              *)

\* After tags are renamed or deleted, one by one, by subtree or with their
\* taxonomy, the index no longer lists the old value of a tag for an object that
\* had it, as long as its rows did not change without a word.  (Of
\* the path above the value nothing is claimed: a renamed parent is announced
\* only for its own objects.)  (signal_handlers.py, tasks.py)
OldValuesLeaveTheIndex ==
    \A o \in Objects :
        []<>(o \in touched \/
             \A path \in index[o] : \E k \in Linked(o) :
                Last(path) = tags[objectTags[k].tag].value)
==============================================================================
