------------------------------ MODULE TagImport ------------------------------
(***************************************************************************)
(* Importing and exporting the tags of a taxonomy:                         *)
(* src/src/openedx_tagging/import_export/.                                 *)
(*                                                                         *)
(* An import compares a file with the tags, turns the difference into a    *)
(* plan of actions that is checked for errors, and then performs the       *)
(* actions in one transaction.  A TagImportTask row records how far it     *)
(* got, and keeps a second import from starting.  Tags can be edited       *)
(* between the steps, and the process can die after any of them.           *)
(***************************************************************************)
EXTENDS TagTree, Loops

CONSTANTS
    Workers,        \* processes that import
    Files,          \* what a file can hold: sequences of rows
    StartTags,      \* the rows that may be there at first
    MaxImports,     \* bound: import tasks ever created
    EditsDuring,    \* bound: requests edit the tags while an import is in one
                    \* of these phases
    NoParentId, Absent, Malformed

VARIABLES
    taskStatus,     \* the status of every TagImportTask, in order of creation
    import          \* what each worker is doing

importVars == <<taskStatus, import>>
allVars == <<tags, lastTag, instance, taskStatus, import>>

FinalStatus == {"success", "error"}
TaskStatus == {"loading_data", "planning", "executing"} \cup FinalStatus

TagItem == [id : ExternalIds, value : Values, parent_id : ExternalIds \cup {NoParentId}]

NoPlan == [actions |-> << >>, errors |-> FALSE]
NoImport == [phase |-> "none", task |-> 0, file |-> << >>, replace |-> FALSE,
             plan_only |-> FALSE, plan |-> NoPlan]

\* What the parser finds in a field of a row: an id or a value, nothing, or
\* something that is neither text nor a number.
NotText == {Absent, Malformed}
FileRow == [id : ExternalIds \cup NotText, value : Values \cup NotText,
            parent_id : ExternalIds \cup NotText]

ASSUME TagImportAssumption ==
    /\ IsFiniteSet(Values)
    /\ NoParentId \notin ExternalIds
    /\ Files \subseteq Seq(FileRow)
    /\ \A rows \in StartTags :
          /\ rows \in Seq(Tag)
          /\ \A s, t \in DOMAIN rows :
                rows[s].value = rows[t].value \/ rows[s].external_id = rows[t].external_id
                    => s = t
          /\ \A t \in DOMAIN rows : rows[t].parent \in DOMAIN rows \cup {NoTag}

\* The tag with an external id.
Exists(rows, id) == \E t \in DOMAIN rows : rows[t].external_id = id
KeyOf(rows, id) == CHOOSE t \in DOMAIN rows : rows[t].external_id = id

-----------------------------------------------------------------------------
(* Parsing: a file with one bad field gives no items at all                *)

RowHasErrors(row) == row.id \in NotText \/ row.value \in NotText \/ row.parent_id = Malformed

ParseErrors(file) == \E k \in DOMAIN file : RowHasErrors(file[k])

ParseTags(file) ==
    [k \in DOMAIN file |->
        [file[k] EXCEPT !.parent_id = IF @ = Absent THEN NoParentId ELSE @]]

-----------------------------------------------------------------------------
(* The plan: TagImportPlan and the validations of its actions              *)

Action(name, item) ==
    [name |-> name, id |-> item.id, value |-> item.value, parent_id |-> item.parent_id]

Planned(plan, name) ==
    {plan.actions[k] : k \in {j \in DOMAIN plan.actions : plan.actions[j].name = name}}

\* Mutant: the parent is in the database.
UnknownParentInDatabase(rows, plan, a) ==
    a.parent_id # NoParentId /\ ~ Exists(rows, a.parent_id)

\* _validate_parent: the parent is in the database or created before.
UnknownParent(rows, plan, a) ==
    /\ a.parent_id # NoParentId
    /\ ~ Exists(rows, a.parent_id)
    /\ \A c \in Planned(plan, "create") : c.id # a.parent_id

\* _validate_value: another tag has the value, unless a tag with that value is
\* going to be deleted, or an action before this one gives it to another tag.
DuplicateValue(rows, plan, a) ==
    \/ /\ \A d \in Planned(plan, "delete") : d.value # a.value
       /\ \E t \in DOMAIN rows : rows[t].value = a.value
    \/ \E b \in Planned(plan, "create") \cup Planned(plan, "rename") : b.value = a.value

DuplicateId(plan, a) == \E c \in Planned(plan, "create") : c.id = a.id

Invalid(rows, plan, a) ==
    \/ a.name \in {"create", "update_parent"} /\ UnknownParent(rows, plan, a)
    \/ a.name \in {"create", "rename"} /\ DuplicateValue(rows, plan, a)
    \/ a.name = "create" /\ DuplicateId(plan, a)

\* Actions with errors are planned all the same.
BuildAction(rows, plan, a) ==
    [actions |-> Append(plan.actions, a), errors |-> plan.errors \/ Invalid(rows, plan, a)]

\* Which actions an item of the file asks for.
UpdateParentApplies(rows, item) ==
    /\ Exists(rows, item.id)
    /\ LET parent == rows[KeyOf(rows, item.id)].parent
       IN  IF parent = NoTag THEN item.parent_id # NoParentId
                             ELSE rows[parent].external_id # item.parent_id

RenameApplies(rows, item) ==
    Exists(rows, item.id) /\ rows[KeyOf(rows, item.id)].value # item.value

CreateApplies(rows, item) == ~ Exists(rows, item.id)

BuildItem(rows, plan, item) ==
    LET Built(p, name) == BuildAction(rows, p, Action(name, item))
        moved == IF UpdateParentApplies(rows, item) THEN Built(plan, "update_parent") ELSE plan
        renamed == IF RenameApplies(rows, item) THEN Built(moved, "rename") ELSE moved
    IN  IF CreateApplies(rows, item) THEN Built(plan, "create")
        ELSE IF UpdateParentApplies(rows, item) \/ RenameApplies(rows, item) THEN renamed
        ELSE Built(plan, "without_changes")

BuildItems(rows, plan, file) ==
    ForEach(DOMAIN file, LAMBDA p, k : BuildItem(rows, p, file[k]), plan)

\* One tag of _build_delete_actions: the children that stay become roots, in
\* whatever order, unless an action before gives them another parent, and the
\* tag is deleted.
BuildDelete(rows, doomed, plan, t) ==
    LET item(u) == [id |-> rows[u].external_id, value |-> rows[u].value,
                    parent_id |-> NoParentId]
        moved(c) == \E a \in Planned(plan, "update_parent") :
                        a.id = rows[c].external_id /\ a.parent_id # rows[t].external_id
        orphans == {c \in ChildrenIn(rows, t) : c \notin doomed /\ ~ moved(c)}
        rooted == ForEach(orphans,
                          LAMBDA p, c : BuildAction(rows, p, Action("update_parent", item(c))),
                          plan)
    IN  BuildAction(rows, rooted, Action("delete", item(t)))

\* The tags a replacing import deletes.
Doomed(rows, file) ==
    {t \in DOMAIN rows : \A k \in DOMAIN file : file[k].id # rows[t].external_id}

\* _build_delete_actions; order is the order in which the database lists the
\* tags to delete, which the query leaves open.
BuildDeletes(rows, doomed, plan, order) ==
    ForEach(DOMAIN order, LAMBDA p, k : BuildDelete(rows, doomed, p, order[k]), plan)

\* Mutant: the deletions come last.
GenerateActionsDeletingLast(rows, file, replace, order) ==
    LET items == BuildItems(rows, NoPlan, file)
    IN  IF replace THEN BuildDeletes(rows, Doomed(rows, file), items, order) ELSE items

\* generate_actions
GenerateActions(rows, file, replace, order) ==
    LET deletes == IF replace THEN BuildDeletes(rows, Doomed(rows, file), NoPlan, order)
                              ELSE NoPlan
    IN  BuildItems(rows, deletes, file)

Orders(S) == {o \in [1 .. Cardinality(S) -> S] : \A t \in S : \E k \in DOMAIN o : o[k] = t}

-----------------------------------------------------------------------------
(* Performing the actions                                                  *)

Failed(db) == [db EXCEPT !.failed = TRUE]

SaveIn(db, i) ==
    IF CanSave(db.rows, i)
    THEN [db EXCEPT !.rows = Saved(db.rows, db.last, i),
                    !.last = IF i.pk = NoTag THEN @ + 1 ELSE @]
    ELSE Failed(db)

ParentKey(rows, id) == IF id = NoParentId THEN NoTag ELSE KeyOf(rows, id)

\* execute() of each kind of action; looking up a tag that is not there raises,
\* except for one that is to be deleted.
Perform(db, a) ==
    LET found == Exists(db.rows, a.id)
        key == KeyOf(db.rows, a.id)
        parentFound == a.parent_id = NoParentId \/ Exists(db.rows, a.parent_id)
        parent == ParentKey(db.rows, a.parent_id)
    IN  CASE db.failed -> db
          [] ~ db.failed /\ a.name = "create" ->
               IF ~ parentFound \/ found \/ \E t \in DOMAIN db.rows : db.rows[t].value = a.value
               THEN Failed(db) ELSE SaveIn(db, NewTag(db.rows, a.value, parent, a.id))
          [] ~ db.failed /\ a.name = "update_parent" ->
               IF ~ found \/ ~ parentFound
               THEN Failed(db) ELSE SaveIn(db, MovedTag(db.rows, key, parent))
          [] ~ db.failed /\ a.name = "rename" ->
               IF ~ found THEN Failed(db) ELSE SaveIn(db, RenamedTag(db.rows, key, a.value))
          [] ~ db.failed /\ a.name = "delete" ->
               IF found THEN [db EXCEPT !.rows = Without(db.rows, {key})] ELSE db
          [] OTHER -> db

Execution(rows, last, plan) ==
    ForEach(DOMAIN plan.actions, LAMBDA db, k : Perform(db, plan.actions[k]),
            [rows |-> rows, last |-> last, failed |-> FALSE])

-----------------------------------------------------------------------------
(* Exporting                                                               *)

\* The file that export() writes for tags listed in an order: tags refer to
\* their parents by external id.
Export(rows, order) ==
    [k \in DOMAIN order |->
        LET t == order[k]
        IN  [id |-> rows[t].external_id, value |-> rows[t].value,
             parent_id |-> IF rows[t].parent = NoTag THEN NoParentId
                           ELSE rows[rows[t].parent].external_id]]

\* The orders by lineage, for every order that the values may sort in: where
\* two lineages part, the values decide, and a lineage comes before its
\* continuations.
LineageOrders(rows) ==
    {o \in Orders(DOMAIN rows) : \E rank \in Orders(Values) :
        LET At(v) == CHOOSE n \in DOMAIN rank : rank[n] = v
            Before(a, b) ==
                \/ IsStrictPrefix(a, b)
                \/ \E n \in DOMAIN a \cap DOMAIN b :
                     /\ SubSeq(a, 1, n - 1) = SubSeq(b, 1, n - 1)
                     /\ At(a[n]) < At(b[n])
        IN  \A j, k \in DOMAIN o :
                j < k => Before(rows[o[j]].lineage, rows[o[k]].lineage)}

-----------------------------------------------------------------------------
(* The import task                                                         *)

ImportInit ==
    /\ tags \in StartTags
    /\ lastTag = Len(tags)
    /\ instance = [r \in Requests |-> NoInstance]
    /\ taskStatus = << >>
    /\ import = [w \in Workers |-> NoImport]

\* _check_unique_import_task: looks at the last task only.
MayImport == taskStatus # << >> => taskStatus[Len(taskStatus)] \in FinalStatus

SetStatus(w, status) == taskStatus' = [taskStatus EXCEPT ![import[w].task] = status]
GoOn(w, phase) == import' = [import EXCEPT ![w].phase = phase]

\* Mutant: the task is left as it is.
FinishQuietly(w, status) ==
    IF status = "error" THEN UNCHANGED taskStatus /\ import' = [import EXCEPT ![w] = NoImport]
    ELSE SetStatus(w, status) /\ import' = [import EXCEPT ![w] = NoImport]

Finish(w, status) == SetStatus(w, status) /\ import' = [import EXCEPT ![w] = NoImport]

StartImport(w) ==
    /\ import[w].phase = "none"
    /\ MayImport
    /\ GoOn(w, "checked")
    /\ UNCHANGED <<tags, lastTag, instance, taskStatus>>

CreateTask(w) ==
    /\ import[w].phase = "checked"
    /\ Len(taskStatus) < MaxImports
    /\ taskStatus' = Append(taskStatus, "loading_data")
    /\ import' = [import EXCEPT ![w].phase = "created", ![w].task = Len(taskStatus) + 1]
    /\ UNCHANGED treeVars

\* The task ends if the parser reports errors or raises; else the items are
\* kept and planning starts.
ParseFile(w, file, replace, plan_only) ==
    /\ import[w].phase = "created"
    /\ IF ParseErrors(file)
       THEN Finish(w, "error")
       ELSE /\ SetStatus(w, "planning")
            /\ import' = [import EXCEPT ![w].phase = "parsed", ![w].file = ParseTags(file),
                                        ![w].replace = replace, ![w].plan_only = plan_only]
    /\ UNCHANGED treeVars

PlanActions(w) ==
    /\ import[w].phase = "parsed"
    /\ Interleaved \/ Idle
    /\ \E order \in Orders(Doomed(tags, import[w].file)) :
         LET plan == GenerateActions(tags, import[w].file, import[w].replace, order)
         IN  IF plan.errors THEN Finish(w, "error")
             ELSE IF import[w].plan_only THEN Finish(w, "success")
             ELSE /\ SetStatus(w, "executing")
                  /\ import' = [import EXCEPT ![w].phase = "planned", ![w].plan = plan]
    /\ UNCHANGED treeVars

\* All actions, or none and an error.
ExecutePlan(w) ==
    /\ import[w].phase = "planned"
    /\ Interleaved \/ Idle
    /\ LET db == Execution(tags, lastTag, import[w].plan)
       IN  IF db.failed
           THEN /\ Finish(w, "error")
                /\ UNCHANGED <<tags, lastTag>>
           ELSE /\ tags' = db.rows
                /\ lastTag' = db.last
                /\ import' = [import EXCEPT
                        ![w] = [NoImport EXCEPT !.phase = "executed", !.task = import[w].task]]
                /\ UNCHANGED taskStatus
    /\ UNCHANGED instance

EndImport(w) ==
    /\ import[w].phase = "executed"
    /\ Finish(w, "success")
    /\ UNCHANGED treeVars

\* The process dies: what it has not committed is lost.
Crash(w) ==
    /\ import[w].phase \notin {"none", "crashed"}
    /\ import' = [import EXCEPT ![w] = [NoImport EXCEPT !.phase = "crashed", !.task = import[w].task]]
    /\ UNCHANGED <<tags, lastTag, instance, taskStatus>>

ImportNext ==
    \/ /\ \E w \in Workers : import[w].phase \in EditsDuring
       /\ Edit
       /\ UNCHANGED importVars
    \/ \E w \in Workers :
          \/ StartImport(w)
          \/ CreateTask(w)
          \/ \E file \in Files, replace, plan_only \in BOOLEAN :
                ParseFile(w, file, replace, plan_only)
          \/ PlanActions(w)
          \/ ExecutePlan(w)
          \/ EndImport(w)
          \/ Crash(w)

ImportSpec == ImportInit /\ [][ImportNext]_allVars

-----------------------------------------------------------------------------
(* Properties                                                              *)

ImportTypeOK ==
    /\ TypeOK
    /\ taskStatus \in Seq(TaskStatus)
    /\ \A w \in Workers : /\ import[w].task \in 0 .. Len(taskStatus)
                          /\ import[w].file \in Seq(TagItem)
                          /\ import[w].plan.errors = FALSE

IdsOf(file) == {file[k].id : k \in DOMAIN file}

\* Nothing was edited between the plan and now.
PlanIsFresh(w) ==
    \E order \in Orders(Doomed(tags, import[w].file)) :
        import[w].plan =
            GenerateActions(tags, import[w].file, import[w].replace, order)

\* A replacing import of a file that names no tag twice, whose plan is still
\* fresh, leaves exactly the tags of the file, with the values and parents the
\* file gives (a parent the file leaves out makes a root), and every tag that
\* existed before is the same row, so that objects stay tagged with it
\* (generate_actions and execute, import_plan.py:129, 194).
ReplaceYieldsTheFile ==
    [][\A w \in Workers :
        (/\ import[w].phase = "planned" /\ import'[w].phase = "executed"
         /\ import[w].replace /\ PlanIsFresh(w)
         /\ Cardinality(IdsOf(import[w].file)) = Len(import[w].file)) =>
        LET file == import[w].file
        IN  /\ {tags'[t].external_id : t \in DOMAIN tags'} = IdsOf(file)
            /\ \A k \in DOMAIN file :
                 LET t == KeyOf(tags', file[k].id)
                 IN  /\ tags'[t].value = file[k].value
                     /\ IF file[k].parent_id \in IdsOf(file)
                        THEN tags'[t].parent = KeyOf(tags', file[k].parent_id)
                        ELSE tags'[t].parent = NoTag
                     /\ Exists(tags, file[k].id) => t = KeyOf(tags, file[k].id)
      ]_allVars

\* What a tag says of itself and of its parent, without keys.
Shape(rows) ==
    {[id |-> rows[t].external_id, value |-> rows[t].value,
      parent |-> IF rows[t].parent = NoTag THEN NoParentId
                 ELSE rows[rows[t].parent].external_id] : t \in DOMAIN rows}

\* An exported taxonomy whose lineages are right can be imported: into its own
\* it changes nothing, and into an empty taxonomy it makes the same tree, unless
\* a move has taken a tag deeper than a save allows.  The order of the file
\* matters for that: parents must come first, which the lineages see to
\* (parsers.py:207, get_filtered_tags).
ExportCanBeImported ==
    /\ ImportTypeOK
    /\ LineageFollowsParent => \A order \in LineageOrders(tags) :
           LET file == Export(tags, order)
               anew == GenerateActions(<< >>, file, FALSE, << >>)
               again == GenerateActions(tags, file, TRUE, << >>)
               made == Execution(<< >>, 0, anew)
           IN  /\ ~ again.errors
               /\ \A k \in DOMAIN again.actions : again.actions[k].name = "without_changes"
               /\ ~ anew.errors
               /\ (\A t \in DOMAIN tags : tags[t].depth <= TAXONOMY_MAX_DEPTH) =>
                      ~ made.failed /\ Shape(made.rows) = Shape(tags)

\* An import stops others only while it is in progress or after its process
\* died: every error path gives the task a final status (import_tags).
BlockedOnlyWhileImporting ==
    ~ MayImport =>
        \E w \in Workers : import[w].phase # "none" /\ import[w].task = Len(taskStatus)
==============================================================================
