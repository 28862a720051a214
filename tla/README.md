# openedx-core in TLA+

A verification project for `openedx-core`: the Django applications that store
learning content (`openedx_content`) and tag it (`openedx_tagging`). The modules
here model the code's own control: which rows each operation changes, in which
order, under which guards. Paths below are relative to
`src/openedx_content/applets/` or, for tagging, to `src/openedx_tagging/`.

## 1. Inventory

| Component | State it keeps | Operations | What is hard about it |
|---|---|---|---|
| **publishing** (`publishing/`) | entities, immutable versions with dependencies, the Draft and Published rows, DraftChangeLog / PublishLog with one record per entity, side effects, cached dependency digests, the stack of open bulk contexts | new versions, moving, deleting and resetting drafts, bulk contexts, publishing, histories, events | records are collapsed and cancelled; consequences are recorded lazily when a context exits; digests are cached on log records; querysets are lazy; contexts nest; events wait for the commit |
| **containers** (`containers/`, `units/`, `subsections/`, `sections/`) | entity lists with ordered rows, pinned or not, shared between versions | create and next version, children of either branch, as-of queries, `contains_unpublished_changes`, lookups around a container | reads through rows that may not exist; relies on publishing's digests; counts, lists and lookups are queries of their own |
| **components**, **media** | component versions and their path -> media map; media rows by digest, and files outside the database | next version by merging media, get-or-create by digest, redirects to assets | a read before the transaction; files do not roll back |
| **collections** | membership of entities, soft deletion, events | add, remove, set, delete, restore; a task that follows draft events | a subscriber must be able to follow the membership from events alone; calls are several statements without a transaction of their own |
| **backup and restore** | a ZIP of TOML files | dump, load in one transaction | the dump is not a transaction; file names collide or lose parts; a load must reproduce drafts and published versions |
| **tagging** (`models/base.py`, `api.py`, `signal_handlers.py`, `tasks.py`) | taxonomies, a forest of tags with cached depth and lineage, object tags with cached values | add, rename, move, delete tags; tag, copy, resynchronise objects; counts; notifications | cached data cascades; rows outlive what they refer to; checks made outside transactions; notifications follow later |
| **import and export** (`import_export/`) | import tasks | parse, plan, execute, export | a plan refers to planned rows; deletions cascade; tasks can die |
| **data migrations** | the columns they fill | backfill of histories, dependencies, digests, lineages, external ids | they must agree with the code that keeps the same columns up to date |
| **REST API**, **rules** (`rest_api/`, `rules.py`) | none | views over the operations above, permissions | several calls without a transaction |
| **catalog**, **competency-based education**, shared library | rows with constraints | create, read, update, delete | little of its own |

How they interact: every kind of content is a publishable entity, so containers,
components and restore change state only through publishing's functions;
containers hand their unpinned children to publishing as *dependencies* and read
the *digests* back; collections listen to publishing's *events*; backup reads
everything and writes through the same functions; imports and requests edit the
same tags; tagging refers to content by opaque object ids only.

What makes each correct. Publishing: the logs must be enough to reconstruct both
branches, a digest must never be stale, a publish must carry what it says it
carries, subscribers must be told of exactly what was committed. Containers: the
children a reader sees are those of the branch, at the right versions. Components:
no edit is lost, and who is sent to a file finds it. Collections: a subscriber
knows what exists and what it holds. Backup: a load gives back what a dump took.
Tagging: cached lineages equal the real ones, objects carry what they were tagged
with, and an import yields its file. `PROJECT.json` lists the hazards, line by
line, with the properties that cover them.

## 2. Modules

| Module | Models |
|---|---|
| `DependencyGraph` | one hop and any number of hops along the dependency relation of a branch |
| `Publishing` | the publishing applet: one action per operation, one variable per table |
| `SideEffectWalk` | the loop of `_create_side_effects_for_change_log`, one stack frame at a time |
| `Containers` | the containers applet on top of `Publishing`: entity lists, new versions, reads of children |
| `ContentQueries` | what both applets answer: unpublished changes, edit and publish histories, lookups around containers |
| `ContentUpgrade` | the migrations that rebuild change logs (0007) and dependencies and digests (0010) |
| `Components` | components, their versions, media rows and files |
| `Collections` | collections and learning packages, their events, and a subscriber |
| `Backup` | a dump beside editing authors, the archive, and the stages of a load |
| `TagForest` | abstract: a forest of tags that are added, moved and deleted with what is below them |
| `TagTree` | the tags of a taxonomy with parents, cached depth and lineage; implements `TagForest` |
| `TagUpgrade` | the migrations that fill depth and lineage (0020) and external ids (0022) |
| `Loops` | a `for` loop over rows or over a list, as a recursive function |
| `ObjectTags` | on top of `TagTree`: taxonomies, objects tagged with them, permissions |
| `TagEvents` | on top of `ObjectTags`: the tasks that tag changes queue, and a search index that hears of objects |
| `TagImport` | on top of `TagTree`: parsing, plans, execution, export, import tasks |
| `MC...` | the small instances TLC checks |
| `Publishing_proofs`, `Publishing_digest_proofs` | theorems about `Publishing`, the second module on the invariants of the first |
| `Containers_proofs` | theorems about `Containers`, `ContentQueries` and the migrations of `ContentUpgrade`, on top of those about `Publishing` |
| `SideEffectWalk_proofs`, `Components_proofs`, `Backup_proofs` | theorems about these modules |
| `TagTree_proofs` | theorems about `TagTree`, `TagUpgrade` and `ObjectTags` |
| `TagImport_proofs` | theorems about the tasks, exports and replacing imports of `TagImport`, on top of those about tags |

### Publishing

A branch (`draft`, `published`) is a record of `rows` (the Draft or Published
table) and `recs` (DraftChangeLogRecord or PublishLogRecord, per entity). A
version is its number and 0 stands for NULL, as everywhere. A log record is
identified by its log and its entity, the unique constraint of both tables.

| Code | Action or operator |
|---|---|
| `create_publishable_entity_version` | `CreateVersion` |
| `set_draft_version`, inside / outside a context | `SetDraftVersion` -> `ChangeInContext` / `ChangeInOwnLog` |
| `soft_delete_draft`, `reset_drafts_to_published` | `SoftDeleteDraft`, `ResetDraftsToPublished` |
| `_add_to_existing_draft_change_log` | `AddToChangeLog` |
| `DraftChangeLogContext.__enter__`, `__exit__` | `BulkEnter`, `BulkExit`; with an exception `BulkAbort` |
| `get_active_draft_change_log` | `ActiveLog` |
| `publish_from_drafts`, `publish_all_drafts` | `PublishFromDrafts`, `PublishAllDrafts` |
| `_create_side_effects_for_change_log` | `CreateSideEffects` |
| `update_dependencies_hash_digests_for_log`, `hash_for_log_record` | `UpdateDependenciesHashDigests`, `HashDigests` |
| `_emit_event_for_change_log` | `ChangeLogEvent`, `OnCommit` |

Each operation runs in one transaction, so it is one action. `committed` is what
other connections see; it follows the live tables whenever no context is open,
and `BulkAbort` goes back to it. `outbox` holds the events registered with
`on_commit`, `events` those sent.

Abstractions, all of them about data:
* A digest is the set of (dependency, version, digest) triples that the code
  hashes: the 4-byte hash is treated as collision-free. The recursion of
  `hash_for_log_record` is unfolded four times, as deep as component, unit,
  subsection and section can nest (`Level`).
* Primary keys of draft records are numbers from `serial`, which also numbers
  the draft logs; only their order matters. Publish records are ordered by
  their log.
* Users, times, titles and messages are left out.
* The lazy querysets of `publish_from_drafts` are modelled by what they select
  when they are run: a caller's queryset is `"fixed"` (it selects the same
  drafts again) or `"unpublished"` (it filters on `with_unpublished_changes()`
  and selects nothing once they are published).
* The outcome of an exception in a bulk context is the rollback of the
  outermost transaction (`BulkAbort`); contexts do not use savepoints, so an
  inner context cannot be rolled back alone.

### SideEffectWalk

`Publishing` takes the whole walk as one step: everything in `Ancestors` of the
changed entities gets a record. `SideEffectWalk` keeps the code's loop, stack
and `processed_entity_ids`, and `WalkReachesAncestors` shows that they end with
the same result although visited entities are skipped. Queries without an
`ORDER BY` return their rows in any order (`FramesFor`).

### Containers, ContentQueries and ContentUpgrade

`Containers` EXTENDS `Publishing` with one variable, `lists`: the entity list of
every version of a container, a sequence of rows (entity, pin). A list is never
changed once it is created, so a list shared by two versions is the same
sequence twice. `CNext` takes publishing's actions as they are, except that the
versions of containers are made by `CreateContainerVersion` (create, replace,
append, remove) and `ChangeContainerMetadata` (`entities=None`), both through
`NewContainerVersion` = `_create_container_version`, and that a rollback takes the
lists of undone versions with it (`AbortContainers`). What the applet reads is an
operator each: `EntitiesInContainer`, `EntitiesInContainerAsOf`,
`ContainsUnpublishedChanges`. Reads that raise are described by `Readable` and
`ContainsUnpublishedChangesReturns`. Version numbers are those of `versioning.latest`
plus one; `force_version_num` is not modelled.

`ContentQueries` adds no state: it is the queries (`EntitiesWithUnpublishedChanges`
with SQL's comparison of NULLs, `DraftHistory`, `PublishEntries`,
`ContributorRecords`, `ContainersWithEntity`, `ChildrenCount`,
`DescendantComponents`), evaluated in every state of `Containers`. The time of a log
is the position of its event. `ContentUpgrade` runs the migrations in every such
state, on the tables with the migrated columns taken out; 0010 makes pinned
children dependencies too, so its properties are about states without children
that are only pinned, which is what its authors expect of existing data.

### Components

| Code | Action |
|---|---|
| `get_or_create_text_media`, `get_or_create_file_media` | `GetOrCreateTextMedia`, `GetOrCreateFileMedia` |
| either, rolled back after or during the write of its file | `MediaInterrupted` |
| `create_component`, `create_component_and_version`, `create_component_version` | the actions of these names |
| `create_next_component_version`, up to and from its transaction | `CreateNextVersion`, `FinishNextVersion`; rolled back: `NextVersionInterrupted` |
| `_set_component_version_media` | `Acceptable`, `KeyFor`, `SaveVersion` |
| `Media.write_file` | `WriteFiles`, `CutShort` |
| `get_redirect_response_for_component_asset` | `AssetResponse` |
| deletion of a learning package | `DeletePackage` |

A file is absent, cut short or whole. `overwrites` says, once and for all, whether
the storage backend replaces a file of the same name, as `write_file` hopes when
sizes differ. Only the read in `create_next_component_version` is outside a
transaction, so it is the only call of two steps. Media handed over as an id is not
looked up (`GivenAsIds`), so a component can hold media of another package.

### Collections

A call of the api reads rows, saves them and sends events in separate statements, so
it is several steps: `Start` takes what it reads and what it is going to do, and
`SaveMembers`, `SaveRow`, `DropRow`, `SaveSet`, `SavePackage`, `DropPackage` and
`SendEvents` are the rest, between which other callers and the tasks move.

| Code | Action, and the steps that follow it |
|---|---|
| `create_learning_package`, `update_learning_package`, a deletion of one | `CreateLearningPackage`, `UpdateLearningPackage`: save, send; `DeleteLearningPackage`: delete, send |
| `create_collection`, `update_collection`, `restore_collection` | the actions of these names: save, send |
| `delete_collection` | `DeleteCollection`: save, send, or send, delete |
| `add_to_collection`, `remove_from_collection` | `AddToCollection`, `RemoveFromCollection`: members, save, send |
| `set_collections` | `SetCollections`: set, send |
| `emit_collections_changed_for_entity_changes_task` | `RunTask`: reads the members; then send |
| `transaction.atomic()` of a caller | `Begin`, `Commit`, `Abort` |

`Model.save()` writes every field that was read, inserts a row that is not there any more,
or violates a constraint (`Raise`); a call knows by `held` which of the rows it read are
still the ones in the table. Inside a caller's transaction events wait in `open` for the
commit, which sends them after it. The database is one record `db`, so that a transaction
can be rolled back. `index` is not code: it is a subscriber that applies the events it hears
(`Hears`) and nothing else, and the property compares it with `db`. Drafts change in
publishing (`DraftsChange`, external), which queues the task.

`SubscribersFollow` speaks of packages and collections that are `Settled`: no call is at work
on them, and no two ever were at a time, which `mixed` remembers. Of the others the code
keeps no promise (section 6). Left out: the reads of one call are one step, and so are
the events it sends one after the other; nobody else moves while a transaction is open; a
collection is known by its code, so a row that is deleted and made again has the same name,
and `held` tells the two apart.

### Backup

A dump reads the entities when it starts (`DumpStart`), writes one at a time
(`DumpEntity`), then reads which collections there are (`DumpCollections`) and of each its
entities when its turn comes (`DumpCollection`), and ends (`DumpEnds`), or fails and leaves a
readable, partial file (`DumpFails`). `Author` is what others do before and meanwhile.
A path of the archive is a record of the parts that the loader tells files by;
names get a hash when their slug is taken (`FileName`). Where a part is missing because a slug
or the name of a component type is empty (`OddTypes`), the loader does not find the TOML file
of a static file (`Short`). `blank` says that a title or the user's e-mail is one that the
loader's serializers refuse. A load goes through
`LoadCheck`, `LoadExtract`, `LoadSave`, `LoadPublish` and `LoadDrafts`, one
transaction that commits at the end or when it returns errors, and is rolled back
when it raises. `Damage` removes a file from the archive or a field from a file.

`QuietBackupLoads`, a part of `RestoreMatchesSource`, claims that a backup loads where nothing
is `blank` and the content is `Supported`: no plugin's containers, no component without a
slug or with an odd type. Taken for granted about strings: an entity ref of a component is
its namespace, type and code joined by colons, none of which a namespace or type has, and
a container's is none like it; refs have no space at their ends, which the serializers would
cut off; no slug is `component_versions`, nor equals another's slug with its hash; paths in a
component are relative and do not end in `.toml` (section 6).

### Tagging

`TagTree`: a request loads a tag and its parent (`AddTag`, `UpdateTag`, `MoveTag`)
and saves it later (`Save`), with the cached parent's lineage as `Tag.save()` uses
it. `Saved` is the row and the cascade: one UPDATE of every row whose lineage has the
old one as a prefix. Lineages are sequences of values; the code joins them with
tabs. `Interleaved` lets other requests run between load and save, `MovesBelowSelf`
lets an import move a tag below its own descendant; the code forbids neither, see
section 6. `ImplementsForest` maps the cached lineage to the path of identities.

`TagUpgrade` runs the two migrations on every reachable tree, as `ContentUpgrade` does.
`PopulateRestoresTheCopies` is about trees no deeper than the levels 0020 walks:
`Tag.save()` checks the depth of the tag that is saved only, so a move can take what is
below it deeper.

`ObjectTags`: `TagObject` is `tag_object` up to its transaction, where it reads the
current rows, checks the limits and plans, and `TagObjectWrite` is the transaction.
Every other call is one step: taxonomies (`CreateTaxonomy`, `ImportTaxonomy`,
`UpdateTaxonomy`, `DeleteTaxonomy`), tags (`AddTagToTaxonomy`, `UpdateTagInTaxonomy`,
`DeleteTagsFromTaxonomy`), rows (`CopyTags`, `UnmarkCopiedTags`, `DeleteObjectTags`).
`ResyncObjectTags` saves rows one by one and stops at the first that violates a
unique constraint. `SetNull` is the database's ON DELETE. `TagObjectByExportId` is
`tag_object` without a taxonomy, whose rows are linked to no tag. The REST serializer cuts
blanks off the values; a caller in Python that hands over values with blanks, which
`tag_object` strips after it dropped repetitions, is not modelled.

`TagEvents` adds what others hear. The signal handlers queue tasks when a tag is saved or
deleted (`TagIsSaved`, `TagsAreDeleted`, with `DeletionTasks`), `RunTask` is a worker that runs
one and announces objects, in any order, and `index` is an outside service that reads an
object's tags, with the path of each, some time after it heard of it (`Reindex`). Calls that tag
objects announce nothing (`NothingIsQueued`): an object whose rows they changed is `touched`
until the index reads it, for whatever reason, or because the caller announced it
(`CallerAnnounces`). `OldValuesLeaveTheIndex` is about the others, and about the values of an
object's own tags: of the path above them the code keeps no promise (section 6).

`TagImport`: `GenerateActions` is the plan, `Invalid` the validations, `Perform` the
`execute` of each action. A worker goes through `StartImport`, `CreateTask`,
`ParseFile`, `PlanActions`, `ExecutePlan`, `EndImport` and can die between any two
(`Crash`); requests edit the tags between plan and execution. The order in which the
database lists the tags to delete is open (`Orders`). Items, actions and deletions are
gone through with `ForEach`, as the code's `for` loops do.

## 3. Runs

| Run | Question | Properties | Instance |
|---|---|---|---|
| `children` | Do author, learner and historian read the same unit as far as they should, do histories lead to what they explain, do the queries and the migrations agree with the tables, and does the containers applet keep to publishing's interface? | `UnchangedContainersReadAlike`, `SnapshotsStayTrue`, `ImplementsPublishing`, `HistoryLeadsToDraft`, `PublishEntriesExplainThePublish`, `QueriesAgree`, `BackfillRestoresDigests`, `BootstrapExplainsDrafts` | a component and a unit with an unpinned child or a pinned and an unpinned one, replaced, appended and removed; 4 draft changes, 2 publishes |
| `publish_long` | Are digests fresh and truthful, does a publish carry its dependencies, and does a reset leave nothing unpublished, through three levels? | `DigestsFresh`, `UnpublishedChangesDetected`, `PublishIncludesDependencies`, `ResetLeavesNothingUnpublished` | component, unit, subsection; built and published, then 2 more draft changes and 2 publishes in any order |
| `bulk` | Do collapsed and cancelled records make a true, immutable history, and do entity lists survive rollbacks? | `TypeOK`, `HistoryReplays`, `NoEmptyDraftLog`, `ListsMatchVersions`, `LogsCaptureAfterState`, `CommittedHistoryImmutable` | a component and a unit with two possible lists, 4 logs, contexts, aborts, 1 publish |
| `two_packages` | Do nested contexts keep packages and events apart? | `RecordsInOwnPackage`, `EventsReplay` | two packages, contexts nested two deep |
| `walk` | Does the loop reach every ancestor and nothing else, and end, on cycles too? | `WalkReachesAncestors`, `Termination` | every nesting of 4 entities and every relation on 3, every changed set and order |
| `components` | Are files there when readers are sent to them, and is no edit lost? | `ComponentsTypeOK`, `RedirectsFindTheFile`, `NextVersionsBuildOnTheLast` | one component, two packages, two paths and a bad one, two versions, one call in progress beside all others, both kinds of storage |
| `collections` | Can a subscriber follow packages, collections and members from events? | `SubscribersFollow` | two collections of a package, one entity, two callers and a worker with two unfinished calls at a time, 1 task, 2 events per transaction |
| `backup` | Does a load give back what a dump took, and never more? | `RestoreMatchesSource`, `RestoreInventsNothing` | two components whose names share a slug, one of a type without a name whose code has no slug, a unit, a collection, 2 edits before and during the dump, one archive, blank fields or none, damaged or not |
| `tags` | Do cached lineages follow the parents, do the queries see the tree, does it implement a forest, do the migrations rebuild it? | `QueriesSeeTheTree`, `PopulateRestoresTheCopies`, `BackfilledIdsAreUnique`, `ImplementsForest` | 3 tags of 4 values, three levels |
| `tag_import` | Does a replacing import yield its file, can exports be imported, what blocks an import? | `ExportCanBeImported`, `BlockedOnlyWhileImporting`, `ReplaceYieldsTheFile` | trees of 0 or 3 tags, one of them a chain that moves have made deeper than a save allows, every file of up to one row and many of two and three, edits between plan and execution, a crash anywhere |
| `object_tags` | Does tagging apply exactly, do copies follow, are tags that come back linked again, do counts follow the tree? | `CountsFollowTheTree`, `TaggingAppliesExactly`, `ReaddedTagsAreRelinked`, `CopiesFollowTheSource` | 2 objects, 2 tags, 2 rows, taxonomies closed, free text or single, deleted and created again |
| `tag_events` | Does an index that follows notifications drop values that tags no longer have? | `OldValuesLeaveTheIndex` | 1 object, 2 tags on two levels, 2 rows, 2 queued tasks in any order |

Bounds are constants of the modules (`MaxVersion`, `MaxSerial`, `MaxPublishes`,
`MaxSelected`, `MaxNesting`, `MaxTags`, `MaxObjectTags`, `MaxTasks`,
`MaxTaxonomies`, `MaxImports`, `MaxEdits`, `MaxOutbox`) and appear only in guards;
`collections` also has a state constraint (`WithinBounds`: two calls at a time, at most one
object that calls overlapped on, and no transaction or task after they did). Where the system may stop because of them, deadlock is not checked. They are enough
for the interesting cases: two versions allow a change and its undoing, four logs
allow the creation of two entities, a deletion and a restoration, two publishes allow
a re-publish after each; three tags on three levels allow a subtree to be renamed,
moved and deleted under a child that stays behind; two rows let an object keep, lose
and regain a tag; two queued tasks can overtake each other; two edits let a dump see an old entity beside
a new one, or a collection that changes after it was listed. `publish_long` fixes how
the content is built (`BuiltBottomUp`, an action constraint) in order to spend the
bound on what follows. Symmetry is used only over values that no operator orders.
Every property also fails, in the same run, for a mutated definition that stands for
a plausible bug. A module's type invariant is either a property of its own or the
first conjunct of the property that reads most of its state (`WalkReachesAncestors`,
`QueriesSeeTheTree`, `CountsFollowTheTree`, `ExportCanBeImported`, `SubscribersFollow`,
`RestoreMatchesSource`).

Contexts of one package nested in each other are excluded (`Reentrant = FALSE`)
from the runs: the code notes that it does not support them, and
`LogsCaptureAfterState` fails with them, since the outer log keeps an after-state
that an inner change has replaced. Four theorems about publishing allow them (section 4). `bulk` and `children` run
`Containers`, of which `Publishing` is the part `ContainersImplementPublishing` speaks
of; the other publishing runs need no lists.

Fairness. `SideEffectWalk` claims that it ends under weak fairness of its next step: it
is a `while` loop of ordinary sequential code. `TagEventsSpec` claims that old values leave
the index under weak fairness of every queued task, as Celery's workers run what is
in the queue, and of the index, which reads every object it was told of. Nothing else is
assumed to happen; calls that tag objects and edits of tags may go on for ever.

## 4. Proofs

TLAPS checks, for every value of the constants that satisfies the assumptions of the
module (any entities, packages, levels, dependency sets, callers, media and bounds).
Three assumptions are made by single theorems. (R) `~Reentrant`: no context is opened
inside one of the same package, which the code does not support (`publishing/api.py:991`)
and with which TLC refutes `HistoryReplays`, `LogsCaptureAfterState`, `EventsReplay`,
`DigestsFresh` and `UnpublishedChangesDetected`. (Q) `"unpublished" \notin
QuerysetKinds`: the caller's queryset selects the same drafts when it is run again;
without it the property is false (section 6). (T) `~Interleaved, ~MovesBelowSelf`:
requests do not overlap and no import moves a tag below itself; without either the code
lets the copies go stale (section 6).

| Theorem | Statement | Assuming | Run that checks it on an instance |
|---|---|---|---|
| `TypeCorrect` | `Spec => []TypeOK` (Publishing) | | `bulk` |
| `OwnPackage` | `Spec => []RecordsInOwnPackage` | | `two_packages` |
| `NoEmptyLog` | `Spec => []NoEmptyDraftLog` | | `bulk` |
| `HistoryImmutable` | `Spec => CommittedHistoryImmutable` | | `bulk` |
| `HistoryIsComplete` | `Spec => []HistoryReplays` | R | `bulk` |
| `ClosedLogsCapture` | `Spec => LogsCaptureAfterState` | R | `bulk` |
| `EventsTellTheStory` | `Spec => []EventsReplay` | R | `two_packages` |
| `NoStaleDigest` | `Spec => []DigestsFresh` | R | `publish_long` |
| `UnpublishedChangesFound` | `Spec => []UnpublishedChangesDetected` | R | `publish_long` |
| `PublishReachesDependencies` | `Spec => PublishIncludesDependencies` | R, Q | `publish_long` |
| `ResetDiscardsEverything` | `Spec => ResetLeavesNothingUnpublished` | R | `publish_long` |
| `WalksReachAncestors` | `Spec => []WalkReachesAncestors` (SideEffectWalk) | | `walk` |
| `ContainersImplementPublishing` | `CSpec => Spec` | | `children` |
| `ListsAndVersions` | `CSpec => []ListsMatchVersions` | | `bulk` |
| `UnchangedReadAlike` | `CSpec => []UnchangedContainersReadAlike` | R | `children` |
| `SnapshotsNeverChange` | `CSpec => SnapshotsStayTrue` | | `children` |
| `DraftHistoryIsRight` | `CSpec => []HistoryLeadsToDraft` (ContentQueries) | R | `children` |
| `PublishEntriesAreRight` | `CSpec => []PublishEntriesExplainThePublish` (ContentQueries) | R | `children` |
| `QueriesAlwaysAgree` | `CSpec => []QueriesAgree` (ContentQueries) | R | `children` |
| `BackfillIsRight` | `CSpec => []BackfillRestoresDigests` (ContentUpgrade) | R | `children` |
| `BootstrapIsRight` | `CSpec => []BootstrapExplainsDrafts` (ContentUpgrade) | R | `children` |
| `ComponentsTypeCorrect` | `Spec => []ComponentsTypeOK` (Components) | | `components` |
| `RedirectsAreSafe` | `Spec => []RedirectsFindTheFile` | | `components` |
| `NoEditIsLost` | `Spec => NextVersionsBuildOnTheLast` | | `components` |
| `QuietBackupsLoad` | `BackupSpec => [](TypeOK /\ QuietBackupLoads)` (Backup) | | `backup`, as a part of the next |
| `RestoresMatchTheirSource` | `BackupSpec => RestoreMatchesSource` | | `backup` |
| `RestoresInventNothing` | `BackupSpec => RestoreInventsNothing` | | `backup` |
| `LineagesAreRight` | `Spec => []LineageFollowsParent` (TagTree) | T | `tags`, as a part of the next |
| `QueriesAreRight` | `Spec => []QueriesSeeTheTree` | T | `tags` |
| `TagsAreAForest` | `Spec => ImplementsForest` | T | `tags` |
| `PopulateIsRight` | `Spec => []PopulateRestoresTheCopies` (TagUpgrade) | T | `tags` |
| `BackfillIsUnique` | `Spec => []BackfilledIdsAreUnique` (TagUpgrade) | | `tags` |
| `NoAbandonedTask` | `ImportSpec => []BlockedOnlyWhileImporting` (TagImport) | | `tag_import` |
| `ExportsCanBeImported` | `ImportSpec => []ExportCanBeImported` (TagImport) | | `tag_import` |
| `ReplacesAreExact` | `ImportSpec => ReplaceYieldsTheFile` (TagImport) | | `tag_import` |
| `CountsAreRight` | `ObjectTagsSpec => []CountsFollowTheTree` (ObjectTags) | | `object_tags` |
| `CopiesAreRight` | `ObjectTagsSpec => CopiesFollowTheSource` (ObjectTags) | | `object_tags` |
| `ReaddedAreRelinked` | `ObjectTagsSpec => ReaddedTagsAreRelinked` (ObjectTags) | | `object_tags` |
| `TaggingIsExact` | `ObjectTagsSpec => TaggingAppliesExactly` (ObjectTags) | | `object_tags` |

`TypeOK` is not inductive: a draft points at the record with the greatest primary
key, and an unbounded set need not have one. `TypeInv` adds that no draft record
is younger than `serial` (`PkBound`), in the open transaction and committed, and
`MaxExists` (from the library's well-foundedness of `<` on the naturals) turns the
bound into a maximum. `DigestsMembers`, `SideEffectsMembers` and
`AddToChangeLogMembers` say once what the operators do to the records of a branch,
and every later proof uses them instead of the definitions.

The three theorems about logs share the inductive invariant `LogInv`. Its parts,
and why each is needed:
* versions depend on entities of their own package, and rows point at versions
  that exist, so the dependency relation of a branch stays in a package
  (`AncestorsOwnPackage`, `DescendantsOwnPackage` take the package for the closed
  set in the least-closed-set definitions);
* the id of a draft log identifies it and is at most `serial`, so a new log has
  no records yet and all records of a log are in one package;
* open contexts have different logs, all of them in the table, so the deletion
  of an empty log at the exit of a context hits no other context;
* the logs of committed records are closed, their records are all in the open
  transaction too, and no committed log is empty: `BulkAbort` re-establishes the
  invariant from the committed tables, and an open transaction rewrites records
  of its own logs only (`OnlyLog`, `CommittedKept`).

Each operation has one lemma per invariant (`...Type`, `...LogInv`); operations
end in `OnCommit`, whose two cases are proved once (`OnCommitType`,
`OnCommitLogInv`). `LogInv` was checked by TLC on the instances of `bulk`,
`two_packages`, and with nested contexts of one package and a publish, before it
was proved.

The logs can be replayed, as the second half of `Publishing_proofs` shows. `ReplayInv` says that of
every branch, in the open transaction and committed (`BranchReplays`: the records of
an entity differ in log and in primary key, each starts where the one before ended, the
row points at the last), and, of the open contexts, that they are of different packages and
that the log of each is the last of its package (`OpenLogsInv`). The last part is what
`~Reentrant` gives and what collapsing needs: a change is folded into the record of the
active log, or cancels it, and that is the record the row points at
(`AddToChangeLog` either replaces the last record, `DropLast` and `AddLast`, or adds one).
For the events, `EventInv` relates what has been sent to the committed branches, and what
has been sent and what waits (`events \o outbox`) to where the drafts *start*: the
versions they had when the open log of their package was opened. These `starts` are not
kept by any variable; the invariant says that some exist (`DraftsStart`). At the exit of a
context the collapsed record is exactly the change from its start to its row, which is what
the event says; `Tells` is preserved by appending it.

`Publishing_digest_proofs` shows that a cached digest is never stale. `DigestInv` says that
both branches are `Fresh` but for the drafts under an open context, which are fresh at
their starts, with the records of closed logs. For the step that closes a log, `HashDigests`
of four levels is shown to be a fixpoint (`Level` is below 4 and dependencies lie
lower, so level n is settled after n + 1 rounds), and the side effects to have given
everything above a change a record in the log, so that what is not hashed anew has no
dependency that is. With fresh digests on two branches, `UnpublishedChangesDetected` needs no further
invariant: the digests agree exactly if the trees do, by four steps along the levels in
each direction (`DigestsAgreeStep`). The publish with dependencies and the reset
need `DraftedInv` besides, that nothing is published which never had a draft.

In `SideEffectWalk_proofs` the invariant `WalkInv` says of each record in the log, and of
each entity that depends on it, that this one has a record too, or waits on the stack, or the
walk from the first has not begun (`Reached`). It holds although the walk drops frames whose
effect is `processed`, since those have a record. At the end nothing waits, so the
records are closed under dependents. `FramesFor` takes any order of the rows, which
exists because there are finitely many entities (`EntitiesAssumption`; `InSomeOrder`).
Nothing is assumed of the relation, so cycles are covered.

`Containers` is a refinement of `Publishing` by construction of its actions, but for
the dependencies of a new version: `AllowedDependencies` shows that the unpinned
children of a list are a dependency set publishing accepts. `ContainersAssumption`
lets `DependencySets` be all such sets. `ListsMatchVersions` needs `ListInv`: the
committed versions are a beginning of the versions there are, and the lists of
committed versions pin committed versions only, or a rollback could leave a pin
behind.

With fresh digests on both branches (`NoStaleDigest`) and lists that name the
dependencies (`ListInv`), `UnchangedContainersReadAlike` follows in every state: equal
digests mean equal trees, and the children that are read are dependencies or
pinned. `SnapshotsStayTrue` compares two states, so what it needs is that the older one's
answer can still be found: `SnapshotInv` says that the committed tables are a beginning
of the live ones (`SameUpTo`), versions and lists included, so a rollback returns to
tables on which nothing published has changed, and `SnapshotVersionStays` that a later
publish log is not among the records an earlier one looks through. This one holds with
contexts nested in any way.

The histories of `ContentQueries` compare the times of two kinds of log, which nothing
but the order of the events relates. `ChronicleInv` says that every closed log has one
event, that the events of an entity's logs come in the order of its records, and that a
record of a publish of the entity itself holds what the records closed before its event had
come to (`TookTheDraft`). The last holds because a package is not published while a
context of it is open, so all its draft records are in closed logs (`PublishTakesDrafts`,
`RecordsOfClosedLogs`). An open log is later than every event, and holds the last record of
its entity, so times order all records (`Times`). The rest is about records in time
order: those between two points lead from the version at the first to that at the second
(`Window`), and what `SinceReset` drops leads back to where it began (`ResetLeads`).
Publishes are matched by log and drafts by primary key; `SnapshotInv` gives that these
agree on the published branch, and `RowsRecordedInv` that a published entity has a record.

`QueriesAgree` follows from what is already invariant (`Queried`). Dependencies are the
unpinned children of lists (`DependenciesAreListed`), so looking containers up by rows or by
dependencies is the same; nothing is published without a draft (`DraftedInv`), so the NULLs
that the queries compare mean one thing. What a reader sees of a list has each row whose
child exists, as often as it is listed (`EntriesThatExist`, along the list). The two walks
below a container are least closed sets: each is contained in what the other finds, once
deleted entities are added (`WalkFindsDependencies`).

The theorems on `ContentUpgrade` are about what 0010 and 0007 make of every reachable state. The
digests 0010 computes are those of `HashDigests` on all levels (`RehashAllAgrees`), which
is what fresh means; the rest is that it writes them where they are read. A record can
only be written if the row points at one, which is `PointerInv`: a draft without
records points at none. For 0007, which makes one log of all drafts, the record that
explains a draft is the one with the greatest primary key (`BootHasLast`); later
packages get later keys (`LogForGrows`), so the record made for a draft is the last it has.
`DraftedInv` is needed, since a draft that was never set has no version to record. The
tables that 0007 leaves are ones 0010 can work on (`BootBackfillable`).
`ContentUpgradeAssumption` says that there are finitely many entities, without which a
table cannot be walked in some order.

`Components_proofs` rests on `Inv`: the tables are well formed (`Shape`), every media
row with a file has it (`MediaHaveFiles`), and what a call has read is still there
unless its package is gone (`CallsOK`). `ComponentsTypeOK` is inductive only with the
deletion guard that stands for `ComponentVersionMedia.media`'s RESTRICT.
`RedirectsFindTheFile` needs `MediaHaveFiles` for the rows no version uses yet, since a
later version adopts them. All that can happen to a file makes it `Better`
(`WriteFilesBetter`, `CutShortBetter`), so a rolled back transaction does no harm. For
`NoEditIsLost`, a call that commits without a forced number had `last + 1` free, and
version numbers only disappear with their package; so every version below is at most
`last`, and the media it merged is that of the greatest (`FinishBuildsOnTheLast`).

`Backup_proofs` rests on `BackupInv`, which says of an archive, whole or not, that every file
in it is of one of the kinds a dump writes and holds what its source says (`Sorted`), and that
no two TOML files have one key (`OneToml`). While a dump runs, each entity and collection
whose turn has been has all its files (`Whole`), the slugs of the names are among those it
keeps (`SlugsUsed`), so that the next name gets a path that is free, and if nobody has edited
the package the source is still what the package holds. A dump that was disturbed has written
collections as they were later than the entities, so the source of an archive is of two times: its entities at the start,
each collection at its turn. `Damage` and a dump that fails keep `Sorted` and `OneToml`, which is
all that `RestoresInventNothing` needs: a load finds by key the file that was written for that
key, and a static file under the folder of its component (`StaticsHeld`, `ChildrenHeld`). For
`QuietBackupsLoad` the files are also all there and valid, and in what no author touched every
entity of a collection is an entity of the package (`CollectionsOK`). For
`RestoresMatchTheirSource` the stages of a load are followed one by one (`LoadOK`): what is published first are the
published versions, and the drafts that come after them have other numbers. What the two
loops over children compute is found without induction, from the least round after which
a claim fails (`RoundByRound`). `BackupAssumption` says of names that a component is known by
its type and code and a container by its code, which unique constraints ensure.

`TagTree_proofs` proves that depth and lineage, which are copies, follow the parents
(`LineagesAreRight`), so the theorem says where the code can be trusted. Its invariant `Inv`
needs, beside `GoodTree` (each row is `Below` its parent), that no two tags have one value and that the one request in progress has read
what is still there (`Loaded`). The step that matters is the update by prefix in
`Tag.save`: since values are unique, the lineage of a tag starts with that of the saved
one exactly if its parent's does (`PrefixThroughParent`), and changing the beginning of a
lineage commutes with appending a value to it (`RegrownAppend`); so every subtag is still
in step with its parent, at any depth, without induction along the tree (`CascadeGood`).

`QueriesSeeTheTree` and `ImplementsForest` do argue along the tree. The library's induction
theorems cannot be used, but its theorem on well-founded relations gives a least element of
any nonempty set of naturals (`LeastNatural`), so each argument starts from a shallowest
tag for which the claim fails (`ShallowestTag`). The rows selected by prefix are those
reached along the parents (`SubtagsByLineage`), the search that climbs level by level arrives
(`SearchFindsTheWayDown`), and there are at most as many levels as tags, so it is long enough. For
the refinement, the path of identities is the only function that follows the parents
(`PathsFromParents`), so after a save it is what `TagForest` says: one path more
(`AddedPaths`), a subtree of paths moved (`MovedPaths`) or a subtree gone (`PathsLeft`).

`PopulateIsRight` runs along the stages of 0020, one UPDATE per level, as a function of the
level (`Stages`). After stage k every row of the first k levels is right and no row has
a depth beyond k (`WrittenTo`). The migration writes rows of deeper levels too, with the
lineage of a parent that is not right yet; the invariant leaves open what these
hold, because a row is always written again once its parent is (`LevelWritten`).

`BackfillIsUnique` assumes nothing about requests: an object in memory may be of a tag that
is gone, and the tree may be wrong, but `save` compares its external id with every other row
and the cascade writes none (`SavedIds`), so ids stay unique (`IdsInv`). 0022 then goes
through the keys (`BackfillStages`). That its search ends is counting: of one more candidates
than there are ids, one is free (`CandidateIsFree`), so after each key the ids made so far and
those there were are all different (`FilledTo`, `TagFilled`).

`CountsAreRight` holds of `ObjectTags` without an assumption: calls of `tag_object` may
overlap every other call, but an edit of one tag is one step here, as an edit that
overlaps another may leave lineages stale (section 6). The counts read the tree through the
foreign keys, so what is needed is that these lead to tags that are there, whatever loop
saved, kept or resynced the rows (`ObjectTagsInv`). The rows a loop works on are a
value in `Tables`; `RoundByRound` says that what every round keeps, the loop keeps, and each
loop has its lemma (`ResyncRuns`, `SavesRun`, `PlanRuns`, `CopyRuns`). A plan made before
other calls came in may name tags that are gone: `CallOK` leaves that open, since
`full_clean` looks at them again (`CleanSave`). The tags that an object has with those above
them are as many as the distinct beginnings of its lineages, because each beginning is the
lineage of one tag (`BeginningsCounted`).

The three action properties of `ObjectTags` are proved from the same invariant, each by
what is true after every round of a loop. `CopiesAreRight`: after a round of `copy_tags`
the destination is linked to the tags it kept and to those of the source rows done so far
(`CopiedTagsAreLinked`). `ReaddedAreRelinked` and `TaggingIsExact` have to exclude that a row
is not saved because of a unique constraint, so a table in `Tables` satisfies both of them
(`Unique`), which every loop keeps as `SaveRow` refuses what `Clashes`. In a resync each row
done so far has its tag (`ResyncedAll`): two rows of one object that asked for the same tag
would have the same cached value, which `Unique` rules out, and `CacheInSync`, a
premise of the property, rules out a row that has the tag under another value. In
`tag_object` the plan for the first n values is to keep the rows that one of them is
applied by and to save one row for each of the others (`PlannedFor`, `PlanIsRight`); nothing
is in the way of a row of the plan (`NothingInTheWay`), so the transaction saves all of them
(`PlanSaved`). The call drops repeated values first, which `ObjectTagsAssumption` says
of `TagLists`; the rows left are then as many as the values.

`TagImport_proofs` is about imports. `NoAbandonedTask` needs `TaskInv`: *every* task
without a final status, not only the last, is held by a worker, and workers hold no
task before they create one. With several workers the check for a running import and the creation of the task are two steps, so more
than one task can be open, and a worker that ends its own must not be the one the last
task was held by.

`ExportsCanBeImported` assumes nothing about requests. Overlapping saves may leave
wrong lineages, and then the order of an export means nothing, so the property speaks of
the states where `LineageFollowsParent` holds; the invariant (`ImportInv`) is what the
database and the checks of `save` ensure everywhere: no two tags have one value or one
external id (`TagsTyped`), plans are made of items of the file (`ImportPlans`), and each action
keeps that or fails (`PerformTyped`). In an order by lineage no tag comes before its parent,
for whatever order of the values, because no lineage comes before one it continues
(`NotBefore`, `ParentsFirst`). Then by rounds: imported into its own taxonomy, every item of
the file plans `without_changes` (`OwnExportIdles`); into an empty one, the plan of the first k
items creates them without an error, since the parent of each is among those before
(`ItemCreated`), and after k actions rows 1 to k are the first k tags of the order, below the
copies of their parents (`NextIsMade`). The parent is read when the row is saved, so the depth
is right (`CachedParent`), and a save accepts it exactly if the old tag was not too deep: `save`
checks the depth of the tag it saves and not of those below, so a move can leave tags
that could not be created again.

`ReplacesAreExact` follows a replacing import through the actions of its plan, from the same
`ImportInv`, which holds that parents are tags that are there: `TagImportAssumption` says it of the
trees the model starts from, as the foreign key does in the database. The plan begins with the
deletions (`DeletesPlanned`): every tag that the file leaves out goes, and each of its
children that stays is made a root first. The queryset that names them has no order, and
if a tag goes whose subtag, itself to go, still has a child that stays, the cascade takes that
child along. `Clearing` is what holds all the same after m actions: if a tag that stays is gone, an
`update_parent` of a tag that is not there is yet to come, and it fails, and with it the
import, which is rolled back (`FailedForGood`). So an execution that ends has removed those
tags and no others (`DeletionsClear`). The items come next, each with up to two actions that
were planned from the tags before the import (`ItemPlanned`); `InStep` is what
holds after k items: the first k are there as the file has them, and the tags of the others have the
value and the parent the deletions left them. Values and parents may be exchanged
between tags as the plan runs, so an action finds other rows than the plan did; `save` then
fails, or the action leaves its row as the item says (`ItemSteps`). The plan has to be fresh,
since it names values and parents that an edit may have changed, and the file must
not name a tag twice.

Only model-checked:
* `Termination`, `OldValuesLeaveTheIndex`: liveness, which the prover does not handle;
* `SubscribersFollow`: the invariant would have to say what each of several unfinished calls
  knows at each of its steps; it is not proved.

## 5. Not modelled

* **Catalog, competency-based education, shared library**: operations on single rows
  guarded by constraints, payload validation, field types. Nothing there takes several
  steps or relates several rows over time.
* **Two transactions at once over publishing's tables**: `Publishing` takes every
  operation as one step, which is right for one connection. Two would double every table
  beside digests that nest as deep as the graph.
* **Two transactions at once over collections**: while a caller's transaction is open nobody
  else moves, as on a database that serialises them.
* **Encodings**: TOML, ZIP, CSV and JSON syntax, slugs as strings, media types, hashes
  (taken to be free of collisions), times and users.
* **Request handling**: serializers, paging, search, organisations. Permissions are in
  `ObjectTags`.
* **Case folding** of tag values and external ids, language taxonomies.
* **Generated schema migrations**, and the data migrations that copy one column.

## 6. Where code and documentation part

Met while modelling. The models follow the code; the properties claim what holds.

* `publishing/api.py:516`: the querysets of dependencies are lazy and run after the
  caller's drafts were published. Selected with `with_unpublished_changes()`, drafts are
  published without their dependencies, unlike the docstring at line 474 says. TLC
  shows it with `QuerysetKinds = {"unpublished"}`.
* `publishing/api.py:1292`: an entity created and deleted inside one bulk context leaves
  no record and is announced with `restored=False` when it returns;
  `publishing/signals.py:73` promises the flag for any un-soft-delete.
* `publishing/api.py:1255`: the walk may skip the side effect of a changed child on a
  parent changed in the same log; `models/draft_log.py:366` says it is recorded even then.
* `publishing/api.py:669`, `771`: publishing a child gives its container a side-effect
  record, which the histories take for a publish of the container. Its own unpublished
  edits disappear from `get_entity_draft_history` and are listed under the wrong
  publish. `HistoryLeadsToDraft` and `PublishEntriesExplainThePublish` are claimed of
  entities whose last record is their own (`Own`).
* `containers/api.py:699`: a container published with a child that was deleted before it
  was ever published cannot be read on the published branch (`Readable`), although the
  next line means to leave such children out.
* `containers/api.py:779`: `contains_unpublished_changes` raises for a container created
  and deleted without a publish, the edge case its own comment describes.
* `containers/api.py:504`: a change of title alone gives the draft the children of the
  *latest* version, also after it was moved to an earlier one; the docstring of
  `entities=None` says "no change".
* `containers/api.py:858`: a soft-deleted pinned child is listed and not counted; and
  `get_descendant_component_entity_ids` walks the draft of pinned containers.
* `media/api.py:114`: text found by digest has no file if it was first stored without
  one, also when `create_file=True`. `media/models.py:431`: on storage that does not
  overwrite, a file cut short is never repaired.
* `components/api.py`: an id of media is not checked for its package, so a package can be
  undeletable because of another's component. With a forced number, a concurrent edit can
  be hidden; `NextVersionsBuildOnTheLast` excludes it.
* `collections/api.py:204`: `add_to_collection` saves every field of the row it read, so a
  collection that another caller soft-deletes between the read and line 214 is enabled again, and
  subscribers were told that it is gone. `:145`, `:170`: the members that `delete_collection` and
  `restore_collection` announce are read before the save, so a change in between is lost
  to subscribers. Without `mixed` in `Settled`, TLC refutes `SubscribersFollow`.
* `collections/tasks.py:39`: membership is read here and the events are sent at lines 60-76; an
  entity that is removed in between is announced as added after it was announced as removed,
  and a subscriber keeps it. Two tasks run in the wrong order make a subscriber lose an
  entity that is there; `SubscribersFollow` claims that none is missing only where
  `Ordered = TRUE`, as in the run.
* `collections/signals.py:70` says that the tagging code emits an event "whenever an entity's
  tags change". It does when a tag is renamed or deleted; `tag_object`, `copy_tags` and
  `delete_object_tags` (`api.py:285`, `429`, `510`) and the view behind them emit none.
* `tasks.py:40`: a saved tag is announced for the objects that have the tag itself. An index
  that lists the whole path of a tag (`models/utils.py:8`) keeps the parent's old value for objects
  that have a subtag only.
* `backup_restore/zipper.py`: a pending deletion is undone by a restore; pinned children
  come back unpinned; empty text is dropped; an asset path that contains `v<n>/` loses
  what is before it (995); an asset that ends in `.toml` is read as an entity (1089);
  containers of plugin types are dumped and not loaded (`Supported`); component types
  found during validation are committed although "no saving to DB happens until all
  validations pass" (567).
* `backup_restore/toml.py:58`: the e-mail of the user who dumps is written as it is, and one that is
  blank or no address makes the archive unloadable (`serializers.py:45`); so does a blank title
  of the package or of a collection (27, 207). `zipper.py:1103`: the TOML file of a static file is
  looked up under the first four parts of its path, but a code such as `_` has an empty slug and a
  component type may have a blank name (`components/models.py:77`), and then a part is missing. A
  whole backup of such a package does not load (`blank`, `Supported`).
* `models/base.py:200`: `save()` trusts the parent loaded earlier; a rename of the parent
  in between leaves a wrong lineage. TLC shows it with `Interleaved = TRUE`.
* `import_export/`: an import can move a tag below its own descendant and so make a cycle
  (`MovesBelowSelf = TRUE`); descendants that move are not checked against the depth limit,
  so an export of them may not be importable into an empty taxonomy (`ExportCanBeImported`
  excludes it);
  a replacing import that deletes a parent and grandparent of a tag it keeps fails; a task
  whose process died blocks its taxonomy for ever.
* `api.py:178`: `resync_object_tags` given an empty queryset resynchronises every object
  tag. `api.py:471`: a rename is committed although the resynchronisation that follows may
  fail. `api.py:516`: `copy_tags` loses the values of free text rows.
* `rest_api/v1/views.py:591`: the taxonomies of an object are updated one by one, so an
  error leaves a part done; `:336`: a refused import leaves its new taxonomy behind.
