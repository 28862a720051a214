------------------------------ MODULE Publishing ------------------------------
(***************************************************************************)
(* The publishing applet: versioned entities, the Draft and Published      *)
(* branches that point at them, the DraftChangeLog and PublishLog tables   *)
(* that record every change, the side effects a change has on the entities *)
(* that depend on the changed one, and the cached dependency digests.      *)
(*                                                                         *)
(* A branch (Draft or Published) is a record:                              *)
(*   rows[e]  the branch row of e: its version and its log_record          *)
(*   recs[e]  the log records of e in that branch's log table              *)
(* A version is its version_num, 0 standing for NULL.  A log record is     *)
(* identified by (log, entity), the unique constraint of both tables, so a *)
(* row's log_record is the id of the log, 0 standing for NULL.             *)
(***************************************************************************)
EXTENDS Integers, FiniteSets, Sequences, DependencyGraph

CONSTANTS
    Entities,         \* PublishableEntity rows
    Packages,         \* LearningPackage rows
    PackageOf,        \* the learning package of each entity
    Level,            \* height in the dependency graph: component 0, unit 1,
                      \* subsection 2, section 3
    NoRow,            \* an entity without a row in a branch
    DependencySets,   \* input: dependency sets that versions of e are created with
    MaxVersion,       \* bound: versions of each entity
    MaxSerial,        \* bound: draft logs opened (and contexts closed)
    MaxPublishes,     \* bound: publishes
    MaxSelected,      \* bound: drafts one queryset selects
    MaxNesting,       \* bound: nested bulk_draft_changes_for contexts
    Reentrant,        \* may a context be opened inside one of the same package?
    QuerysetKinds     \* how callers of publish_from_drafts select drafts

Row == [version : Nat, rec : Nat]

ASSUME ConstantsAssumption ==
    /\ PackageOf \in [Entities -> Packages]
    /\ Level \in [Entities -> 0..3]
    /\ NoRow \notin Row
    /\ DependencySets \in [Entities -> SUBSET SUBSET Entities]
    /\ MaxVersion \in [Entities -> Nat] /\ MaxSerial \in Nat
    /\ MaxPublishes \in Nat /\ MaxSelected \in Nat /\ MaxNesting \in Nat
    /\ Reentrant \in BOOLEAN
    /\ QuerysetKinds \subseteq {"fixed", "unpublished"}

VARIABLES
    versions,     \* per entity, the dependency set of each of its versions
    draft,        \* the Draft branch
    published,    \* the Published branch
    draftLogs,    \* DraftChangeLog rows: id and package
    publishLogs,  \* PublishLog rows in order: the package of each
    serial,       \* source of increasing primary keys
    contexts,     \* the open DraftChangeLogContexts, outermost first
    committed,    \* the database as every other connection sees it
    outbox,       \* events registered with on_commit in the open transaction
    events        \* events sent

vars == <<versions, draft, published, draftLogs, publishLogs, serial,
          contexts, committed, outbox, events>>

Db == [versions |-> versions, draft |-> draft, published |-> published,
       draftLogs |-> draftLogs, publishLogs |-> publishLogs]

-----------------------------------------------------------------------------
(* Branches, records and the dependency graph.                             *)

Record(pk, log, old, new, direct, digest) ==
    [pk |-> pk, log |-> log, old |-> old, new |-> new,
     direct |-> direct, digest |-> digest]

VersionOf(rows, e) == IF rows[e] = NoRow THEN 0 ELSE rows[e].version
LogRecordOf(rows, e) == IF rows[e] = NoRow THEN 0 ELSE rows[e].rec

InLog(recs, log) == \E r \in recs : r.log = log
RecordIn(recs, log) == CHOOSE r \in recs : r.log = log
CurrentRecord(b, e) == RecordIn(b.recs[e], b.rows[e].rec)

\* PublishableEntityVersion.dependencies, fixed when the version is created.
DependenciesOf(vs, e, n) == IF n = 0 THEN {} ELSE vs[e][n]
CurrentDependencies(vs, rows) ==
    [e \in Entities |-> DependenciesOf(vs, e, VersionOf(rows, e))]

\* Draft.objects.with_unpublished_changes(), one row of it.
Unpublished(e) ==
    draft.rows[e] # NoRow /\ VersionOf(draft.rows, e) # VersionOf(published.rows, e)

-----------------------------------------------------------------------------
(* Side effects and digests of a log, for either branch.                   *)

LiveDependencies(vs, rows, e, n) ==
    {d \in DependenciesOf(vs, e, n) : VersionOf(rows, d) # 0}

\* The digest of a state: what the hash covers, a hash without collisions.
\* digests[d] is the digest of the current log record of d.
DependencyState(vs, b, digests, e, n) ==
    {<<d, CurrentRecord(b, d).new, digests[d]>> :
        d \in LiveDependencies(vs, b.rows, e, n)}

StoredDigests(b) ==
    [e \in Entities |-> IF InLog(b.recs[e], LogRecordOf(b.rows, e))
                        THEN CurrentRecord(b, e).digest ELSE {}]

\* One unfolding of hash_for_log_record: records outside the log are trusted.
Rehash(vs, b, log, digests) ==
    [e \in Entities |->
        IF LogRecordOf(b.rows, e) = log /\ InLog(b.recs[e], log)
        THEN DependencyState(vs, b, digests, e, CurrentRecord(b, e).new)
        ELSE digests[e]]

\* Mutant: the digest of a dependency is read before it is recomputed.
HashOnce(vs, b, log) == StoredDigests(b)

\* The recursion is as deep as the dependency graph is high: four levels.
HashDigests(vs, b, log) ==
    Rehash(vs, b, log, Rehash(vs, b, log, Rehash(vs, b, log,
        Rehash(vs, b, log, StoredDigests(b)))))

UpdateDependenciesHashDigests(vs, b, log) ==
    LET digests == HashDigests(vs, b, log)
    IN  [rows |-> b.rows,
         recs |-> [e \in Entities |->
            {IF r.log = log
             THEN Record(r.pk, log, r.old, r.new, r.direct,
                         DependencyState(vs, b, digests, e, r.new))
             ELSE r : r \in b.recs[e]}]]

\* Mutant: only the direct dependents of a changed entity are affected.
CreateDirectSideEffects(vs, b, log, pk) ==
    LET changed  == {e \in Entities : InLog(b.recs[e], log)}
        affected == AffectedBy(CurrentDependencies(vs, b.rows), changed)
        recs == [e \in Entities |->
                    IF e \in affected \ changed
                    THEN b.recs[e] \cup {Record(pk, log, VersionOf(b.rows, e),
                                           VersionOf(b.rows, e), FALSE, {})}
                    ELSE b.recs[e]]
        rows == [e \in Entities |->
                    IF e \in affected
                    THEN [version |-> VersionOf(b.rows, e), rec |-> log]
                    ELSE b.rows[e]]
    IN  UpdateDependenciesHashDigests(vs, [rows |-> rows, recs |-> recs], log)

\* Every entity that depends on a changed one gets a record in the log, with
\* old = new if it has none yet, and its row points at it.
CreateSideEffects(vs, b, log, pk) ==
    LET changed  == {e \in Entities : InLog(b.recs[e], log)}
        affected == Ancestors(CurrentDependencies(vs, b.rows), changed)
        recs == [e \in Entities |->
                    IF e \in affected \ changed
                    THEN b.recs[e] \cup {Record(pk, log, VersionOf(b.rows, e),
                                           VersionOf(b.rows, e), FALSE, {})}
                    ELSE b.recs[e]]
        rows == [e \in Entities |->
                    IF e \in affected
                    THEN [version |-> VersionOf(b.rows, e), rec |-> log]
                    ELSE b.rows[e]]
    IN  UpdateDependenciesHashDigests(vs, [rows |-> rows, recs |-> recs], log)

-----------------------------------------------------------------------------
(* Change logs.                                                            *)

\* Mutant: the innermost context, whatever its package.
AnyActiveLog(p) == IF contexts = <<>> THEN 0 ELSE contexts[Len(contexts)].id

\* The innermost open context of package p, 0 if there is none.
ActiveLog(p) ==
    LET mine == {i \in 1..Len(contexts) : contexts[i].package = p}
    IN  IF mine = {} THEN 0
        ELSE contexts[CHOOSE i \in mine : \A j \in mine : j <= i].id

\* Mutant: the record forgets the version its log started from.
AddOverwritingOld(recs, log, pk, old, new) ==
    {r \in recs : r.log # log} \cup {Record(pk, log, old, new, FALSE, {})}

\* Mutant: a second change of an entity is not recorded.
AddFirstOnly(recs, log, pk, old, new) ==
    IF InLog(recs, log) THEN recs
    ELSE recs \cup {Record(pk, log, old, new, FALSE, {})}

\* Mutant: an earlier record of the entity is looked up without its log.
AddToAnyChangeLog(recs, log, pk, old, new) ==
    IF recs = {}
    THEN {Record(pk, log, old, new, FALSE, {})}
    ELSE {Record(r.pk, log, r.old, new, FALSE, r.digest) : r \in recs}

\* _add_to_existing_draft_change_log: one record per entity and log, keeping
\* the first old version; a change back to that version deletes the record.
AddToChangeLog(recs, log, pk, old, new) ==
    LET mine == {r \in recs : r.log = log}
    IN  IF mine = {}
        THEN recs \cup {Record(pk, log, old, new, FALSE, {})}
        ELSE (recs \ mine) \cup
             {Record(r.pk, log, r.old, new, FALSE, r.digest) :
                r \in {m \in mine : m.old # new}}

\* Mutant: a cancelled change leaves the draft without a record.
NoLogRecordAfter(recs, log) == IF InLog(recs, log) THEN log ELSE 0

\* The record a draft points at once a change went into log: its record there,
\* or the one created last if that change cancelled it out.
LogRecordAfter(recs, log) ==
    IF InLog(recs, log) THEN log
    ELSE IF recs = {} THEN 0
    ELSE (CHOOSE r \in recs : \A q \in recs : q.pk <= r.pk).log

\* set_draft_version for every entity of DOMAIN target, up to the side effects.
SetVersions(target, log, pk) ==
    LET changing == {e \in DOMAIN target : VersionOf(draft.rows, e) # target[e]}
        recs == [e \in Entities |->
                    IF e \in changing
                    THEN AddToChangeLog(draft.recs[e], log, pk,
                                        VersionOf(draft.rows, e), target[e])
                    ELSE draft.recs[e]]
        rows == [e \in Entities |->
                    IF e \in changing
                    THEN [version |-> target[e], rec |-> LogRecordAfter(recs[e], log)]
                    ELSE IF e \in DOMAIN target /\ draft.rows[e] = NoRow
                    THEN [version |-> 0, rec |-> 0]
                    ELSE draft.rows[e]]
    IN  [rows |-> rows, recs |-> recs]

\* The payload of ENTITIES_DRAFT_CHANGED or ENTITIES_PUBLISHED.
ChangeLogEvent(branch, b, log) ==
    [branch |-> branch, log |-> log,
     changes |-> UNION {
        {[entity |-> e, old |-> r.old, new |-> r.new, direct |-> r.direct,
          restored |-> /\ branch = "draft" /\ r.old = 0 /\ r.new # 0
                       /\ \E q \in b.recs[e] : q.log # log] :
            r \in {x \in b.recs[e] : x.log = log}} : e \in Entities}]

\* Mutant: events are sent at once.
SendNow(new) ==
    /\ committed' = IF contexts' = <<>> THEN Db' ELSE committed
    /\ events' = events \o new
    /\ outbox' = <<>>

\* The end of an operation: without an open context its transaction commits and
\* the registered events are sent; otherwise they wait for the commit.
OnCommit(new) ==
    IF contexts' = <<>>
    THEN /\ committed' = Db'
         /\ events' = events \o outbox \o new
         /\ outbox' = <<>>
    ELSE /\ outbox' = outbox \o new
         /\ UNCHANGED <<committed, events>>

-----------------------------------------------------------------------------
(* Draft operations.                                                       *)

\* Inside a bulk_draft_changes_for context (or when nothing changes): the
\* changes join the active log and the side effects wait for its exit.
ChangeInContext(p, target) ==
    /\ ActiveLog(p) # 0 \/ \A e \in DOMAIN target : VersionOf(draft.rows, e) = target[e]
    /\ draft' = SetVersions(target, ActiveLog(p), serial)
    /\ UNCHANGED <<published, draftLogs, publishLogs, serial, contexts>>
    /\ OnCommit(<<>>)

\* On its own: a log for this change, its side effects and its event.
ChangeInOwnLog(vs, p, target) ==
    LET log == serial + 1 IN
    /\ ActiveLog(p) = 0
    /\ \E e \in DOMAIN target : VersionOf(draft.rows, e) # target[e]
    /\ serial < MaxSerial
    /\ serial' = log
    /\ draft' = CreateSideEffects(vs, SetVersions(target, log, log), log, log)
    /\ draftLogs' = draftLogs \cup {[id |-> log, package |-> p]}
    /\ UNCHANGED <<published, publishLogs, contexts>>
    /\ OnCommit(<<ChangeLogEvent("draft", draft', log)>>)

ChangeDrafts(vs, p, target) ==
    ChangeInContext(p, target) \/ ChangeInOwnLog(vs, p, target)

\* create_publishable_entity_version: the next version, with its dependencies,
\* becomes the draft.  Dependencies lie lower and in the same package.
CreateVersion(e, deps) ==
    /\ Len(versions[e]) < MaxVersion[e]
    /\ \A d \in deps : PackageOf[d] = PackageOf[e] /\ Level[d] < Level[e]
    /\ versions' = [versions EXCEPT ![e] = Append(@, deps)]
    /\ ChangeDrafts(versions', PackageOf[e],
                    [x \in {e} |-> Len(versions[e]) + 1])

SetDraftVersion(e, n) ==
    /\ n \in 1..Len(versions[e])
    /\ UNCHANGED versions
    /\ ChangeDrafts(versions, PackageOf[e], [x \in {e} |-> n])

SoftDeleteDraft(e) ==
    /\ UNCHANGED versions
    /\ ChangeDrafts(versions, PackageOf[e], [x \in {e} |-> 0])

\* Mutant: soft-deleted drafts are not reset.
ResetLiveDrafts(p) ==
    LET differing == {e \in Entities : PackageOf[e] = p /\ Unpublished(e) /\
                                        VersionOf(draft.rows, e) # 0}
    IN  /\ differing # {}
        /\ UNCHANGED versions
        /\ ChangeDrafts(versions, p,
                        [e \in differing |-> VersionOf(published.rows, e)])

\* All drafts of p that differ from what is published, in one log.
ResetDraftsToPublished(p) ==
    LET differing == {e \in Entities : PackageOf[e] = p /\ Unpublished(e)}
    IN  /\ differing # {}
        /\ UNCHANGED versions
        /\ ChangeDrafts(versions, p,
                        [e \in differing |-> VersionOf(published.rows, e)])

\* DraftChangeLogContext.__enter__
BulkEnter(p) ==
    LET log == [id |-> serial + 1, package |-> p] IN
    /\ serial < MaxSerial
    /\ Len(contexts) < MaxNesting
    /\ Reentrant \/ ActiveLog(p) = 0
    /\ serial' = log.id
    /\ draftLogs' = draftLogs \cup {log}
    /\ contexts' = Append(contexts, log)
    /\ UNCHANGED <<versions, draft, published, publishLogs, committed, outbox, events>>

\* Mutant: the log of a context that changed nothing is kept.
BulkExitKeepingLog ==
    LET log == contexts[Len(contexts)] IN
    /\ contexts # <<>>
    /\ serial' = serial + 1
    /\ draft' = CreateSideEffects(versions, draft, log.id, serial')
    /\ contexts' = SubSeq(contexts, 1, Len(contexts) - 1)
    /\ UNCHANGED <<versions, published, draftLogs, publishLogs>>
    /\ OnCommit(<<ChangeLogEvent("draft", draft', log.id)>>)

\* DraftChangeLogContext.__exit__ without an exception.
BulkExit ==
    LET log == contexts[Len(contexts)] IN
    /\ contexts # <<>>
    /\ serial' = serial + 1
    /\ draft' = CreateSideEffects(versions, draft, log.id, serial')
    /\ draftLogs' = IF \E e \in Entities : InLog(draft'.recs[e], log.id)
                    THEN draftLogs ELSE draftLogs \ {log}
    /\ contexts' = SubSeq(contexts, 1, Len(contexts) - 1)
    /\ UNCHANGED <<versions, published, publishLogs>>
    /\ OnCommit(<<ChangeLogEvent("draft", draft', log.id)>>)

\* An exception leaves the outermost context: the transaction is rolled back
\* and the events registered in it are dropped.
BulkAbort ==
    /\ contexts # <<>>
    /\ versions' = committed.versions
    /\ draft' = committed.draft
    /\ published' = committed.published
    /\ draftLogs' = committed.draftLogs
    /\ publishLogs' = committed.publishLogs
    /\ contexts' = <<>>
    /\ outbox' = <<>>
    /\ UNCHANGED <<serial, committed, events>>

-----------------------------------------------------------------------------
(* Publishing.                                                             *)

\* Mutant: only the direct dependencies of the requested drafts are added.
DirectDependenciesToPublish(S, kind) ==
    {d \in UNION {CurrentDependencies(versions, draft.rows)[e] : e \in S} : Unpublished(d)}

\* The drafts a publish of S adds to S: every dependency with an unpublished
\* change.  The layers of dependencies are querysets nested on the caller's and
\* run once the first layer is published: a queryset that itself filters on
\* with_unpublished_changes() has become empty by then.
DependenciesToPublish(S, kind) ==
    IF kind = "unpublished" THEN {}
    ELSE {d \in Descendants(CurrentDependencies(versions, draft.rows), S) : Unpublished(d)}

\* Mutant: a publish is taken to replace the version before the one it publishes.
PublishedAfterPrevious(direct, all, log) ==
    [rows |-> [e \in Entities |->
                IF e \in all
                THEN [version |-> VersionOf(draft.rows, e), rec |-> log]
                ELSE published.rows[e]],
     recs |-> [e \in Entities |->
                IF e \in all
                THEN published.recs[e] \cup
                     {Record(log, log, VersionOf(draft.rows, e) - 1,
                             VersionOf(draft.rows, e), e \in direct, {})}
                ELSE published.recs[e]]]

\* Published.objects.update_or_create and a PublishLogRecord for each.
PublishedAfter(direct, all, log) ==
    [rows |-> [e \in Entities |->
                IF e \in all
                THEN [version |-> VersionOf(draft.rows, e), rec |-> log]
                ELSE published.rows[e]],
     recs |-> [e \in Entities |->
                IF e \in all
                THEN published.recs[e] \cup
                     {Record(log, log, VersionOf(published.rows, e),
                             VersionOf(draft.rows, e), e \in direct, {})}
                ELSE published.recs[e]]]

\* S: the drafts the caller's queryset selects when it is first run.
PublishFromDrafts(p, S, kind, publishDependencies) ==
    LET log == Len(publishLogs) + 1
        all == S \cup IF publishDependencies THEN DependenciesToPublish(S, kind) ELSE {}
    IN  /\ ActiveLog(p) = 0
        /\ log <= MaxPublishes
        /\ \A e \in S : draft.rows[e] # NoRow /\ PackageOf[e] = p
        /\ kind = "unpublished" => \A e \in S : Unpublished(e)
        /\ \/ publishDependencies
           \/ \A e \in S : \A d \in CurrentDependencies(versions, draft.rows)[e] :
                draft.rows[d] # NoRow => published.rows[d] # NoRow
        /\ published' = CreateSideEffects(versions, PublishedAfter(S, all, log), log, log)
        /\ publishLogs' = Append(publishLogs, p)
        /\ UNCHANGED <<versions, draft, draftLogs, serial, contexts>>
        /\ OnCommit(<<ChangeLogEvent("published", published', log)>>)

Selections == {S \in SUBSET Entities : Cardinality(S) <= MaxSelected}

PublishAllDrafts(p) ==
    PublishFromDrafts(p, {e \in Entities : PackageOf[e] = p /\ Unpublished(e)},
                      "unpublished", TRUE)

-----------------------------------------------------------------------------
Init ==
    /\ versions = [e \in Entities |-> <<>>]
    /\ draft = [rows |-> [e \in Entities |-> NoRow], recs |-> [e \in Entities |-> {}]]
    /\ published = draft
    /\ draftLogs = {}
    /\ publishLogs = <<>>
    /\ serial = 0
    /\ contexts = <<>>
    /\ committed = Db
    /\ outbox = <<>>
    /\ events = <<>>

Next ==
    \/ \E e \in Entities : \E deps \in DependencySets[e] : CreateVersion(e, deps)
    \/ \E e \in Entities : \E n \in 1..MaxVersion[e] : SetDraftVersion(e, n)
    \/ \E e \in Entities : SoftDeleteDraft(e)
    \/ \E p \in Packages : ResetDraftsToPublished(p)
    \/ \E p \in Packages : BulkEnter(p)
    \/ BulkExit
    \/ BulkAbort
    \/ \E p \in Packages, S \in Selections, kind \in QuerysetKinds, deps \in BOOLEAN :
         PublishFromDrafts(p, S, kind, deps)
    \/ \E p \in Packages : PublishAllDrafts(p)

Spec == Init /\ [][Next]_vars

-----------------------------------------------------------------------------
(* Properties.                                                             *)

RecordOK(r) ==
    /\ r.pk \in Nat /\ r.log \in Nat
    /\ r.old \in Nat /\ r.new \in Nat /\ r.direct \in BOOLEAN

BranchOK(b) ==
    /\ b.rows \in [Entities -> Row \cup {NoRow}]
    /\ DOMAIN b.recs = Entities
    /\ \A e \in Entities : \A r \in b.recs[e] : RecordOK(r)

Log == [id : Nat, package : Packages]
Change == [entity : Entities, old : Nat, new : Nat, direct : BOOLEAN, restored : BOOLEAN]
Event == [branch : {"draft", "published"}, log : Nat, changes : SUBSET Change]

DbOK(db) ==
    /\ db.versions \in [Entities -> Seq(SUBSET Entities)]
    /\ BranchOK(db.draft)
    /\ BranchOK(db.published)
    /\ db.draftLogs \subseteq Log
    /\ db.publishLogs \in Seq(Packages)

\* Every table holds rows of its kind, in the open transaction and committed.
TypeOK ==
    /\ DbOK(Db)
    /\ DbOK(committed)
    /\ serial \in Nat
    /\ contexts \in Seq(Log)
    /\ outbox \in Seq(Event)
    /\ events \in Seq(Event)

Quiescent == contexts = <<>>
Closed(log) == \A i \in 1..Len(contexts) : contexts[i].id # log

Branches == {draft, published}

\* Replaying the log records of an entity in primary key order, from nothing,
\* walks without a gap to the version its row holds, and the row points at the
\* last of them: the history of set_draft_version and publish_from_drafts is
\* enough to reconstruct either branch, whatever was collapsed or cancelled.
HistoryReplays ==
    \A b \in Branches, e \in Entities :
        /\ b.recs[e] = {} => VersionOf(b.rows, e) = 0
        /\ \A r \in b.recs[e] :
            LET before == {q \in b.recs[e] : q.pk < r.pk}
                after  == {q \in b.recs[e] : q.pk > r.pk}
            IN  /\ before = {} => r.old = 0
                /\ \A q \in before :
                    (\A x \in before : x.pk <= q.pk) => r.old = q.new
                /\ after = {} => /\ LogRecordOf(b.rows, e) = r.log
                                 /\ VersionOf(b.rows, e) = r.new

\* The cached digest of every live row of the branch is what its dependencies'
\* rows and digests give now.
FreshIn(b) ==
    \A e \in Entities :
        VersionOf(b.rows, e) # 0 =>
            CurrentRecord(b, e).digest =
                {<<d, VersionOf(b.rows, d), CurrentRecord(b, d).digest>> :
                    d \in LiveDependencies(versions, b.rows, e, VersionOf(b.rows, e))}

\* No change, deletion, restoration, reset or publish of a dependency leaves a
\* stale dependencies_hash_digest behind, on either branch.  For drafts this is
\* promised between bulk_draft_changes_for contexts only.
DigestsFresh == FreshIn(published) /\ (Quiescent => FreshIn(draft))

\* What a reader of the branch sees below e: live dependencies at any distance.
Tree(rows, e) ==
    {<<d, VersionOf(rows, d)>> :
        d \in {x \in {e} \cup Descendants(CurrentDependencies(versions, rows), {e}) :
                VersionOf(rows, x) # 0}}

\* Comparing the two digests of an entity whose draft and published versions
\* are the same (contains_unpublished_changes) finds a difference exactly when
\* an author and a learner see different content below it.
UnpublishedChangesDetected ==
    Quiescent =>
        \A e \in Entities :
            /\ VersionOf(draft.rows, e) # 0
            /\ VersionOf(draft.rows, e) = VersionOf(published.rows, e)
            => (CurrentRecord(draft, e).digest = CurrentRecord(published, e).digest)
               <=> (Tree(draft.rows, e) = Tree(published.rows, e))

\* No draft log without records survives its context.
NoEmptyDraftLog ==
    \A l \in draftLogs :
        Closed(l.id) => \E e \in Entities : InLog(draft.recs[e], l.id)

\* Records join a log of their entity's own package, however contexts of
\* several packages are nested.
RecordsInOwnPackage ==
    \A e \in Entities :
        /\ \A r \in draft.recs[e] :
            [id |-> r.log, package |-> PackageOf[e]] \in draftLogs
        /\ \A r \in published.recs[e] : publishLogs[r.log] = PackageOf[e]

Mentions(branch, e) ==
    {i \in 1..Len(events) : events[i].branch = branch /\
        \E c \in events[i].changes : c.entity = e}
ChangeOf(i, e) == CHOOSE c \in events[i].changes : c.entity = e

\* The flag of a change agrees with the events sent before it.
RestoredWhenSeenBefore ==
    \A i \in 1..Len(events) : \A c \in events[i].changes :
        events[i].branch = "draft" =>
            c.restored <=> /\ c.old = 0 /\ c.new # 0
                           /\ \E j \in Mentions("draft", c.entity) : j < i

\* A subscriber that applies the changes of every event it was sent, in order,
\* holds the committed draft and published versions, and each change starts
\* from the version it holds: no event is missing, early or out of order.  A
\* change is flagged as restored exactly when the subscriber was told of the
\* entity before and then of its deletion.
EventsReplay ==
    /\ RestoredWhenSeenBefore
    /\ \A branch \in {"draft", "published"}, e \in Entities :
           LET at  == Mentions(branch, e)
               now == VersionOf(IF branch = "draft" THEN committed.draft.rows
                                ELSE committed.published.rows, e)
           IN  /\ at = {} => now = 0
               /\ \A i \in at :
                   LET before == {j \in at : j < i} IN
                   /\ (\A j \in at : j <= i) => ChangeOf(i, e).new = now
                   /\ before = {} => ChangeOf(i, e).old = 0
                   /\ \A j \in before : (\A k \in before : k <= j) =>
                       ChangeOf(i, e).old = ChangeOf(j, e).new

\* A committed record is never altered or removed, except that its digest and
\* version may still change while its own log is open.  The history that
\* get_published_version_as_of and the edit history read is immutable.
CommittedHistoryImmutable ==
    [][\A e \in Entities :
        /\ committed.draft.recs[e] \subseteq committed'.draft.recs[e]
        /\ committed.published.recs[e] \subseteq committed'.published.recs[e]]_vars

OpenLogs == {contexts[i] : i \in 1..Len(contexts)}

\* The draft logs a step closes: the log of a context that exits, or the log of
\* a change made outside any context.
ClosedByStep == {l \in draftLogs' \ OpenLogs' : l \notin draftLogs \/ l \in OpenLogs}

\* After a publish that includes dependencies, what a learner sees below every
\* requested entity is what its author sees.
PublishIncludesDependencies ==
    [][publishLogs' # publishLogs =>
        \A p \in Packages, S \in Selections, kind \in QuerysetKinds :
            PublishFromDrafts(p, S, kind, TRUE) =>
                (\A e \in S : Tree(draft.rows, e) = Tree(published.rows, e))']_vars

\* Discarding the unpublished changes of a package leaves no entity of it with
\* an unpublished change, neither of its own nor, by the digests, below it.
ResetLeavesNothingUnpublished ==
    [][\A p \in Packages : Quiescent /\ ResetDraftsToPublished(p) =>
        \A e \in Entities : PackageOf[e] = p /\ draft'.rows[e] # NoRow =>
            /\ VersionOf(draft'.rows, e) = VersionOf(published.rows, e)
            /\ VersionOf(draft'.rows, e) # 0 =>
                CurrentRecord(draft', e).digest = CurrentRecord(published, e).digest]_vars

\* A record captures the before and after states of its entity's draft: when a
\* log is closed, each of its records ends at the version the draft then has.
LogsCaptureAfterState ==
    [][\A l \in ClosedByStep : \A e \in Entities : InLog(draft'.recs[e], l.id) =>
        RecordIn(draft'.recs[e], l.id).new = VersionOf(draft'.rows, e)]_vars
=============================================================================
