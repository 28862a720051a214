------------------------------ MODULE Containers ------------------------------
(***************************************************************************)
(* The containers applet: every version of a unit, subsection or section   *)
(* has an entity list, whose rows name children, pinned to a version or    *)
(* not.  Containers change state only by creating versions through         *)
(* publishing, with the unpinned children as dependencies, and read their  *)
(* children back from a branch, from the publish history or, as the        *)
(* question whether anything below them is unpublished, from the digests.  *)
(***************************************************************************)
EXTENDS Publishing

CONSTANTS
    ListInputs,      \* input: the lists of children callers pass for a container
    ListActions      \* input: ChildrenEntitiesAction members callers use

VARIABLE lists       \* per container, the rows of each version's entity list

cvars == <<vars, lists>>

\* EntityListRow in order_num order; pin = 0 is the NULL of an unpinned row.
EntityListRow == [entity : Entities, pin : Nat]

Containers == {e \in Entities : Level[e] > 0}

ASSUME ContainersAssumption ==
    /\ ListInputs \in [Containers -> SUBSET Seq(EntityListRow)]
    /\ ListActions \subseteq {"append", "remove", "replace"}
    /\ \A e \in Entities : DependencySets[e] = SUBSET {d \in Entities :
            PackageOf[d] = PackageOf[e] /\ Level[d] < Level[e]}

-----------------------------------------------------------------------------
(* Creating versions.                                                      *)

RowsOf(list) == {list[i] : i \in DOMAIN list}

\* The dependencies of a version with this list.
UnpinnedChildren(list) == {r.entity : r \in {x \in RowsOf(list) : x.pin = 0}}

\* validate_entity of Unit, Subsection and Section, and the package check.
ValidChild(c, e) == Level[e] + 1 = Level[c] /\ PackageOf[e] = PackageOf[c]

LatestList(c) == lists[c][Len(lists[c])]

\* create_next_entity_list: based on the latest version, not on the draft.
NextEntityList(c, input, action) ==
    CASE action = "replace" -> input
      [] action = "append"  -> LatestList(c) \o input
      [] action = "remove"  -> LET Kept(r) == r \notin RowsOf(input)
                               IN  SelectSeq(LatestList(c), Kept)

\* Mutant: the version exists, but the draft still holds the one before it.
NewVersionLeavingDraft(c, list) ==
    /\ Len(versions[c]) < MaxVersion[c]
    /\ lists' = [lists EXCEPT ![c] = Append(@, list)]
    /\ versions' = [versions EXCEPT ![c] = Append(@, UnpinnedChildren(list))]
    /\ UNCHANGED <<draft, published, draftLogs, publishLogs, serial, contexts>>
    /\ OnCommit(<<>>)

\* create_entity_list_with_rows, with the foreign keys of its rows, and
\* _create_container_version.
NewContainerVersion(c, list) ==
    /\ list \in Seq(EntityListRow)
    /\ \A r \in RowsOf(list) :
        ValidChild(c, r.entity) /\ r.pin <= Len(versions[r.entity])
    /\ lists' = [lists EXCEPT ![c] = Append(@, list)]
    /\ CreateVersion(c, UnpinnedChildren(list))

\* create_container_version and create_next_container_version with children.
\* Without an earlier version there is nothing to append to or remove from.
CreateContainerVersion(c, input, action) ==
    /\ action # "replace" => lists[c] # <<>>
    /\ NewContainerVersion(c, NextEntityList(c, input, action))

\* create_next_container_version(entities=None): only metadata changes, and
\* the new version shares the entity list of the latest one.
ChangeContainerMetadata(c) ==
    /\ lists[c] # <<>>
    /\ NewContainerVersion(c, LatestList(c))

\* Mutant: lists outlive the rollback of their versions.
AbortKeepingLists == BulkAbort /\ UNCHANGED lists

\* A rollback takes the lists of the versions it undoes with it.
AbortContainers ==
    /\ BulkAbort
    /\ lists' = [c \in Containers |-> SubSeq(lists[c], 1, Len(versions'[c]))]

-----------------------------------------------------------------------------
(* Reading children.                                                       *)

ListOf(rows, c) == lists[c][VersionOf(rows, c)]

\* The entries of children that exist, in the order of the list.
ExistingEntries(entries) ==
    LET upTo[k \in 0 .. Len(entries)] ==
            IF k = 0 THEN <<>>
            ELSE IF entries[k].version # 0 THEN Append(upTo[k - 1], entries[k])
            ELSE upTo[k - 1]
    IN  upTo[Len(entries)]

\* The rows whose children exist at the moment, as ContainerEntityListEntry:
\* current[e] is the version of an unpinned child, 0 for one to leave out.
EntriesOf(list, current) ==
    LET Entry(r) == [entity |-> r.entity, pinned |-> r.pin # 0,
                     version |-> IF r.pin # 0 THEN r.pin ELSE current[r.entity]]
    IN  ExistingEntries([i \in DOMAIN list |-> Entry(list[i])])

\* get_entities_in_container, for a container with a version in the branch.
EntitiesInContainer(rows, c) ==
    EntriesOf(ListOf(rows, c), [e \in Entities |-> VersionOf(rows, e)])

\* Its rows access entity.draft or entity.published, which raises without one.
Readable(rows, c) ==
    /\ VersionOf(rows, c) # 0
    /\ \A e \in UnpinnedChildren(ListOf(rows, c)) : rows[e] # NoRow

\* Mutant: the snapshot of an entity is what is published now.
PublishedNow(e, log) == VersionOf(published.rows, e)

\* get_published_version_as_of
PublishedAsOf(e, log) ==
    LET upTo == {r \in published.recs[e] : r.log <= log}
    IN  IF upTo = {} THEN 0
        ELSE (CHOOSE r \in upTo : \A q \in upTo : q.log <= r.log).new

\* get_entities_in_container_as_of: the container's version and its children.
EntitiesInContainerAsOf(c, log) ==
    LET version == PublishedAsOf(c, log)
    IN  <<version, IF version = 0 THEN <<>>
                   ELSE EntriesOf(lists[c][version],
                                  [e \in Entities |-> PublishedAsOf(e, log)])>>

HasUnpublishedChanges(c) == VersionOf(draft.rows, c) # VersionOf(published.rows, c)

\* Mutant: only the container's own version is compared.
ContainsOwnChangesOnly(c) == HasUnpublishedChanges(c)

\* contains_unpublished_changes, where it returns: the rows of both branches
\* exist unless the versions differ.
ContainsUnpublishedChanges(c) ==
    \/ HasUnpublishedChanges(c)
    \/ CurrentRecord(draft, c).digest # CurrentRecord(published, c).digest
ContainsUnpublishedChangesReturns(c) ==
    HasUnpublishedChanges(c) \/ (draft.rows[c] # NoRow /\ published.rows[c] # NoRow)

-----------------------------------------------------------------------------
CInit == Init /\ lists = [c \in Containers |-> <<>>]

\* What publishing does to its own tables leaves the entity lists alone.
PublishingStep ==
    \/ \E e \in Entities \ Containers : CreateVersion(e, {})
    \/ \E e \in Entities : \E n \in 1..MaxVersion[e] : SetDraftVersion(e, n)
    \/ \E e \in Entities : SoftDeleteDraft(e)
    \/ \E p \in Packages : ResetDraftsToPublished(p)
    \/ \E p \in Packages : BulkEnter(p)
    \/ BulkExit
    \/ \E p \in Packages, S \in Selections, kind \in QuerysetKinds, deps \in BOOLEAN :
         PublishFromDrafts(p, S, kind, deps)
    \/ \E p \in Packages : PublishAllDrafts(p)

CNext ==
    \/ \E c \in Containers : \E input \in ListInputs[c], action \in ListActions :
         CreateContainerVersion(c, input, action)
    \/ \E c \in Containers : ChangeContainerMetadata(c)
    \/ AbortContainers
    \/ PublishingStep /\ UNCHANGED lists

CSpec == CInit /\ [][CNext]_cvars

-----------------------------------------------------------------------------
(* Properties.                                                             *)

\* Every version of a container has an entity list, whose unpinned rows are the
\* version's dependencies and whose pins are versions that exist: the tables of
\* the two applets never drift apart, whatever is rolled back.
ListsMatchVersions ==
    /\ lists \in [Containers -> Seq(Seq(EntityListRow))]
    /\ \A c \in Containers :
        /\ Len(lists[c]) = Len(versions[c])
        /\ \A n \in DOMAIN lists[c] :
            /\ versions[c][n] = UnpinnedChildren(lists[c][n])
            /\ \A r \in RowsOf(lists[c][n]) : r.pin <= Len(versions[r.entity])

\* Containers change publishing's tables in no other way than publishing's own
\* operations do: every version they make goes through CreateVersion, with
\* dependencies of their own package and a lower level.
ImplementsPublishing == Spec

\* Where contains_unpublished_changes says no, author and learner read the same
\* children of the container and of every container below it, whatever happened
\* to any of them in between.
UnchangedContainersReadAlike ==
    Quiescent =>
        \A c \in Containers :
            /\ VersionOf(draft.rows, c) # 0
            /\ ContainsUnpublishedChangesReturns(c)
            /\ ~ContainsUnpublishedChanges(c)
            => \A x \in Containers \cap
                    ({c} \cup Descendants(CurrentDependencies(versions, draft.rows), {c})) :
                VersionOf(draft.rows, x) # 0 =>
                    /\ VersionOf(published.rows, x) = VersionOf(draft.rows, x)
                    /\ Readable(published.rows, x) =>
                        EntitiesInContainer(published.rows, x)
                            = EntitiesInContainer(draft.rows, x)

\* The snapshot as of the latest publish is what is published: the history that
\* get_entities_in_container_as_of reads and the Published rows that
\* get_entities_in_container reads never tell different stories.
SnapshotIsPublished ==
    \A c \in Containers :
        LET snapshot == EntitiesInContainerAsOf(c, Len(publishLogs)) IN
        /\ snapshot[1] = VersionOf(published.rows, c)
        /\ Readable(published.rows, c) =>
            snapshot[2] = EntitiesInContainer(published.rows, c)

\* A snapshot shows what was published, and as of a committed publish it never
\* changes again: not by edits, deletions and resets of drafts, later publishes
\* or rollbacks.
SnapshotsStayTrue ==
    /\ []SnapshotIsPublished
    /\ [][\A c \in Containers : \A log \in 1..Len(committed.publishLogs) :
           EntitiesInContainerAsOf(c, log)' = EntitiesInContainerAsOf(c, log)]_cvars
=============================================================================
