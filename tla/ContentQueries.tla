---------------------------- MODULE ContentQueries ----------------------------
(***************************************************************************)
(* What the publishing and containers applets answer about a learning      *)
(* package: which entities have something to publish, the edit history of  *)
(* an entity since its last publish and the edits behind each publish, and *)
(* the containers around and the components below an entity.  The logs     *)
(* carry times, changed_at and published_at; here the position of a log's  *)
(* event in the order the logs were closed in.                             *)
(***************************************************************************)
EXTENDS Containers

-----------------------------------------------------------------------------
(* Unpublished changes.                                                    *)

InPackage(p) == {e \in Entities : PackageOf[e] = p}

\* get_entities_with_unpublished_changes.  In SQL NULL differs from NULL, so
\* excluding equal versions keeps every entity without a draft version.
EntitiesWithUnpublishedChanges(p, includeDeleted) ==
    {e \in InPackage(p) :
        LET d == VersionOf(draft.rows, e)
            v == VersionOf(published.rows, e)
        IN  /\ d = 0 \/ d # v
            /\ IF includeDeleted THEN ~(d = 0 /\ v = 0) ELSE d # 0}

EntitiesWithUnpublishedDeletes(p) ==
    {e \in InPackage(p) : VersionOf(draft.rows, e) = 0 /\ VersionOf(published.rows, e) # 0}

-----------------------------------------------------------------------------
(* The history of an entity.                                               *)

\* changed_at or published_at of a log; an open one is later than the others.
TimeOf(branch, log) ==
    LET sent == events \o outbox
        at == {i \in DOMAIN sent : sent[i].branch = branch /\ sent[i].log = log}
    IN  IF at = {} THEN Len(sent) + 1 ELSE CHOOSE i \in at : TRUE

ChangedAt(r) == TimeOf("draft", r.log)
PublishedAt(r) == TimeOf("published", r.log)

\* Mutant: discarding the changes leaves them in the history.
KeepDiscarded(rs, n) == rs

\* The records later than every record of rs that ends at version n: going back
\* to n discarded what came before.
SinceReset(rs, n) ==
    {r \in rs : \A q \in rs : q.new = n => ChangedAt(q) < ChangedAt(r)}

\* get_entity_draft_history
DraftHistory(e) ==
    IF published.rows[e] = NoRow THEN draft.recs[e]
    ELSE SinceReset({r \in draft.recs[e] :
                        ChangedAt(r) > PublishedAt(CurrentRecord(published, e))},
                    VersionOf(published.rows, e))

\* get_entity_publish_history, and the record before that of a log in it.
EarlierPublishes(e, log) == {q \in published.recs[e] : q.log < log}
PublishBefore(e, log) ==
    CHOOSE q \in EarlierPublishes(e, log) :
        \A x \in EarlierPublishes(e, log) : x.log <= q.log
Baseline(e, log) ==
    IF EarlierPublishes(e, log) = {} THEN 0 ELSE PublishBefore(e, log).new

\* Mutant: the window has no upper bound.
PublishEntriesToDate(e, log) ==
    SinceReset({r \in draft.recs[e] :
                    EarlierPublishes(e, log) # {} =>
                        ChangedAt(r) > PublishedAt(PublishBefore(e, log))},
               Baseline(e, log))

\* get_entity_publish_history_entries: between the previous publish of e and
\* this one, from the last time the draft returned to what was published.
PublishEntries(e, log) ==
    SinceReset({r \in draft.recs[e] :
                    /\ ChangedAt(r) <= PublishedAt(RecordIn(published.recs[e], log))
                    /\ EarlierPublishes(e, log) # {} =>
                        ChangedAt(r) > PublishedAt(PublishBefore(e, log))},
               Baseline(e, log))

\* get_entity_version_contributors: the records whose authors it returns.
ContributorRecords(e, old, new) ==
    {r \in draft.recs[e] :
        IF new # 0 THEN r.new > old /\ r.new <= new
        ELSE r.new > old \/ (r.new = 0 /\ r.old # 0 /\ r.old >= old)}

-----------------------------------------------------------------------------
(* Containers around an entity and components below one.                   *)

\* get_containers
GetContainers(p, includeDeleted) ==
    {c \in Containers \cap InPackage(p) :
        includeDeleted \/ VersionOf(draft.rows, c) # 0}

\* Mutant: the two conditions may hold of different rows.
ContainersWithAnyUnpinned(rows, e, ignorePinned) ==
    {c \in Containers : VersionOf(rows, c) # 0 /\
        (\E r \in RowsOf(ListOf(rows, c)) : r.entity = e) /\
        (ignorePinned => \A r \in RowsOf(ListOf(rows, c)) : r.pin = 0)}

\* get_containers_with_entity
ContainersWithEntity(rows, e, ignorePinned) ==
    {c \in Containers : VersionOf(rows, c) # 0 /\
        \E r \in RowsOf(ListOf(rows, c)) :
            r.entity = e /\ (ignorePinned => r.pin = 0)}

\* get_container_children_count: rows whose entity is live, pinned or not.
ChildrenCount(rows, c) ==
    Cardinality({i \in DOMAIN ListOf(rows, c) :
                    VersionOf(rows, ListOf(rows, c)[i].entity) # 0})

\* get_container_children_entity_refs
ChildrenEntityRefs(c, n) == [i \in DOMAIN lists[c][n] |-> lists[c][n][i].entity]

\* What the walk of get_descendant_component_entity_ids visits from each entity:
\* a container without a draft version, pinned or not, contributes nothing.
DraftChildren ==
    [c \in Entities |->
        IF c \in Containers /\ VersionOf(draft.rows, c) # 0
        THEN {x.entity : x \in RowsOf(EntitiesInContainer(draft.rows, c))} ELSE {}]

\* get_descendant_component_entity_ids
DescendantComponents(c) == Descendants(DraftChildren, {c}) \ Containers

-----------------------------------------------------------------------------
(* Properties.                                                             *)

\* The records lead in time order from version a to version b.
Leads(rs, a, b) ==
    /\ rs = {} => a = b
    /\ \A r \in rs :
        LET before == {q \in rs : ChangedAt(q) < ChangedAt(r)}
            after  == {q \in rs : ChangedAt(q) > ChangedAt(r)}
        IN  /\ before = {} => r.old = a
            /\ after = {} => r.new = b
            /\ \A q \in before :
                (\A x \in before : ChangedAt(x) <= ChangedAt(q)) => r.old = q.new

\* A publish of e itself; the others only note that something below e changed.
Own(r) == r.direct \/ r.old # r.new

\* The draft history of an entity leads from what is published to the draft,
\* whatever was edited, discarded, deleted and restored since, and is empty
\* when nothing is left to publish.  Only where the last publish that touched
\* the entity published the entity itself.
HistoryLeadsToDraft ==
    \A e \in Entities :
        LET h == DraftHistory(e) IN
        (published.rows[e] # NoRow => Own(CurrentRecord(published, e))) =>
            /\ Leads(h, VersionOf(published.rows, e), VersionOf(draft.rows, e))
            /\ published.rows[e] # NoRow => (h = {} <=> ~Unpublished(e))

\* The edits listed under a publish lead from what was published before to what
\* it published, and its contributors include the author of the last of them.
PublishEntriesExplainThePublish ==
    \A e \in Entities : \A r \in published.recs[e] :
        Own(r) /\ (EarlierPublishes(e, r.log) # {} => Own(PublishBefore(e, r.log))) =>
            /\ Leads(PublishEntries(e, r.log), Baseline(e, r.log), r.new)
            /\ r.new > r.old =>
                \E x \in PublishEntries(e, r.log) \cap ContributorRecords(e, r.old, r.new) :
                    x.new = r.new

\* The three ways to ask what is unpublished give one answer: the changes with
\* deletions are what publish_all_drafts would publish, and splitting off the
\* deletions leaves the changes without.  Before, between and after publishes
\* of deletions, where comparing NULL versions could go either way.
UnpublishedQueriesAgree ==
    \A p \in Packages :
        LET changes == EntitiesWithUnpublishedChanges(p, TRUE)
            deletes == EntitiesWithUnpublishedDeletes(p)
        IN  /\ changes = {e \in InPackage(p) : Unpublished(e)}
            /\ EntitiesWithUnpublishedChanges(p, FALSE) = changes \ deletes
            /\ deletes \subseteq changes

\* Queries that ask the same thing agree: on what is unpublished, and around
\* containers.  The containers a reverse lookup finds are those whose digest a
\* change of the entity reaches; the listing, the count and the refs describe
\* the same rows unless a pinned child is deleted; and the components found by
\* walking lists are those found by walking dependencies unless some are pinned.
QueriesAgree ==
    LET deps == CurrentDependencies(versions, draft.rows) IN
    /\ UnpublishedQueriesAgree
    /\ \A b \in Branches, e \in Entities :
        ContainersWithEntity(b.rows, e, TRUE)
            = AffectedBy(CurrentDependencies(versions, b.rows), {e})
    /\ \A c \in Containers : Readable(draft.rows, c) =>
        LET refs == ChildrenEntityRefs(c, VersionOf(draft.rows, c))
            live == {i \in DOMAIN refs : VersionOf(draft.rows, refs[i]) # 0}
            gone == {r \in RowsOf(ListOf(draft.rows, c)) :
                        r.pin # 0 /\ VersionOf(draft.rows, r.entity) = 0}
        IN  /\ c \in GetContainers(PackageOf[c], FALSE)
            /\ ChildrenCount(draft.rows, c) = Cardinality(live)
            /\ gone = {} => Len(EntitiesInContainer(draft.rows, c)) = Cardinality(live)
            /\ \A x \in DescendantComponents(c) :
                    \E y \in Containers : x \in RowsOf(ChildrenEntityRefs(y, VersionOf(draft.rows, y)))
            /\ {d \in Descendants(deps, {c}) \ Containers : VersionOf(draft.rows, d) # 0}
                \subseteq DescendantComponents(c)
=============================================================================
