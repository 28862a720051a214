---------------------------- MODULE ContentUpgrade ----------------------------
(***************************************************************************)
(* The data migrations that gave existing databases their draft history    *)
(* and dependencies: 0007 writes a DraftChangeLog for every version and    *)
(* for every draft that is not at its last version, 0010 derives the       *)
(* dependencies from the entity lists, points every draft at its newest    *)
(* record and computes the digests.  Here they are run on every database   *)
(* the program can reach, after taking out of it what they should restore. *)
(***************************************************************************)
EXTENDS ContentQueries

ASSUME ContentUpgradeAssumption == IsFiniteSet(Entities)

-----------------------------------------------------------------------------
(* 0007_bootstrap_draftchangelog.                                          *)

\* Log ids in the order of the versions: each log has one record.
Position ==
    CHOOSE f \in [Entities -> 1..Cardinality(Entities)] :
        \A d, e \in Entities : f[d] = f[e] => d = e
LogFor(e, n) == (n - 1) * Cardinality(Entities) + Position[e]

\* Mutant: drafts that are not at their last version are left out.
BootstrapVersionsOnly(rows) ==
    [rows |-> rows,
     recs |-> [e \in Entities |->
        {Record(LogFor(e, n), LogFor(e, n), n - 1, n, FALSE, {}) : n \in DOMAIN versions[e]}]]

\* bootstrap_draft_change_logs
BootstrapDraftChangeLogs(rows) ==
    [rows |-> rows,
     recs |-> [e \in Entities |->
        LET last == Len(versions[e])
            now  == VersionOf(rows, e)
            log  == LogFor(e, last + 1)
        IN  {Record(LogFor(e, n), LogFor(e, n), n - 1, n, FALSE, {}) : n \in 1..last}
            \cup IF rows[e] = NoRow \/ now = last THEN {}
                 ELSE {Record(log, log, last, now, FALSE, {})}]]

-----------------------------------------------------------------------------
(* 0010_backfill_dependencies.                                             *)

\* remove_backfill, the reverse migration: no digests and, for drafts, no
\* pointer to a record.
WithoutBackfill(b, branch) ==
    [rows |-> IF branch = "draft"
              THEN [e \in Entities |-> IF b.rows[e] = NoRow THEN NoRow
                                       ELSE [version |-> b.rows[e].version, rec |-> 0]]
              ELSE b.rows,
     recs |-> [e \in Entities |->
        {Record(r.pk, r.log, r.old, r.new, r.direct, {}) : r \in b.recs[e]}]]

\* _create_dependencies: every child of a list, pinned ones included.
CreatedDependencies ==
    [e \in Entities |->
        [n \in DOMAIN versions[e] |->
            IF e \in Containers THEN {r.entity : r \in RowsOf(lists[e][n])} ELSE {}]]

\* Mutant: the oldest record instead of the newest.
PointAtOldest(b) ==
    [rows |-> [e \in Entities |->
        IF b.rows[e] = NoRow \/ b.recs[e] = {} THEN b.rows[e]
        ELSE [version |-> b.rows[e].version,
              rec |-> (CHOOSE r \in b.recs[e] : \A q \in b.recs[e] : r.pk <= q.pk).log]],
     recs |-> b.recs]

\* _update_drafts
UpdateDrafts(b) ==
    [rows |-> [e \in Entities |->
        IF b.rows[e] = NoRow \/ b.recs[e] = {} THEN b.rows[e]
        ELSE [version |-> b.rows[e].version,
              rec |-> (CHOOSE r \in b.recs[e] : \A q \in b.recs[e] : q.pk <= r.pk).log]],
     recs |-> b.recs]

\* hash_for_log_record when no stored digest is trusted, one unfolding.
RehashAll(deps, b, digests) ==
    [e \in Entities |->
        IF VersionOf(b.rows, e) = 0 THEN {}
        ELSE DependencyState(deps, b, digests, e, CurrentRecord(b, e).new)]

\* The recursion is as deep as the dependency graph is high: four levels.
BackfilledDigests(deps, b) ==
    RehashAll(deps, b, RehashAll(deps, b, RehashAll(deps, b,
        RehashAll(deps, b, [e \in Entities |-> {}]))))

\* The logs that hold the current record of a live container.
LogsToBackfill(b) ==
    {b.rows[c].rec : c \in {x \in Containers : VersionOf(b.rows, x) # 0}}

\* _update_draft_dependencies_hashes and _update_published_dependencies_hashes.
BackfillDigests(deps, b) ==
    LET digests == BackfilledDigests(deps, b)
    IN  [rows |-> b.rows,
         recs |-> [e \in Entities |->
            {IF r.log \in LogsToBackfill(b)
             THEN Record(r.pk, r.log, r.old, r.new, r.direct,
                         DependencyState(deps, b, digests, e, r.new))
             ELSE r : r \in b.recs[e]}]]

\* create_backfill for each branch.
CreateBackfill(b, branch) ==
    BackfillDigests(CreatedDependencies, IF branch = "draft" THEN UpdateDrafts(b) ELSE b)

-----------------------------------------------------------------------------
(* Properties.                                                             *)

\* No child is pinned only: 0010 expects no pinned references in existing data.
NoPinsToMigrate ==
    \A c \in Containers : \A n \in DOMAIN lists[c] :
        \A r \in RowsOf(lists[c][n]) : r.entity \in UnpinnedChildren(lists[c][n])

SameDigests(b, migrated) ==
    \A e \in Entities : VersionOf(b.rows, e) # 0 =>
        CurrentRecord(migrated, e).digest = CurrentRecord(b, e).digest

\* Taking the backfill out of a database and running it again gives the same
\* dependencies, makes every draft point at the same record and gives every
\* live entity the digest that the program keeps up to date change by change.
BackfillRestoresDigests ==
    Quiescent /\ NoPinsToMigrate =>
        LET d == CreateBackfill(WithoutBackfill(draft, "draft"), "draft")
            p == CreateBackfill(WithoutBackfill(published, "published"), "published")
        IN  /\ CreatedDependencies = versions
            /\ d.rows = draft.rows
            /\ SameDigests(draft, d) /\ SameDigests(published, p)

\* A database that never had draft logs gets, from its versions and drafts
\* alone, a history that replays to the drafts as they are, and the backfill on
\* top of it gives the digests that the real history leads to.
BootstrapExplainsDrafts ==
    Quiescent /\ NoPinsToMigrate =>
        LET b == CreateBackfill(BootstrapDraftChangeLogs(draft.rows), "draft") IN
        /\ SameDigests(draft, b)
        /\ \A e \in Entities :
            /\ b.recs[e] = {} => VersionOf(draft.rows, e) = 0
            /\ \A r \in b.recs[e] :
                /\ (\A q \in b.recs[e] : q.pk <= r.pk) => r.new = VersionOf(draft.rows, e)
                /\ r.old # 0 => \E q \in b.recs[e] : q.pk < r.pk /\ q.new = r.old
=============================================================================
