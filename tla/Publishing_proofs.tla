--------------------------- MODULE Publishing_proofs ---------------------------
(***************************************************************************)
(* Type correctness of module Publishing and what the draft and publish    *)
(* logs promise, for every value of the constants and however contexts are *)
(* nested: each record is in a log of its own learning package, no closed  *)
(* draft log is empty, and committed records are never altered.  Where no  *)
(* context is opened inside one of the same package, which the code does   *)
(* not support, the draft and publish logs can be replayed.                *)
(***************************************************************************)
EXTENDS Publishing, SequenceTheorems, WellFoundedInduction, TLAPS

-----------------------------------------------------------------------------
(* Maxima of bounded sets of naturals.                                     *)

\* A bounded set of naturals that is not empty has a greatest element.  The
\* two places of the code that need it take the latest record of an entity
\* and the innermost context of a package.
LEMMA MaxExists ==
    ASSUME NEW S, S \subseteq Nat, S # {},
           NEW n \in Nat, \A x \in S : x <= n
    PROVE  \E x \in S : \A y \in S : y <= x
<1> DEFINE T == {n - x : x \in S}
<1>1. T \subseteq Nat /\ T # {}
    <2>1. \A x \in S : x \in Nat /\ x <= n
        OBVIOUS
    <2>2. \A t \in T : t \in Nat
        BY <2>1
    <2>3. PICK x \in S : TRUE
        OBVIOUS
    <2>4. n - x \in T
        BY <2>3
    <2> QED
        BY <2>2, <2>4
<1>2. PICK t \in T : \A u \in T : ~ (<<u, t>> \in OpToRel(<, Nat))
    BY <1>1, NatLessThanWellFounded, WFMin, Zenon
<1>3. PICK x \in S : t = n - x
    BY <1>2
<1>4. \A y \in S : ~ (n - y < n - x)
    BY <1>1, <1>2, <1>3 DEF OpToRel
<1>5. \A y \in S : y <= x
    BY <1>4
<1> QED
    BY <1>5

-----------------------------------------------------------------------------
(* The type of a branch is kept by the operators that change one.          *)

\* No record of the branch was created after n.
PkBound(b, n) == \A e \in Entities : \A r \in b.recs[e] : r.pk <= n

LEMMA VersionType ==
    ASSUME NEW b, BranchOK(b), NEW e \in Entities
    PROVE  VersionOf(b.rows, e) \in Nat /\ LogRecordOf(b.rows, e) \in Nat
    BY ConstantsAssumption DEF BranchOK, VersionOf, LogRecordOf, Row

\* Two states of one record, which differ in the digest at most.
SameRecord(x, r) ==
    /\ x.pk = r.pk /\ x.log = r.log
    /\ x.old = r.old /\ x.new = r.new /\ x.direct = r.direct

\* The new digests are all that the recomputation of a log changes: no record
\* appears or disappears, and the records of other logs stay as they are.
LEMMA DigestsMembers ==
    ASSUME NEW vs, NEW b, NEW log
    PROVE  LET a == UpdateDependenciesHashDigests(vs, b, log)
           IN  /\ a.rows = b.rows
               /\ DOMAIN a.recs = Entities
               /\ \A e \in Entities :
                    /\ \A x \in a.recs[e] : \E r \in b.recs[e] : SameRecord(x, r)
                    /\ \A r \in b.recs[e] : \E x \in a.recs[e] : SameRecord(x, r)
                    /\ \A x : x.log # log => (x \in a.recs[e] <=> x \in b.recs[e])
<1> DEFINE digests == HashDigests(vs, b, log)
           refreshed(e, r) ==
               IF r.log = log
               THEN Record(r.pk, log, r.old, r.new, r.direct,
                           DependencyState(vs, b, digests, e, r.new))
               ELSE r
           a == UpdateDependenciesHashDigests(vs, b, log)
<1>1. a = [rows |-> b.rows,
           recs |-> [e \in Entities |-> {refreshed(e, r) : r \in b.recs[e]}]]
    BY DEF UpdateDependenciesHashDigests
<1>2. \A e, r : SameRecord(refreshed(e, r), r)
    BY DEF Record, SameRecord
<1>3. \A e, r : r.log # log => refreshed(e, r) = r
    OBVIOUS
<1>4. \A e, r : refreshed(e, r).log = r.log
    BY <1>2 DEF SameRecord
<1> HIDE DEF refreshed, a, digests
<1>5. a.rows = b.rows /\ DOMAIN a.recs = Entities
    BY <1>1
<1>6. ASSUME NEW e \in Entities
      PROVE  /\ \A x \in a.recs[e] : \E r \in b.recs[e] : SameRecord(x, r)
             /\ \A r \in b.recs[e] : \E x \in a.recs[e] : SameRecord(x, r)
             /\ \A x : x.log # log => (x \in a.recs[e] <=> x \in b.recs[e])
    <2>1. a.recs[e] = {refreshed(e, r) : r \in b.recs[e]}
        BY <1>1
    <2> QED
        BY <1>2, <1>3, <1>4, <2>1
<1> QED
    BY <1>5, <1>6 DEF a

\* The entities that depend on one with a record in the log.
AffectedByLog(vs, b, log) ==
    Ancestors(CurrentDependencies(vs, b.rows), {e \in Entities : InLog(b.recs[e], log)})

\* Branch a is branch b with the side effects of a log on the affected entities.
WithSideEffects(a, b, log, pk, affected) ==
    /\ DOMAIN a.recs = Entities
    /\ a.rows = [e \in Entities |->
                    IF e \in affected
                    THEN [version |-> VersionOf(b.rows, e), rec |-> log]
                    ELSE b.rows[e]]
    /\ \A e \in Entities :
        /\ \A x \in a.recs[e] :
            \/ \E r \in b.recs[e] : SameRecord(x, r)
            \/ /\ e \in affected /\ ~ InLog(b.recs[e], log)
               /\ x.pk = pk /\ x.log = log /\ x.direct = FALSE
               /\ x.old = VersionOf(b.rows, e) /\ x.new = x.old
        /\ \A r \in b.recs[e] : \E x \in a.recs[e] : SameRecord(x, r)
        /\ \A x : x.log # log => (x \in a.recs[e] <=> x \in b.recs[e])

\* Side effects keep every record and add records with old = new, numbered pk,
\* to the log, for affected entities that had none in it.
LEMMA SideEffectsMembers ==
    ASSUME NEW vs, NEW b, NEW log, NEW pk
    PROVE  WithSideEffects(CreateSideEffects(vs, b, log, pk), b, log, pk,
                           AffectedByLog(vs, b, log))
<1> DEFINE changed  == {e \in Entities : InLog(b.recs[e], log)}
           affected == Ancestors(CurrentDependencies(vs, b.rows), changed)
           new(e) == Record(pk, log, VersionOf(b.rows, e),
                            VersionOf(b.rows, e), FALSE, {})
           recs == [e \in Entities |->
                       IF e \in affected \ changed
                       THEN b.recs[e] \cup {new(e)} ELSE b.recs[e]]
           rows == [e \in Entities |->
                       IF e \in affected
                       THEN [version |-> VersionOf(b.rows, e), rec |-> log]
                       ELSE b.rows[e]]
           c == [rows |-> rows, recs |-> recs]
           a == CreateSideEffects(vs, b, log, pk)
<1>1. a = UpdateDependenciesHashDigests(vs, c, log)
    BY DEF CreateSideEffects
<1>2. \A e : /\ new(e).pk = pk /\ new(e).log = log /\ new(e).direct = FALSE
             /\ new(e).old = VersionOf(b.rows, e) /\ new(e).new = VersionOf(b.rows, e)
    BY DEF Record
<1>3. c.rows = rows /\ c.recs = recs
    OBVIOUS
<1> HIDE DEF c, a
<1>4. a.rows = rows /\ DOMAIN a.recs = Entities
    BY <1>1, <1>3, DigestsMembers
<1>5. ASSUME NEW e \in Entities
      PROVE  /\ \A x \in a.recs[e] :
                    \/ \E r \in b.recs[e] : SameRecord(x, r)
                    \/ /\ e \in affected /\ e \notin changed
                       /\ x.pk = pk /\ x.log = log /\ x.direct = FALSE
                       /\ x.old = VersionOf(b.rows, e) /\ x.new = x.old
             /\ \A r \in b.recs[e] : \E x \in a.recs[e] : SameRecord(x, r)
             /\ \A x : x.log # log => (x \in a.recs[e] <=> x \in b.recs[e])
    <2>1. /\ \A x \in a.recs[e] : \E r \in recs[e] : SameRecord(x, r)
          /\ \A r \in recs[e] : \E x \in a.recs[e] : SameRecord(x, r)
          /\ \A x : x.log # log => (x \in a.recs[e] <=> x \in recs[e])
        <3> HIDE DEF recs, rows
        <3> QED
            BY <1>1, <1>3, DigestsMembers
    <2> HIDE DEF new, affected, changed
    <2>2. /\ b.recs[e] \subseteq recs[e]
          /\ \A r \in recs[e] : \/ r \in b.recs[e]
                                \/ e \in affected /\ e \notin changed /\ r = new(e)
        OBVIOUS
    <2>3. \A x : x.log # log => (x \in recs[e] <=> x \in b.recs[e])
        BY <1>2, <2>2
    <2> HIDE DEF recs
    <2> QED
        BY <1>2, <2>1, <2>2, <2>3 DEF SameRecord
<1>6. affected = AffectedByLog(vs, b, log)
    BY DEF AffectedByLog
<1> HIDE DEF affected
<1>7. WithSideEffects(a, b, log, pk, affected)
    BY <1>4, <1>5 DEF WithSideEffects
<1> QED
    BY <1>6, <1>7 DEF a

\* Side effects add records and move rows of the right types.
LEMMA SideEffectsKeepType ==
    ASSUME NEW vs, NEW b, BranchOK(b), NEW log \in Nat, NEW pk \in Nat
    PROVE  BranchOK(CreateSideEffects(vs, b, log, pk))
<1> DEFINE a == CreateSideEffects(vs, b, log, pk)
<1>1. PICK affected : WithSideEffects(a, b, log, pk, affected)
    BY SideEffectsMembers
<1> HIDE DEF a
<1>2. \A e \in Entities : VersionOf(b.rows, e) \in Nat
    BY VersionType
<1>3. a.rows \in [Entities -> Row \cup {NoRow}]
    BY <1>1, <1>2 DEF BranchOK, Row, WithSideEffects
<1>4. ASSUME NEW e \in Entities, NEW x \in a.recs[e]
      PROVE  RecordOK(x)
    <2>1. CASE \E r \in b.recs[e] : SameRecord(x, r)
        BY <2>1 DEF BranchOK, RecordOK, SameRecord
    <2>2. CASE /\ x.pk = pk /\ x.log = log /\ x.direct = FALSE
               /\ x.old = VersionOf(b.rows, e) /\ x.new = x.old
        BY <1>2, <2>2 DEF RecordOK
    <2> QED
        BY <1>1, <2>1, <2>2 DEF WithSideEffects
<1> QED
    BY <1>1, <1>3, <1>4 DEF BranchOK, WithSideEffects, a

\* Side effects are recorded after every record there is.
LEMMA SideEffectsKeepBound ==
    ASSUME NEW vs, NEW b, NEW log, NEW pk, NEW n, pk <= n, PkBound(b, n)
    PROVE  PkBound(CreateSideEffects(vs, b, log, pk), n)
<1> DEFINE a == CreateSideEffects(vs, b, log, pk)
<1>1. PICK affected : WithSideEffects(a, b, log, pk, affected)
    BY SideEffectsMembers
<1> HIDE DEF a
<1>2. PkBound(a, n)
    BY <1>1 DEF PkBound, SameRecord, WithSideEffects
<1> QED
    BY <1>2 DEF a

\* What a change adds to a log: a new record, or a new state in an old one.
LEMMA AddToChangeLogMembers ==
    ASSUME NEW recs, NEW log, NEW pk, NEW old, NEW new
    PROVE  \A x \in AddToChangeLog(recs, log, pk, old, new) :
             \/ x \in recs
             \/ x = Record(pk, log, old, new, FALSE, {})
             \/ \E r \in recs : /\ r.log = log
                                /\ x = Record(r.pk, log, r.old, new, FALSE, r.digest)
    BY DEF AddToChangeLog

LEMMA AddToChangeLogType ==
    ASSUME NEW recs, \A r \in recs : RecordOK(r), NEW log \in Nat, NEW pk \in Nat,
           NEW n \in Nat, \A r \in recs : r.pk <= n, pk <= n,
           NEW old \in Nat, NEW new \in Nat,
           NEW x \in AddToChangeLog(recs, log, pk, old, new)
    PROVE  RecordOK(x) /\ x.pk <= n
<1>0. \/ x \in recs
      \/ x = Record(pk, log, old, new, FALSE, {})
      \/ \E r \in recs : /\ r.log = log
                         /\ x = Record(r.pk, log, r.old, new, FALSE, r.digest)
    BY AddToChangeLogMembers DEF Record
<1>1. CASE x \in recs
    BY <1>1
<1>2. CASE x = Record(pk, log, old, new, FALSE, {})
    BY <1>2 DEF RecordOK, Record
<1>3. CASE \E r \in recs : /\ r.log = log
                            /\ x = Record(r.pk, log, r.old, new, FALSE, r.digest)
    BY <1>3 DEF RecordOK, Record
<1> QED
    BY <1>0, <1>1, <1>2, <1>3

\* The record a draft points at afterwards is the one of a log, or none.
LEMMA LogRecordAfterType ==
    ASSUME NEW recs, \A r \in recs : RecordOK(r), NEW log \in Nat,
           NEW n \in Nat, \A r \in recs : r.pk <= n
    PROVE  LogRecordAfter(recs, log) \in Nat
<1>1. CASE InLog(recs, log) \/ recs = {}
    BY <1>1 DEF LogRecordAfter
<1>2. CASE ~ InLog(recs, log) /\ recs # {}
    <2> DEFINE pks == {r.pk : r \in recs}
    <2>1. pks \subseteq Nat /\ pks # {} /\ \A x \in pks : x <= n
        BY <1>2 DEF RecordOK
    <2>2. PICK x \in pks : \A y \in pks : y <= x
        BY <2>1, MaxExists
    <2>3. \E r \in recs : \A q \in recs : q.pk <= r.pk
        BY <2>2
    <2>4. (CHOOSE r \in recs : \A q \in recs : q.pk <= r.pk) \in recs
        BY <2>3
    <2> QED
        BY <1>2, <2>4 DEF LogRecordAfter, RecordOK
<1> QED
    BY <1>1, <1>2

\* What set_draft_version is asked for: a version, or 0, for some entities.
IsTarget(target) ==
    DOMAIN target \subseteq Entities /\ \A e \in DOMAIN target : target[e] \in Nat

\* Moving drafts keeps the Draft branch a branch.
LEMMA SetVersionsKeepBranch ==
    ASSUME BranchOK(draft), NEW n \in Nat, PkBound(draft, n),
           NEW target, IsTarget(target), NEW log \in Nat, NEW pk \in Nat, pk <= n
    PROVE  LET b == SetVersions(target, log, pk)
           IN  BranchOK(b) /\ PkBound(b, n)
<1> DEFINE changing == {e \in DOMAIN target : VersionOf(draft.rows, e) # target[e]}
           added(e) == AddToChangeLog(draft.recs[e], log, pk,
                                      VersionOf(draft.rows, e), target[e])
           recs == [e \in Entities |->
                       IF e \in changing THEN added(e) ELSE draft.recs[e]]
           rows == [e \in Entities |->
                       IF e \in changing
                       THEN [version |-> target[e], rec |-> LogRecordAfter(recs[e], log)]
                       ELSE IF e \in DOMAIN target /\ draft.rows[e] = NoRow
                       THEN [version |-> 0, rec |-> 0]
                       ELSE draft.rows[e]]
           b == [rows |-> rows, recs |-> recs]
<1>1. SetVersions(target, log, pk) = b
    BY DEF SetVersions
<1>2. \A e \in DOMAIN target : \A r \in added(e) : RecordOK(r) /\ r.pk <= n
    <2> SUFFICES ASSUME NEW e \in DOMAIN target, NEW r \in added(e)
                 PROVE  RecordOK(r) /\ r.pk <= n
        OBVIOUS
    <2>1. \A q \in draft.recs[e] : RecordOK(q) /\ q.pk <= n
        BY DEF BranchOK, PkBound, IsTarget
    <2>2. VersionOf(draft.rows, e) \in Nat /\ target[e] \in Nat
        BY VersionType DEF IsTarget
    <2> QED
        BY <2>1, <2>2, AddToChangeLogType
<1>3. \A e \in Entities : \A r \in recs[e] : RecordOK(r) /\ r.pk <= n
    <2> HIDE DEF added
    <2> QED
        BY <1>2 DEF BranchOK, PkBound
<1>4. \A e \in Entities : LogRecordAfter(recs[e], log) \in Nat
    <2> HIDE DEF recs
    <2> QED
        BY <1>3, LogRecordAfterType
<1>5. rows \in [Entities -> Row \cup {NoRow}]
    <2> HIDE DEF recs
    <2> QED
        BY <1>4 DEF BranchOK, Row, IsTarget
<1> HIDE DEF rows
<1>6. BranchOK(b) /\ PkBound(b, n)
    BY <1>3, <1>5 DEF BranchOK, PkBound
<1> QED
    BY <1>1, <1>6

\* A publish adds records numbered by its log and moves rows.
LEMMA PublishedAfterKeepsBranch ==
    ASSUME BranchOK(draft), BranchOK(published), NEW direct, NEW all, NEW log \in Nat
    PROVE  BranchOK(PublishedAfter(direct, all, log))
<1>1. \A e \in Entities : VersionOf(draft.rows, e) \in Nat
                          /\ VersionOf(published.rows, e) \in Nat
    BY VersionType
<1> DEFINE new(e) == Record(log, log, VersionOf(published.rows, e),
                            VersionOf(draft.rows, e), e \in direct, {})
<1>2. \A e \in Entities : RecordOK(new(e))
    BY <1>1 DEF RecordOK, Record
<1>3. \A e \in Entities : [version |-> VersionOf(draft.rows, e), rec |-> log] \in Row
    BY <1>1 DEF Row
<1>4. PublishedAfter(direct, all, log) =
        [rows |-> [e \in Entities |->
                    IF e \in all
                    THEN [version |-> VersionOf(draft.rows, e), rec |-> log]
                    ELSE published.rows[e]],
         recs |-> [e \in Entities |->
                    IF e \in all THEN published.recs[e] \cup {new(e)}
                    ELSE published.recs[e]]]
    BY DEF PublishedAfter
<1> HIDE DEF new
<1> QED
    BY <1>2, <1>3, <1>4 DEF BranchOK

-----------------------------------------------------------------------------
(* Events and the commit.                                                  *)

\* The event of a log is an event.
LEMMA ChangeLogEventType ==
    ASSUME NEW branch \in {"draft", "published"}, NEW b, BranchOK(b), NEW log \in Nat
    PROVE  ChangeLogEvent(branch, b, log) \in Event
<1> DEFINE restored(e, r) == /\ branch = "draft" /\ r.old = 0 /\ r.new # 0
                             /\ \E q \in b.recs[e] : q.log # log
           change(e, r) == [entity |-> e, old |-> r.old, new |-> r.new,
                            direct |-> r.direct, restored |-> restored(e, r)]
           mine(e) == {x \in b.recs[e] : x.log = log}
           changes == UNION {{change(e, r) : r \in mine(e)} : e \in Entities}
<1>1. \A e \in Entities : \A r \in mine(e) : change(e, r) \in Change
    <2> SUFFICES ASSUME NEW e \in Entities, NEW r \in mine(e)
                 PROVE  change(e, r) \in Change
        OBVIOUS
    <2>1. RecordOK(r)
        BY DEF BranchOK
    <2>2. restored(e, r) \in BOOLEAN
        OBVIOUS
    <2> HIDE DEF restored
    <2> QED
        BY <2>1, <2>2 DEF RecordOK, Change
<1>2. changes \subseteq Change
    <2> HIDE DEF change, mine
    <2> QED
        BY <1>1
<1>3. ChangeLogEvent(branch, b, log) = [branch |-> branch, log |-> log, changes |-> changes]
    BY DEF ChangeLogEvent
<1> HIDE DEF changes
<1> QED
    BY <1>2, <1>3 DEF Event

\* The inductive invariant: types, and no draft record is younger than serial.
TypeInv ==
    /\ TypeOK
    /\ PkBound(draft, serial)
    /\ PkBound(committed.draft, serial)

\* An operation that leaves the tables well typed commits well typed tables and
\* sends or keeps events.
LEMMA OnCommitType ==
    ASSUME TypeInv, DbOK(Db)', serial' \in Nat, serial <= serial',
           PkBound(draft, serial)', NEW new \in Seq(Event), OnCommit(new)
    PROVE  /\ DbOK(committed)' /\ PkBound(committed.draft, serial)'
           /\ outbox' \in Seq(Event) /\ events' \in Seq(Event)
<1> USE DEF TypeInv, TypeOK
<1>1. CASE contexts' = <<>>
    <2>1. committed' = Db' /\ events' = events \o outbox \o new /\ outbox' = <<>>
        BY <1>1 DEF OnCommit
    <2>2. DbOK(committed)'
        BY <2>1
    <2>3. PkBound(committed.draft, serial)'
        BY <2>1 DEF Db
    <2> QED
        BY <2>1, <2>2, <2>3
<1>2. CASE contexts' # <<>>
    <2>1. outbox' = outbox \o new /\ UNCHANGED <<committed, events>>
        BY <1>2 DEF OnCommit
    <2>2. PkBound(committed.draft, serial)'
        <3>1. DbOK(committed)
            OBVIOUS
        <3>2. \A e \in Entities : \A r \in committed.draft.recs[e] : r.pk \in Nat
            BY <3>1 DEF DbOK, BranchOK, RecordOK
        <3> QED
            BY <2>1, <3>2 DEF PkBound
    <2> QED
        BY <2>1, <2>2
<1> QED
    BY <1>1, <1>2

\* The active log of a package is the id of one of its open contexts, or 0.
LEMMA ActiveLogIsOpen ==
    ASSUME TypeInv, NEW p
    PROVE  \/ ActiveLog(p) = 0
           \/ \E i \in 1..Len(contexts) : /\ contexts[i].package = p
                                          /\ contexts[i].id = ActiveLog(p)
<1> DEFINE mine == {i \in 1..Len(contexts) : contexts[i].package = p}
<1>1. CASE mine = {}
    BY <1>1 DEF ActiveLog
<1>2. CASE mine # {}
    <2>1. Len(contexts) \in Nat /\ mine \subseteq Nat /\ \A i \in mine : i <= Len(contexts)
        BY DEF TypeInv, TypeOK
    <2>2. \E i \in mine : \A j \in mine : j <= i
        BY <1>2, <2>1, MaxExists
    <2> DEFINE top == CHOOSE i \in mine : \A j \in mine : j <= i
    <2>3. top \in mine
        BY <2>2
    <2>4. ActiveLog(p) = contexts[top].id
        BY <1>2 DEF ActiveLog
    <2> HIDE DEF top
    <2> QED
        BY <2>3, <2>4
<1> QED
    BY <1>1, <1>2

LEMMA ActiveLogType ==
    ASSUME TypeInv, NEW p
    PROVE  ActiveLog(p) \in Nat
<1>1. \A i \in 1..Len(contexts) : contexts[i] \in Log
    BY DEF TypeInv, TypeOK
<1> QED
    BY <1>1, ActiveLogIsOpen DEF Log

-----------------------------------------------------------------------------
(* Every operation keeps the invariant.                                    *)

\* The invariant, table by table.
LEMMA TypeInvTables ==
    ASSUME TypeInv
    PROVE  /\ versions \in [Entities -> Seq(SUBSET Entities)]
           /\ BranchOK(draft) /\ BranchOK(published)
           /\ PkBound(draft, serial) /\ serial \in Nat
           /\ draftLogs \subseteq Log /\ publishLogs \in Seq(Packages)
           /\ contexts \in Seq(Log)
           /\ outbox \in Seq(Event) /\ events \in Seq(Event)
    BY DEF TypeInv, TypeOK, DbOK, Db

\* Records stay within a bound that grows.
LEMMA PkBoundGrows ==
    ASSUME NEW b, BranchOK(b), NEW m \in Nat, NEW n \in Nat, m <= n, PkBound(b, m)
    PROVE  PkBound(b, n)
    BY DEF PkBound, BranchOK, RecordOK

LEMMA ChangeInContextType ==
    ASSUME TypeInv, (versions \in [Entities -> Seq(SUBSET Entities)])',
           NEW p \in Packages, NEW target, IsTarget(target),
           ChangeInContext(p, target)
    PROVE  TypeInv'
<1> DEFINE log == ActiveLog(p)
<1>1. log \in Nat
    BY ActiveLogType
<1>2. draft' = SetVersions(target, log, serial)
    BY DEF ChangeInContext
<1>3. BranchOK(draft)' /\ PkBound(draft, serial)'
    <2> HIDE DEF log
    <2>1. BranchOK(SetVersions(target, log, serial))
          /\ PkBound(SetVersions(target, log, serial), serial)
        BY <1>1, TypeInvTables, SetVersionsKeepBranch
    <2>2. serial' = serial
        BY DEF ChangeInContext
    <2> QED
        BY <1>2, <2>1, <2>2 DEF BranchOK, PkBound
<1>4. /\ BranchOK(published)' /\ (draftLogs \subseteq Log)' /\ (publishLogs \in Seq(Packages))'
      /\ (contexts \in Seq(Log))' /\ serial' \in Nat /\ serial <= serial'
    BY TypeInvTables DEF ChangeInContext
<1>5. DbOK(Db)'
    BY <1>3, <1>4 DEF DbOK, Db
<1>6. OnCommit(<<>>) /\ <<>> \in Seq(Event)
    BY DEF ChangeInContext
<1> QED
    BY <1>3, <1>4, <1>5, <1>6, TypeInvTables, OnCommitType DEF TypeInv, TypeOK

LEMMA ChangeInOwnLogType ==
    ASSUME TypeInv, (versions \in [Entities -> Seq(SUBSET Entities)])',
           NEW vs, NEW p \in Packages, NEW target, IsTarget(target),
           ChangeInOwnLog(vs, p, target)
    PROVE  TypeInv'
<1> DEFINE log == serial + 1
           b == SetVersions(target, log, log)
<1>1. serial' = log /\ log \in Nat /\ serial <= log
    BY TypeInvTables DEF ChangeInOwnLog
<1>2. draft' = CreateSideEffects(vs, b, log, log)
    BY DEF ChangeInOwnLog
<1>3. BranchOK(draft)' /\ PkBound(draft, serial)'
    <2> HIDE DEF log
    <2>1. PkBound(draft, log)
        BY <1>1, TypeInvTables, PkBoundGrows
    <2>2. BranchOK(b) /\ PkBound(b, log)
        BY <1>1, <2>1, TypeInvTables, SetVersionsKeepBranch
    <2> HIDE DEF b
    <2>3. BranchOK(CreateSideEffects(vs, b, log, log))
          /\ PkBound(CreateSideEffects(vs, b, log, log), log)
        BY <1>1, <2>2, SideEffectsKeepType, SideEffectsKeepBound
    <2> QED
        BY <1>1, <1>2, <2>3 DEF BranchOK, PkBound
<1>4. /\ BranchOK(published)' /\ (draftLogs \subseteq Log)' /\ (publishLogs \in Seq(Packages))'
      /\ (contexts \in Seq(Log))'
    BY <1>1, TypeInvTables DEF ChangeInOwnLog, Log
<1>5. DbOK(Db)'
    BY <1>3, <1>4 DEF DbOK, Db
<1>6. /\ OnCommit(<<ChangeLogEvent("draft", draft', log)>>)
      /\ <<ChangeLogEvent("draft", draft', log)>> \in Seq(Event)
    <2>1. ChangeLogEvent("draft", draft', log) \in Event
        BY <1>1, <1>3, ChangeLogEventType
    <2> QED
        BY <2>1 DEF ChangeInOwnLog
<1> QED
    BY <1>1, <1>3, <1>4, <1>5, <1>6, OnCommitType DEF TypeInv, TypeOK

LEMMA ChangeDraftsType ==
    ASSUME TypeInv, (versions \in [Entities -> Seq(SUBSET Entities)])',
           NEW vs, NEW p \in Packages, NEW target, IsTarget(target),
           ChangeDrafts(vs, p, target)
    PROVE  TypeInv'
    BY ChangeInContextType, ChangeInOwnLogType DEF ChangeDrafts

LEMMA CreateVersionType ==
    ASSUME TypeInv, NEW e \in Entities, NEW deps \in DependencySets[e],
           CreateVersion(e, deps)
    PROVE  TypeInv'
<1> DEFINE target == [x \in {e} |-> Len(versions[e]) + 1]
<1>1. deps \subseteq Entities /\ PackageOf[e] \in Packages
    BY ConstantsAssumption
<1>2. versions[e] \in Seq(SUBSET Entities) /\ Len(versions[e]) \in Nat
    BY TypeInvTables
<1>3. Append(versions[e], deps) \in Seq(SUBSET Entities)
    BY <1>1, <1>2
<1>4. (versions \in [Entities -> Seq(SUBSET Entities)])'
    BY <1>3, TypeInvTables DEF CreateVersion
<1>5. IsTarget(target)
    BY <1>2 DEF IsTarget
<1>6. ChangeDrafts(versions', PackageOf[e], target)
    BY DEF CreateVersion
<1> HIDE DEF target
<1> QED
    BY <1>1, <1>4, <1>5, <1>6, ChangeDraftsType

LEMMA SetDraftVersionType ==
    ASSUME TypeInv, NEW e \in Entities, NEW n \in Nat, SetDraftVersion(e, n)
    PROVE  TypeInv'
<1> DEFINE target == [x \in {e} |-> n]
<1>1. (versions \in [Entities -> Seq(SUBSET Entities)])' /\ PackageOf[e] \in Packages
    BY TypeInvTables, ConstantsAssumption DEF SetDraftVersion
<1>2. IsTarget(target)
    BY DEF IsTarget
<1>3. ChangeDrafts(versions, PackageOf[e], target)
    BY DEF SetDraftVersion
<1> HIDE DEF target
<1> QED
    BY <1>1, <1>2, <1>3, ChangeDraftsType

LEMMA SoftDeleteDraftType ==
    ASSUME TypeInv, NEW e \in Entities, SoftDeleteDraft(e)
    PROVE  TypeInv'
<1> DEFINE target == [x \in {e} |-> 0]
<1>1. (versions \in [Entities -> Seq(SUBSET Entities)])' /\ PackageOf[e] \in Packages
    BY TypeInvTables, ConstantsAssumption DEF SoftDeleteDraft
<1>2. IsTarget(target)
    BY DEF IsTarget
<1>3. ChangeDrafts(versions, PackageOf[e], target)
    BY DEF SoftDeleteDraft
<1> HIDE DEF target
<1> QED
    BY <1>1, <1>2, <1>3, ChangeDraftsType

LEMMA ResetDraftsToPublishedType ==
    ASSUME TypeInv, NEW p \in Packages, ResetDraftsToPublished(p)
    PROVE  TypeInv'
<1> DEFINE differing == {e \in Entities : PackageOf[e] = p /\ Unpublished(e)}
           target == [e \in differing |-> VersionOf(published.rows, e)]
<1>1. (versions \in [Entities -> Seq(SUBSET Entities)])'
    BY TypeInvTables DEF ResetDraftsToPublished
<1>2. IsTarget(target)
    BY TypeInvTables, VersionType DEF IsTarget
<1>3. ChangeDrafts(versions, p, target)
    BY DEF ResetDraftsToPublished
<1> HIDE DEF target
<1> QED
    BY <1>1, <1>2, <1>3, ChangeDraftsType

LEMMA BulkEnterType ==
    ASSUME TypeInv, NEW p \in Packages, BulkEnter(p)
    PROVE  TypeInv'
<1> DEFINE log == [id |-> serial + 1, package |-> p]
<1>1. log \in Log
    BY TypeInvTables DEF Log
<1>2. /\ serial' \in Nat /\ serial <= serial'
      /\ contexts' \in Seq(Log) /\ draftLogs' \subseteq Log
    BY <1>1, TypeInvTables DEF BulkEnter
<1>3. UNCHANGED <<versions, draft, published, publishLogs, committed, outbox, events>>
    BY DEF BulkEnter
<1>4. DbOK(Db)'
    BY <1>2, <1>3, TypeInvTables DEF DbOK, Db, BranchOK
<1>5. PkBound(draft, serial)' /\ PkBound(committed.draft, serial)'
    <2>1. BranchOK(draft) /\ BranchOK(committed.draft)
        BY TypeInvTables DEF TypeInv, TypeOK, DbOK
    <2>2. PkBound(draft, serial') /\ PkBound(committed.draft, serial')
        BY <1>2, <2>1, TypeInvTables, PkBoundGrows DEF TypeInv
    <2> QED
        BY <1>3, <2>2 DEF PkBound
<1>6. DbOK(committed)'
    BY <1>3 DEF TypeInv, TypeOK
<1> QED
    BY <1>2, <1>3, <1>4, <1>5, <1>6, TypeInvTables DEF TypeInv, TypeOK

LEMMA BulkExitType ==
    ASSUME TypeInv, BulkExit
    PROVE  TypeInv'
<1> DEFINE log == contexts[Len(contexts)]
<1>1. contexts # <<>> /\ Len(contexts) \in 1..Len(contexts)
    BY TypeInvTables DEF BulkExit
<1>2. log \in Log /\ log.id \in Nat
    <2>1. log \in Log
        BY <1>1, TypeInvTables
    <2> QED
        BY <2>1 DEF Log
<1>3. serial' = serial + 1 /\ serial' \in Nat /\ serial <= serial'
    BY TypeInvTables DEF BulkExit
<1>4. draft' = CreateSideEffects(versions, draft, log.id, serial')
    BY DEF BulkExit
<1>5. BranchOK(draft)' /\ PkBound(draft, serial)'
    <2> HIDE DEF log
    <2>1. PkBound(draft, serial')
        BY <1>3, TypeInvTables, PkBoundGrows
    <2>2. BranchOK(CreateSideEffects(versions, draft, log.id, serial'))
          /\ PkBound(CreateSideEffects(versions, draft, log.id, serial'), serial')
        BY <1>2, <1>3, <2>1, TypeInvTables, SideEffectsKeepType, SideEffectsKeepBound
    <2> QED
        BY <1>4, <2>2 DEF BranchOK, PkBound
<1>6. /\ BranchOK(published)' /\ (draftLogs \subseteq Log)' /\ (publishLogs \in Seq(Packages))'
      /\ (versions \in [Entities -> Seq(SUBSET Entities)])' /\ (contexts \in Seq(Log))'
    <2>1. contexts' = SubSeq(contexts, 1, Len(contexts) - 1) /\ draftLogs' \subseteq draftLogs
        BY DEF BulkExit
    <2>2. UNCHANGED <<versions, published, publishLogs>>
        BY DEF BulkExit
    <2> QED
        BY <1>1, <2>1, <2>2, TypeInvTables DEF BranchOK
<1>7. DbOK(Db)'
    BY <1>5, <1>6 DEF DbOK, Db
<1>8. /\ OnCommit(<<ChangeLogEvent("draft", draft', log.id)>>)
      /\ <<ChangeLogEvent("draft", draft', log.id)>> \in Seq(Event)
    <2>1. ChangeLogEvent("draft", draft', log.id) \in Event
        BY <1>2, <1>5, ChangeLogEventType
    <2> QED
        BY <2>1 DEF BulkExit
<1> QED
    BY <1>3, <1>5, <1>6, <1>7, <1>8, OnCommitType DEF TypeInv, TypeOK

LEMMA BulkAbortType ==
    ASSUME TypeInv, BulkAbort
    PROVE  TypeInv'
<1>1. DbOK(committed) /\ PkBound(committed.draft, serial)
    BY DEF TypeInv, TypeOK
<1>2. DbOK(Db)'
    BY <1>1 DEF BulkAbort, DbOK, Db
<1>3. PkBound(draft, serial)' /\ PkBound(committed.draft, serial)' /\ DbOK(committed)'
    BY <1>1 DEF BulkAbort, PkBound
<1> QED
    BY <1>2, <1>3, TypeInvTables DEF TypeInv, TypeOK, BulkAbort

LEMMA PublishFromDraftsType ==
    ASSUME TypeInv, NEW p \in Packages, NEW S \in SUBSET Entities, NEW kind,
           NEW dependencies \in BOOLEAN, PublishFromDrafts(p, S, kind, dependencies)
    PROVE  TypeInv'
<1> DEFINE log == Len(publishLogs) + 1
           all == S \cup IF dependencies THEN DependenciesToPublish(S, kind) ELSE {}
           b == PublishedAfter(S, all, log)
<1>1. log \in Nat
    BY TypeInvTables
<1>2. published' = CreateSideEffects(versions, b, log, log)
    BY DEF PublishFromDrafts
<1>3. BranchOK(published)'
    <2> HIDE DEF log, all
    <2>1. BranchOK(b)
        BY <1>1, TypeInvTables, PublishedAfterKeepsBranch
    <2> HIDE DEF b
    <2>2. BranchOK(CreateSideEffects(versions, b, log, log))
        BY <1>1, <2>1, SideEffectsKeepType
    <2> QED
        BY <1>2, <2>2
<1>4. /\ BranchOK(draft)' /\ (draftLogs \subseteq Log)' /\ (publishLogs \in Seq(Packages))'
      /\ (versions \in [Entities -> Seq(SUBSET Entities)])' /\ (contexts \in Seq(Log))'
      /\ serial' \in Nat /\ serial <= serial' /\ PkBound(draft, serial)'
    BY TypeInvTables DEF PublishFromDrafts, BranchOK, PkBound
<1>5. DbOK(Db)'
    BY <1>3, <1>4 DEF DbOK, Db
<1>6. /\ OnCommit(<<ChangeLogEvent("published", published', log)>>)
      /\ <<ChangeLogEvent("published", published', log)>> \in Seq(Event)
    <2>1. ChangeLogEvent("published", published', log) \in Event
        BY <1>1, <1>3, ChangeLogEventType
    <2> QED
        BY <2>1 DEF PublishFromDrafts
<1> QED
    BY <1>3, <1>4, <1>5, <1>6, OnCommitType DEF TypeInv, TypeOK

-----------------------------------------------------------------------------
(* The theorem on types.                                                    *)

LEMMA InitType == Init => TypeInv
<1> SUFFICES ASSUME Init PROVE TypeInv
    OBVIOUS
<1>1. BranchOK(draft) /\ BranchOK(published) /\ PkBound(draft, serial)
    BY DEF Init, BranchOK, PkBound
<1>2. /\ versions \in [Entities -> Seq(SUBSET Entities)]
      /\ draftLogs \subseteq Log /\ publishLogs \in Seq(Packages)
      /\ contexts \in Seq(Log) /\ outbox \in Seq(Event) /\ events \in Seq(Event)
      /\ serial \in Nat
    BY DEF Init
<1>3. DbOK(Db)
    BY <1>1, <1>2 DEF DbOK, Db
<1>4. committed = Db /\ committed.draft = draft
    BY DEF Init, Db
<1> QED
    BY <1>1, <1>2, <1>3, <1>4 DEF TypeInv, TypeOK, PkBound

LEMMA NextType == TypeInv /\ [Next]_vars => TypeInv'
<1> SUFFICES ASSUME TypeInv, [Next]_vars PROVE TypeInv'
    OBVIOUS
<1>1. ASSUME NEW e \in Entities, NEW deps \in DependencySets[e], CreateVersion(e, deps)
      PROVE  TypeInv'
    BY <1>1, CreateVersionType
<1>2. ASSUME NEW e \in Entities, NEW n \in 1..MaxVersion[e], SetDraftVersion(e, n)
      PROVE  TypeInv'
    BY <1>2, SetDraftVersionType
<1>3. ASSUME NEW e \in Entities, SoftDeleteDraft(e)
      PROVE  TypeInv'
    BY <1>3, SoftDeleteDraftType
<1>4. ASSUME NEW p \in Packages, ResetDraftsToPublished(p)
      PROVE  TypeInv'
    BY <1>4, ResetDraftsToPublishedType
<1>5. ASSUME NEW p \in Packages, BulkEnter(p)
      PROVE  TypeInv'
    BY <1>5, BulkEnterType
<1>6. CASE BulkExit
    BY <1>6, BulkExitType
<1>7. CASE BulkAbort
    BY <1>7, BulkAbortType
<1>8. ASSUME NEW p \in Packages, NEW S \in Selections, NEW kind \in QuerysetKinds,
             NEW deps \in BOOLEAN, PublishFromDrafts(p, S, kind, deps)
      PROVE  TypeInv'
    BY <1>8, PublishFromDraftsType DEF Selections
<1>9. ASSUME NEW p \in Packages, PublishAllDrafts(p)
      PROVE  TypeInv'
    BY <1>9, PublishFromDraftsType DEF PublishAllDrafts
<1>10. CASE UNCHANGED vars
    BY <1>10 DEF vars, TypeInv, TypeOK, DbOK, Db, PkBound, BranchOK
<1> QED
    BY <1>1, <1>2, <1>3, <1>4, <1>5, <1>6, <1>7, <1>8, <1>9, <1>10 DEF Next

LEMMA TypeInvariance == Spec => []TypeInv
    BY InitType, NextType, PTL DEF Spec

\* Whatever the entities, packages, dependencies and bounds, every table holds
\* rows of its kind in the open transaction and in the committed database:
\* set_draft_version, publish_from_drafts, the side effects, the contexts and
\* their rollback never store anything else.
THEOREM TypeCorrect == Spec => []TypeOK
    BY TypeInvariance, PTL DEF TypeInv

-----------------------------------------------------------------------------
(* The inductive invariant of the logs.                                    *)

\* Versions depend on entities of their own package, lower in the hierarchy.
OwnDependencies(vs) ==
    \A e \in Entities : \A n \in 1..Len(vs[e]) : \A d \in vs[e][n] :
        PackageOf[d] = PackageOf[e] /\ Level[d] < Level[e]

\* Rows point at versions there are.
RowsHaveVersions(vs, b) == \A e \in Entities : VersionOf(b.rows, e) <= Len(vs[e])

\* The id of a draft log is its primary key.
LogsIdentified(logs, n) ==
    /\ \A l \in logs : l.id <= n
    /\ \A l, m \in logs : l.id = m.id => l = m

DraftRecordsLogged(b, logs) ==
    \A e \in Entities : \A r \in b.recs[e] :
        [id |-> r.log, package |-> PackageOf[e]] \in logs

PublishRecordsLogged(b, logs) ==
    \A e \in Entities : \A r \in b.recs[e] :
        r.log \in 1..Len(logs) /\ logs[r.log] = PackageOf[e]

DbInv(db, n) ==
    /\ OwnDependencies(db.versions)
    /\ RowsHaveVersions(db.versions, db.draft)
    /\ RowsHaveVersions(db.versions, db.published)
    /\ LogsIdentified(db.draftLogs, n)
    /\ DraftRecordsLogged(db.draft, db.draftLogs)
    /\ PublishRecordsLogged(db.published, db.publishLogs)

\* The open contexts have logs of their own.
ContextsInv ==
    \A i \in 1..Len(contexts) :
        /\ contexts[i] \in draftLogs
        /\ \A j \in 1..Len(contexts) : i # j => contexts[i].id # contexts[j].id

\* No record of branch a is missing or different in branch b.
Keeps(b, a) == \A e \in Entities : a.recs[e] \subseteq b.recs[e]

\* The open transaction leaves what is committed alone: its logs are closed.
CommittedInv ==
    /\ Keeps(draft, committed.draft)
    /\ Keeps(published, committed.published)
    /\ \A l \in committed.draftLogs :
        Closed(l.id) /\ \E e \in Entities : InLog(committed.draft.recs[e], l.id)

LogInv ==
    /\ DbInv(Db, serial)
    /\ DbInv(committed, serial)
    /\ ContextsInv
    /\ CommittedInv
    /\ NoEmptyDraftLog

-----------------------------------------------------------------------------
(* Packages are closed under the dependency relation.                      *)

\* What is affected by entities of a package is in the package.
LEMMA AncestorsOwnPackage ==
    ASSUME NEW deps, DOMAIN deps = Entities,
           \A e \in Entities : \A d \in deps[e] : PackageOf[d] = PackageOf[e],
           NEW S, NEW p, \A e \in S : PackageOf[e] = p
    PROVE  \A x \in Ancestors(deps, S) : x \in Entities /\ PackageOf[x] = p
<1> SUFFICES ASSUME NEW x \in Ancestors(deps, S)
             PROVE  x \in Entities /\ PackageOf[x] = p
    OBVIOUS
<1> DEFINE T == {e \in Entities : PackageOf[e] = p}
<1>1. AffectedBy(deps, S \cup T) \subseteq T
    BY DEF AffectedBy
<1>2. T \in SUBSET DOMAIN deps
    OBVIOUS
<1>3. x \in DOMAIN deps /\ (AffectedBy(deps, S \cup T) \subseteq T => x \in T)
    BY <1>2 DEF Ancestors
<1> QED
    BY <1>1, <1>3

\* The dependencies of entities of a package are in the package.
LEMMA DescendantsOwnPackage ==
    ASSUME NEW deps, DOMAIN deps = Entities,
           \A e \in Entities : \A d \in deps[e] : d \in Entities /\ PackageOf[d] = PackageOf[e],
           NEW S \in SUBSET Entities, NEW p, \A e \in S : PackageOf[e] = p
    PROVE  \A x \in Descendants(deps, S) : x \in Entities /\ PackageOf[x] = p
<1> SUFFICES ASSUME NEW x \in Descendants(deps, S)
             PROVE  x \in Entities /\ PackageOf[x] = p
    OBVIOUS
<1> DEFINE T == {e \in Entities : PackageOf[e] = p}
<1>1. (UNION {deps[e] : e \in S \cup T}) \subseteq T
    <2>1. ASSUME NEW e \in S \cup T, NEW d \in deps[e]
          PROVE  d \in T
        OBVIOUS
    <2> QED
        BY <2>1
<1>2. T \in SUBSET DOMAIN deps
    OBVIOUS
<1>3. x \in DOMAIN deps /\ ((UNION {deps[e] : e \in S \cup T}) \subseteq T => x \in T)
    BY <1>2 DEF Descendants
<1> QED
    BY <1>1, <1>3

\* Current dependencies of rows that have versions are declared dependencies.
LEMMA CurrentDependenciesOwn ==
    ASSUME NEW vs, vs \in [Entities -> Seq(SUBSET Entities)], OwnDependencies(vs),
           NEW b, BranchOK(b), RowsHaveVersions(vs, b)
    PROVE  /\ DOMAIN CurrentDependencies(vs, b.rows) = Entities
           /\ \A e \in Entities : \A d \in CurrentDependencies(vs, b.rows)[e] :
                d \in Entities /\ PackageOf[d] = PackageOf[e]
<1>1. DOMAIN CurrentDependencies(vs, b.rows) = Entities
    BY DEF CurrentDependencies
<1>2. ASSUME NEW e \in Entities, NEW d \in CurrentDependencies(vs, b.rows)[e]
      PROVE  d \in Entities /\ PackageOf[d] = PackageOf[e]
    <2> DEFINE n == VersionOf(b.rows, e)
    <2>1. n \in Nat /\ n <= Len(vs[e]) /\ Len(vs[e]) \in Nat
        BY VersionType DEF RowsHaveVersions
    <2>2. d \in DependenciesOf(vs, e, n)
        BY <1>2 DEF CurrentDependencies
    <2> HIDE DEF n
    <2>3. n # 0 /\ d \in vs[e][n]
        BY <2>2 DEF DependenciesOf
    <2>4. n \in 1..Len(vs[e]) /\ vs[e][n] \in SUBSET Entities
        BY <2>1, <2>3
    <2> QED
        BY <2>3, <2>4 DEF OwnDependencies
<1> QED
    BY <1>1, <1>2

\* So the side effects of a log stay in the package of its records.
LEMMA AffectedByLogOwnPackage ==
    ASSUME NEW vs, vs \in [Entities -> Seq(SUBSET Entities)], OwnDependencies(vs),
           NEW b, BranchOK(b), RowsHaveVersions(vs, b), NEW log, NEW p,
           \A e \in Entities : InLog(b.recs[e], log) => PackageOf[e] = p
    PROVE  \A e \in AffectedByLog(vs, b, log) : PackageOf[e] = p
<1> DEFINE deps == CurrentDependencies(vs, b.rows)
           S == {e \in Entities : InLog(b.recs[e], log)}
<1>1. /\ DOMAIN deps = Entities
      /\ \A e \in Entities : \A d \in deps[e] : PackageOf[d] = PackageOf[e]
    BY CurrentDependenciesOwn
<1>2. \A e \in S : PackageOf[e] = p
    OBVIOUS
<1>3. AffectedByLog(vs, b, log) = Ancestors(deps, S)
    BY DEF AffectedByLog
<1> HIDE DEF deps, S
<1>4. \A x \in Ancestors(deps, S) : x \in Entities /\ PackageOf[x] = p
    BY <1>1, <1>2, AncestorsOwnPackage
<1> QED
    BY <1>3, <1>4

-----------------------------------------------------------------------------
(* What a change of drafts does to the records.                            *)

\* Branch a differs from b in the records of one log only.
OnlyLog(a, b, log) ==
    \A e \in Entities : \A x : x.log # log => (x \in a.recs[e] <=> x \in b.recs[e])

LEMMA OnlyLogTransitive ==
    ASSUME NEW a, NEW b, NEW c, NEW log, OnlyLog(a, b, log), OnlyLog(b, c, log)
    PROVE  OnlyLog(a, c, log)
    BY DEF OnlyLog

\* A change alters the records of its log only, for the entities it is asked to
\* move, and moves their drafts.
LEMMA SetVersionsMembers ==
    ASSUME BranchOK(draft), NEW n \in Nat, PkBound(draft, n),
           NEW target, IsTarget(target), NEW log \in Nat, NEW pk \in Nat, pk <= n
    PROVE  LET b == SetVersions(target, log, pk)
           IN  /\ OnlyLog(b, draft, log)
               /\ \A e \in Entities : \A x \in b.recs[e] :
                    x \in draft.recs[e] \/ (e \in DOMAIN target /\ x.log = log)
               /\ \A e \in Entities :
                    VersionOf(b.rows, e) = IF e \in DOMAIN target THEN target[e]
                                           ELSE VersionOf(draft.rows, e)
<1> DEFINE changing == {e \in DOMAIN target : VersionOf(draft.rows, e) # target[e]}
           added(e) == AddToChangeLog(draft.recs[e], log, pk,
                                      VersionOf(draft.rows, e), target[e])
           recs == [e \in Entities |->
                       IF e \in changing THEN added(e) ELSE draft.recs[e]]
           rows == [e \in Entities |->
                       IF e \in changing
                       THEN [version |-> target[e], rec |-> LogRecordAfter(recs[e], log)]
                       ELSE IF e \in DOMAIN target /\ draft.rows[e] = NoRow
                       THEN [version |-> 0, rec |-> 0]
                       ELSE draft.rows[e]]
           b == SetVersions(target, log, pk)
<1>1. b.recs = recs /\ b.rows = rows
    BY DEF SetVersions
<1>2. ASSUME NEW e \in Entities
      PROVE  /\ \A x : x.log # log => (x \in added(e) <=> x \in draft.recs[e])
             /\ \A x \in added(e) : x \in draft.recs[e] \/ x.log = log
    BY DEF AddToChangeLog, Record
<1>3. OnlyLog(b, draft, log)
    <2> HIDE DEF b, added, rows
    <2> QED
        BY <1>1, <1>2 DEF OnlyLog
<1>4. \A e \in Entities : \A x \in b.recs[e] :
        x \in draft.recs[e] \/ (e \in DOMAIN target /\ x.log = log)
    <2> HIDE DEF b, added, rows
    <2> QED
        BY <1>1, <1>2
<1>5. ASSUME NEW e \in Entities
      PROVE  VersionOf(b.rows, e) = IF e \in DOMAIN target THEN target[e]
                                    ELSE VersionOf(draft.rows, e)
    <2> DEFINE rec == LogRecordAfter(recs[e], log)
    <2>1. rec \in Nat
        <3>1. BranchOK(b) /\ PkBound(b, n)
            BY SetVersionsKeepBranch
        <3>2. \A r \in recs[e] : RecordOK(r) /\ r.pk <= n
            BY <1>1, <3>1 DEF BranchOK, PkBound
        <3> HIDE DEF recs
        <3> QED
            BY <3>2, LogRecordAfterType
    <2> HIDE DEF rec
    <2>2. b.rows[e] = IF e \in changing THEN [version |-> target[e], rec |-> rec]
                      ELSE IF e \in DOMAIN target /\ draft.rows[e] = NoRow
                      THEN [version |-> 0, rec |-> 0] ELSE draft.rows[e]
        BY <1>1 DEF rec
    <2> HIDE DEF b, rows, recs
    <2>3. [version |-> 0, rec |-> 0] \in Row
          /\ (e \in changing => [version |-> target[e], rec |-> rec] \in Row)
        BY <2>1 DEF Row, IsTarget
    <2>4. CASE e \in changing
        BY <2>2, <2>3, <2>4, ConstantsAssumption DEF VersionOf
    <2>5. CASE e \notin changing
        BY <2>2, <2>3, <2>5, ConstantsAssumption DEF VersionOf
    <2> QED
        BY <2>4, <2>5
<1> HIDE DEF b
<1> QED
    BY <1>3, <1>4, <1>5 DEF b

\* Every entity with a record of the log is in package p.
LogOfPackage(b, log, p) ==
    \A e \in Entities : InLog(b.recs[e], log) => PackageOf[e] = p

\* Every entity with a record of a log still has one.
KeepsLogs(a, b) ==
    \A e \in Entities : \A l : InLog(b.recs[e], l) => InLog(a.recs[e], l)

\* Side effects touch the records of their log only, lose none, stay in the
\* package of the log and leave every row at its version.
LEMMA SideEffectsStep ==
    ASSUME NEW vs, vs \in [Entities -> Seq(SUBSET Entities)], OwnDependencies(vs),
           NEW b, BranchOK(b), RowsHaveVersions(vs, b),
           NEW log \in Nat, NEW pk \in Nat, NEW p, LogOfPackage(b, log, p)
    PROVE  LET a == CreateSideEffects(vs, b, log, pk)
           IN  /\ RowsHaveVersions(vs, a)
               /\ OnlyLog(a, b, log)
               /\ LogOfPackage(a, log, p)
               /\ KeepsLogs(a, b)
<1> DEFINE a == CreateSideEffects(vs, b, log, pk)
           affected == AffectedByLog(vs, b, log)
<1>1. WithSideEffects(a, b, log, pk, affected)
    BY SideEffectsMembers
<1>2. \A e \in affected : PackageOf[e] = p
    BY AffectedByLogOwnPackage DEF LogOfPackage
<1> HIDE DEF a, affected
<1>3. OnlyLog(a, b, log)
    BY <1>1 DEF WithSideEffects, OnlyLog
<1>4. KeepsLogs(a, b)
    <2>1. \A e \in Entities : \A r \in b.recs[e] : \E x \in a.recs[e] : x.log = r.log
        BY <1>1 DEF WithSideEffects, SameRecord
    <2> QED
        BY <2>1 DEF KeepsLogs, InLog
<1>5. LogOfPackage(a, log, p)
    <2> SUFFICES ASSUME NEW e \in Entities, NEW x \in a.recs[e], x.log = log
                 PROVE  PackageOf[e] = p
        BY DEF LogOfPackage, InLog
    <2>1. CASE \E r \in b.recs[e] : SameRecord(x, r)
        BY <2>1 DEF SameRecord, LogOfPackage, InLog
    <2>2. CASE e \in affected
        BY <1>2, <2>2
    <2> QED
        BY <1>1, <2>1, <2>2 DEF WithSideEffects
<1>6. \A e \in Entities : VersionOf(a.rows, e) = VersionOf(b.rows, e)
    <2> SUFFICES ASSUME NEW e \in Entities
                 PROVE  VersionOf(a.rows, e) = VersionOf(b.rows, e)
        OBVIOUS
    <2> DEFINE n == VersionOf(b.rows, e)
    <2>1. a.rows[e] = IF e \in affected THEN [version |-> n, rec |-> log] ELSE b.rows[e]
        BY <1>1 DEF WithSideEffects
    <2>2. [version |-> n, rec |-> log] \in Row
        <3>1. n \in Nat
            BY VersionType
        <3> HIDE DEF n
        <3> QED
            BY <3>1 DEF Row
    <2>3. CASE e \in affected
        <3> HIDE DEF n
        <3>1. VersionOf(a.rows, e) = n
            BY <2>1, <2>2, <2>3, ConstantsAssumption DEF VersionOf
        <3> QED
            BY <3>1 DEF n
    <2>4. CASE e \notin affected
        BY <2>1, <2>4 DEF VersionOf
    <2> QED
        BY <2>3, <2>4
<1>7. RowsHaveVersions(vs, a)
    BY <1>6 DEF RowsHaveVersions
<1> QED
    BY <1>3, <1>4, <1>5, <1>7 DEF a

\* Records of one log, all of one package, join the logged records.
LEMMA DraftRecordsStayLogged ==
    ASSUME NEW a, NEW b, NEW logs, NEW more, logs \subseteq more, NEW log, NEW p,
           DraftRecordsLogged(b, logs), OnlyLog(a, b, log), LogOfPackage(a, log, p),
           [id |-> log, package |-> p] \in more
    PROVE  DraftRecordsLogged(a, more)
<1> SUFFICES ASSUME NEW e \in Entities, NEW r \in a.recs[e]
             PROVE  [id |-> r.log, package |-> PackageOf[e]] \in more
    BY DEF DraftRecordsLogged
<1>1. CASE r.log = log
    BY <1>1 DEF LogOfPackage, InLog
<1>2. CASE r.log # log
    BY <1>2 DEF OnlyLog, DraftRecordsLogged
<1> QED
    BY <1>1, <1>2

\* The id of a log identifies its package.
LEMMA LogHasOnePackage ==
    ASSUME NEW b, NEW logs, NEW n, LogsIdentified(logs, n), DraftRecordsLogged(b, logs),
           NEW log, NEW p, [id |-> log, package |-> p] \in logs
    PROVE  LogOfPackage(b, log, p)
<1> SUFFICES ASSUME NEW e \in Entities, NEW r \in b.recs[e], r.log = log
             PROVE  PackageOf[e] = p
    BY DEF LogOfPackage, InLog
<1>1. [id |-> log, package |-> PackageOf[e]] \in logs
    BY DEF DraftRecordsLogged
<1>2. [id |-> log, package |-> PackageOf[e]] = [id |-> log, package |-> p]
    BY <1>1 DEF LogsIdentified
<1> QED
    BY <1>2

-----------------------------------------------------------------------------
(* Every operation keeps the invariant of the logs.                        *)

\* The invariant of the open transaction, table by table.
LEMMA LogInvTables ==
    ASSUME LogInv
    PROVE  /\ OwnDependencies(versions)
           /\ RowsHaveVersions(versions, draft)
           /\ RowsHaveVersions(versions, published)
           /\ LogsIdentified(draftLogs, serial)
           /\ DraftRecordsLogged(draft, draftLogs)
           /\ PublishRecordsLogged(published, publishLogs)
           /\ ContextsInv /\ CommittedInv /\ NoEmptyDraftLog
    BY DEF LogInv, DbInv, Db

LEMMA LogsIdentifiedGrows ==
    ASSUME NEW logs \in SUBSET Log, NEW m \in Nat, NEW n \in Nat, m <= n,
           LogsIdentified(logs, m)
    PROVE  LogsIdentified(logs, n)
    BY DEF LogsIdentified, Log

\* A step leaves every committed record as it is.
KeepsCommitted ==
    /\ Keeps(committed'.draft, committed.draft)
    /\ Keeps(committed'.published, committed.published)

\* The end of an operation commits tables that satisfy the invariant, or none.
LEMMA OnCommitLogInv ==
    ASSUME TypeInv, LogInv, serial' \in Nat, serial <= serial',
           DbInv(Db, serial)', ContextsInv', NoEmptyDraftLog',
           Keeps(draft', committed.draft), Keeps(published', committed.published),
           \A l \in committed.draftLogs : Closed(l.id)',
           NEW new, OnCommit(new)
    PROVE  LogInv' /\ KeepsCommitted
<1>1. CASE contexts' = <<>>
    <2>1. committed' = Db'
        BY <1>1 DEF OnCommit
    <2>2. DbInv(committed, serial)'
        BY <2>1
    <2>3. Keeps(draft, committed.draft)' /\ Keeps(published, committed.published)'
        BY <2>1 DEF Keeps, Db
    <2>4. \A id : Closed(id)'
        BY <1>1 DEF Closed
    <2>5. CommittedInv'
        BY <2>1, <2>3, <2>4 DEF CommittedInv, NoEmptyDraftLog, Db
    <2>6. KeepsCommitted
        BY <2>1 DEF KeepsCommitted, Db
    <2> QED
        BY <2>2, <2>5, <2>6 DEF LogInv
<1>2. CASE contexts' # <<>>
    <2>1. committed' = committed
        BY <1>2 DEF OnCommit
    <2>2. DbInv(committed, serial')
        <3>1. committed.draftLogs \in SUBSET Log /\ serial \in Nat
            BY DEF TypeInv, TypeOK, DbOK
        <3> QED
            BY <3>1, LogsIdentifiedGrows DEF LogInv, DbInv
    <2>3. DbInv(committed, serial)'
        BY <2>1, <2>2
    <2>4. CommittedInv'
        BY <2>1 DEF CommittedInv, LogInv, Keeps
    <2>5. KeepsCommitted
        BY <2>1 DEF KeepsCommitted, Keeps
    <2> QED
        BY <2>3, <2>4, <2>5 DEF LogInv
<1> QED
    BY <1>1, <1>2

\* Changes in a log that is not committed leave the committed records alone.
LEMMA CommittedKept ==
    ASSUME LogInv, NEW a, NEW log, OnlyLog(a, draft, log),
           \A l \in committed.draftLogs : l.id # log
    PROVE  Keeps(a, committed.draft)
<1> SUFFICES ASSUME NEW e \in Entities, NEW r \in committed.draft.recs[e]
             PROVE  r \in a.recs[e]
    BY DEF Keeps
<1>1. r \in draft.recs[e]
    BY DEF LogInv, CommittedInv, Keeps
<1>2. [id |-> r.log, package |-> PackageOf[e]] \in committed.draftLogs
    BY DEF LogInv, DbInv, DraftRecordsLogged
<1>3. r.log # log
    BY <1>2
<1> QED
    BY <1>1, <1>3 DEF OnlyLog

\* ... and every other log as full as it was.
LEMMA OtherLogsKept ==
    ASSUME NEW a, NEW b, NEW log, OnlyLog(a, b, log), NEW id, id # log,
           \E e \in Entities : InLog(b.recs[e], id)
    PROVE  \E e \in Entities : InLog(a.recs[e], id)
    BY DEF OnlyLog, InLog

\* A change to the versions that drafts already have leaves the records alone.
LEMMA SetVersionsUnchanged ==
    ASSUME NEW target, NEW log, NEW pk,
           \A e \in DOMAIN target : VersionOf(draft.rows, e) = target[e]
    PROVE  \A e \in Entities : SetVersions(target, log, pk).recs[e] = draft.recs[e]
<1> DEFINE changing == {e \in DOMAIN target : VersionOf(draft.rows, e) # target[e]}
           recs == [e \in Entities |->
                       IF e \in changing
                       THEN AddToChangeLog(draft.recs[e], log, pk,
                                           VersionOf(draft.rows, e), target[e])
                       ELSE draft.recs[e]]
<1>1. SetVersions(target, log, pk).recs = recs
    BY DEF SetVersions
<1>2. changing = {}
    OBVIOUS
<1> HIDE DEF changing
<1>3. recs = [e \in Entities |-> draft.recs[e]]
    BY <1>2
<1> HIDE DEF recs
<1> QED
    BY <1>1, <1>3

\* A request to move drafts of package p to versions they have.
IsTargetOf(target, p, vs) ==
    /\ IsTarget(target)
    /\ \A e \in DOMAIN target : PackageOf[e] = p /\ target[e] <= Len(vs[e])

\* Versions are only ever added.
MoreVersions(vs) ==
    /\ vs \in [Entities -> Seq(SUBSET Entities)]
    /\ OwnDependencies(vs)
    /\ \A e \in Entities :
        /\ Len(versions[e]) <= Len(vs[e])
        /\ \A n \in 1..Len(versions[e]) : vs[e][n] = versions[e][n]

LEMMA MoreVersionsForRows ==
    ASSUME TypeInv, NEW vs, MoreVersions(vs), NEW b, BranchOK(b), RowsHaveVersions(versions, b)
    PROVE  RowsHaveVersions(vs, b)
<1>1. \A e \in Entities : /\ VersionOf(b.rows, e) \in Nat
                          /\ Len(versions[e]) \in Nat /\ Len(vs[e]) \in Nat
    BY VersionType, TypeInvTables DEF MoreVersions
<1> QED
    BY <1>1 DEF RowsHaveVersions, MoreVersions

\* Moved drafts have their versions, and the records are where they should be.
LEMMA SetVersionsStep ==
    ASSUME TypeInv, LogInv, NEW vs, MoreVersions(vs), NEW p, NEW target,
           IsTargetOf(target, p, vs), NEW log \in Nat, NEW pk \in Nat,
           NEW n \in Nat, serial <= n, pk <= n, LogOfPackage(draft, log, p)
    PROVE  LET b == SetVersions(target, log, pk)
           IN  /\ BranchOK(b) /\ RowsHaveVersions(vs, b)
               /\ OnlyLog(b, draft, log) /\ LogOfPackage(b, log, p)
<1> DEFINE b == SetVersions(target, log, pk)
<1>1. PkBound(draft, n) /\ BranchOK(draft) /\ IsTarget(target)
    BY TypeInvTables, PkBoundGrows DEF IsTargetOf
<1>2. BranchOK(b)
    BY <1>1, SetVersionsKeepBranch
<1>3. /\ OnlyLog(b, draft, log)
      /\ \A e \in Entities : \A x \in b.recs[e] :
            x \in draft.recs[e] \/ (e \in DOMAIN target /\ x.log = log)
      /\ \A e \in Entities :
            VersionOf(b.rows, e) = IF e \in DOMAIN target THEN target[e]
                                   ELSE VersionOf(draft.rows, e)
    BY <1>1, SetVersionsMembers
<1> HIDE DEF b
<1>4. RowsHaveVersions(vs, draft)
    BY <1>1, LogInvTables, MoreVersionsForRows
<1>5. RowsHaveVersions(vs, b)
    BY <1>3, <1>4 DEF RowsHaveVersions, IsTargetOf
<1>6. LogOfPackage(b, log, p)
    BY <1>3 DEF LogOfPackage, InLog, IsTargetOf
<1> QED
    BY <1>2, <1>3, <1>5, <1>6 DEF b

LEMMA ChangeInContextLogInv ==
    ASSUME TypeInv, TypeInv', LogInv, MoreVersions(versions'), NEW p \in Packages,
           NEW target, IsTargetOf(target, p, versions'), ChangeInContext(p, target)
    PROVE  LogInv' /\ KeepsCommitted
<1> DEFINE log == ActiveLog(p)
           b == SetVersions(target, log, serial)
<1>1. /\ draft' = b /\ OnCommit(<<>>)
      /\ UNCHANGED <<published, draftLogs, publishLogs, serial, contexts>>
    BY DEF ChangeInContext
<1>2. log \in Nat /\ serial \in Nat
    BY ActiveLogType, TypeInvTables
<1>3. /\ RowsHaveVersions(versions', b) /\ DraftRecordsLogged(b, draftLogs)
      /\ Keeps(b, committed.draft)
      /\ \A id : Closed(id) /\ (\E e \in Entities : InLog(draft.recs[e], id))
            => \E e \in Entities : InLog(b.recs[e], id)
    <2>1. CASE \E i \in 1..Len(contexts) : contexts[i].package = p /\ contexts[i].id = log
        <3>1. PICK i \in 1..Len(contexts) : contexts[i].package = p /\ contexts[i].id = log
            BY <2>1
        <3>2. contexts[i] \in Log /\ contexts[i] \in draftLogs
            BY TypeInvTables, LogInvTables DEF ContextsInv
        <3>3. [id |-> log, package |-> p] \in draftLogs
            BY <3>1, <3>2 DEF Log
        <3>4. LogOfPackage(draft, log, p)
            BY <3>3, LogInvTables, LogHasOnePackage
        <3> HIDE DEF log
        <3>5. /\ RowsHaveVersions(versions', b)
              /\ OnlyLog(b, draft, log) /\ LogOfPackage(b, log, p)
            BY <1>2, <3>4, SetVersionsStep
        <3> HIDE DEF b
        <3>6. DraftRecordsLogged(b, draftLogs)
            BY <3>3, <3>5, LogInvTables, DraftRecordsStayLogged
        <3>7. \A l \in committed.draftLogs : l.id # log
            BY <3>1, LogInvTables DEF CommittedInv, Closed
        <3>8. Keeps(b, committed.draft)
            BY <3>5, <3>7, CommittedKept
        <3>9. \A id : Closed(id) => id # log
            BY <3>1 DEF Closed
        <3> QED
            BY <3>5, <3>6, <3>8, <3>9, OtherLogsKept
    <2>2. CASE log = 0
        <3>1. \A e \in DOMAIN target : VersionOf(draft.rows, e) = target[e]
            BY <2>2 DEF ChangeInContext
        <3> HIDE DEF log
        <3>2. \A e \in Entities : b.recs[e] = draft.recs[e]
            BY <3>1, SetVersionsUnchanged
        <3>3. RowsHaveVersions(versions', b)
            <4>1. PkBound(draft, serial) /\ BranchOK(draft) /\ IsTarget(target)
                BY TypeInvTables DEF IsTargetOf
            <4>2. \A e \in Entities :
                    VersionOf(b.rows, e) = IF e \in DOMAIN target THEN target[e]
                                           ELSE VersionOf(draft.rows, e)
                BY <1>2, <4>1, SetVersionsMembers
            <4>3. RowsHaveVersions(versions', draft)
                BY <4>1, LogInvTables, MoreVersionsForRows
            <4> HIDE DEF b
            <4> QED
                BY <3>1, <4>2, <4>3 DEF RowsHaveVersions, IsTargetOf
        <3> HIDE DEF b
        <3> QED
            BY <3>2, <3>3, LogInvTables DEF DraftRecordsLogged, Keeps, CommittedInv
    <2> QED
        BY <2>1, <2>2, ActiveLogIsOpen
<1> HIDE DEF b, log
<1>4. DbInv(Db, serial)'
    <2>1. RowsHaveVersions(versions', published)
        BY TypeInvTables, LogInvTables, MoreVersionsForRows
    <2>2. OwnDependencies(versions)' /\ RowsHaveVersions(versions, draft)'
        BY <1>1, <1>3 DEF MoreVersions, OwnDependencies, RowsHaveVersions
    <2>3. RowsHaveVersions(versions, published)'
        BY <1>1, <2>1 DEF RowsHaveVersions
    <2>4. LogsIdentified(draftLogs, serial)' /\ PublishRecordsLogged(published, publishLogs)'
        BY <1>1, LogInvTables DEF LogsIdentified, PublishRecordsLogged
    <2>5. DraftRecordsLogged(draft, draftLogs)'
        BY <1>1, <1>3 DEF DraftRecordsLogged
    <2> QED
        BY <2>2, <2>3, <2>4, <2>5 DEF DbInv, Db
<1>5. ContextsInv' /\ \A l \in committed.draftLogs : Closed(l.id)'
    BY <1>1, LogInvTables DEF ContextsInv, CommittedInv, Closed
<1>6. NoEmptyDraftLog'
    BY <1>1, <1>3, LogInvTables DEF NoEmptyDraftLog, Closed
<1>7. Keeps(draft', committed.draft) /\ Keeps(published', committed.published)
    BY <1>1, <1>3, LogInvTables DEF CommittedInv
<1> QED
    BY <1>1, <1>2, <1>4, <1>5, <1>6, <1>7, OnCommitLogInv

\* The next primary key is not the id of a log yet.
LEMMA FreshLog ==
    ASSUME TypeInv, LogInv
    PROVE  /\ \A e \in Entities : ~ InLog(draft.recs[e], serial + 1)
           /\ \A l \in draftLogs : l.id # serial + 1
           /\ \A l \in committed.draftLogs : l.id # serial + 1
<1>1. serial \in Nat /\ draftLogs \subseteq Log /\ committed.draftLogs \subseteq Log
    BY TypeInvTables DEF TypeInv, TypeOK, DbOK
<1>2. (\A l \in draftLogs : l.id <= serial) /\ (\A l \in committed.draftLogs : l.id <= serial)
    BY LogInvTables DEF LogInv, DbInv, LogsIdentified
<1>3. \A l \in draftLogs : l.id # serial + 1
    BY <1>1, <1>2
<1>4. \A e \in Entities : \A r \in draft.recs[e] : r.log # serial + 1
    BY <1>3, LogInvTables DEF DraftRecordsLogged
<1> QED
    BY <1>1, <1>2, <1>3, <1>4 DEF InLog

\* The first change of an entity in a log leaves a record.
LEMMA SetVersionsAddsRecord ==
    ASSUME NEW target, NEW log, NEW pk, NEW e \in Entities, e \in DOMAIN target,
           VersionOf(draft.rows, e) # target[e], ~ InLog(draft.recs[e], log)
    PROVE  InLog(SetVersions(target, log, pk).recs[e], log)
<1> DEFINE new == Record(pk, log, VersionOf(draft.rows, e), target[e], FALSE, {})
<1>1. SetVersions(target, log, pk).recs[e] =
        AddToChangeLog(draft.recs[e], log, pk, VersionOf(draft.rows, e), target[e])
    BY DEF SetVersions
<1>2. new \in AddToChangeLog(draft.recs[e], log, pk, VersionOf(draft.rows, e), target[e])
    BY DEF AddToChangeLog, InLog
<1>3. new.log = log
    BY DEF Record
<1> QED
    BY <1>1, <1>2, <1>3 DEF InLog

LEMMA ChangeInOwnLogLogInv ==
    ASSUME TypeInv, TypeInv', LogInv, MoreVersions(versions'), NEW p \in Packages,
           NEW target, IsTargetOf(target, p, versions'),
           ChangeInOwnLog(versions', p, target)
    PROVE  LogInv' /\ KeepsCommitted
<1> DEFINE log == serial + 1
           l0 == [id |-> log, package |-> p]
           b == SetVersions(target, log, log)
           a == CreateSideEffects(versions', b, log, log)
<1>1. /\ draft' = a /\ serial' = log /\ draftLogs' = draftLogs \cup {l0}
      /\ OnCommit(<<ChangeLogEvent("draft", draft', log)>>)
      /\ UNCHANGED <<published, publishLogs, contexts>>
    BY DEF ChangeInOwnLog
<1>2. log \in Nat /\ serial \in Nat /\ serial <= log
    BY TypeInvTables
<1>3. /\ \A e \in Entities : ~ InLog(draft.recs[e], log)
      /\ \A l \in draftLogs : l.id # log
      /\ \A l \in committed.draftLogs : l.id # log
    BY FreshLog
<1>4. PICK e0 \in DOMAIN target : VersionOf(draft.rows, e0) # target[e0]
    BY DEF ChangeInOwnLog
<1>5. e0 \in Entities
    BY DEF IsTargetOf, IsTarget
<1>6. InLog(b.recs[e0], log)
    BY <1>3, <1>4, <1>5, SetVersionsAddsRecord
<1> HIDE DEF log
<1>7. LogOfPackage(draft, log, p)
    BY <1>3 DEF LogOfPackage
<1>8. /\ BranchOK(b) /\ RowsHaveVersions(versions', b)
      /\ OnlyLog(b, draft, log) /\ LogOfPackage(b, log, p)
    BY <1>2, <1>7, SetVersionsStep
<1> HIDE DEF b
<1>9. /\ RowsHaveVersions(versions', a) /\ OnlyLog(a, b, log)
      /\ LogOfPackage(a, log, p) /\ KeepsLogs(a, b)
    BY <1>2, <1>8, SideEffectsStep DEF MoreVersions
<1> HIDE DEF a
<1>10. OnlyLog(a, draft, log)
    BY <1>8, <1>9, OnlyLogTransitive
<1>11. DraftRecordsLogged(a, draftLogs \cup {l0})
    <2> DEFINE more == draftLogs \cup {l0}
    <2>1. draftLogs \subseteq more /\ [id |-> log, package |-> p] \in more
        OBVIOUS
    <2> HIDE DEF more
    <2>2. DraftRecordsLogged(a, more)
        BY <1>9, <1>10, <2>1, LogInvTables, DraftRecordsStayLogged
    <2> QED
        BY <2>2 DEF more
<1>12. LogsIdentified(draftLogs \cup {l0}, log)
    <2>1. LogsIdentified(draftLogs, log)
        BY <1>2, TypeInvTables, LogInvTables, LogsIdentifiedGrows
    <2>2. l0.id = log
        OBVIOUS
    <2> HIDE DEF l0
    <2> QED
        BY <1>2, <1>3, <2>1, <2>2 DEF LogsIdentified
<1> HIDE DEF l0
<1>13. DbInv(Db, serial)'
    <2>1. RowsHaveVersions(versions', published)
        BY TypeInvTables, LogInvTables, MoreVersionsForRows
    <2>2. OwnDependencies(versions)' /\ RowsHaveVersions(versions, draft)'
        BY <1>1, <1>9 DEF MoreVersions, OwnDependencies, RowsHaveVersions
    <2>3. RowsHaveVersions(versions, published)'
        BY <1>1, <2>1 DEF RowsHaveVersions
    <2>4. LogsIdentified(draftLogs, serial)' /\ PublishRecordsLogged(published, publishLogs)'
        BY <1>1, <1>12, LogInvTables DEF LogsIdentified, PublishRecordsLogged
    <2>5. DraftRecordsLogged(draft, draftLogs)'
        BY <1>1, <1>11 DEF DraftRecordsLogged
    <2> QED
        BY <2>2, <2>3, <2>4, <2>5 DEF DbInv, Db
<1>14. ContextsInv' /\ \A l \in committed.draftLogs : Closed(l.id)'
    BY <1>1, LogInvTables DEF ContextsInv, CommittedInv, Closed
<1>15. NoEmptyDraftLog'
    <2>1. ASSUME NEW l \in draftLogs, Closed(l.id)
          PROVE  \E e \in Entities : InLog(a.recs[e], l.id)
        <3>1. \E e \in Entities : InLog(draft.recs[e], l.id)
            BY <2>1, LogInvTables DEF NoEmptyDraftLog
        <3> QED
            BY <1>3, <1>10, <3>1, OtherLogsKept
    <2>2. InLog(a.recs[e0], log) /\ l0.id = log
        BY <1>5, <1>6, <1>9 DEF KeepsLogs, l0
    <2> QED
        BY <1>1, <1>5, <2>1, <2>2 DEF NoEmptyDraftLog, Closed
<1>16. Keeps(draft', committed.draft) /\ Keeps(published', committed.published)
    BY <1>1, <1>3, <1>10, LogInvTables, CommittedKept DEF CommittedInv
<1> QED
    BY <1>1, <1>2, <1>13, <1>14, <1>15, <1>16, OnCommitLogInv

LEMMA BulkEnterLogInv ==
    ASSUME TypeInv, LogInv, NEW p \in Packages, BulkEnter(p)
    PROVE  LogInv' /\ KeepsCommitted
<1> DEFINE l0 == [id |-> serial + 1, package |-> p]
<1>1. /\ serial' = serial + 1 /\ draftLogs' = draftLogs \cup {l0}
      /\ contexts' = Append(contexts, l0)
      /\ UNCHANGED <<versions, draft, published, publishLogs, committed, outbox, events>>
    BY DEF BulkEnter
<1>2. l0.id = serial + 1 /\ serial \in Nat /\ serial + 1 \in Nat /\ serial <= serial + 1
    BY TypeInvTables
<1>3. /\ \A l \in draftLogs : l.id # serial + 1
      /\ \A l \in committed.draftLogs : l.id # serial + 1
    BY FreshLog
<1> HIDE DEF l0
<1>4. LogsIdentified(draftLogs, serial + 1) /\ LogsIdentified(committed.draftLogs, serial + 1)
    <2>1. LogsIdentified(draftLogs, serial) /\ LogsIdentified(committed.draftLogs, serial)
        BY LogInvTables DEF LogInv, DbInv
    <2>2. draftLogs \in SUBSET Log /\ committed.draftLogs \in SUBSET Log
        BY TypeInvTables DEF TypeInv, TypeOK, DbOK
    <2> QED
        BY <1>2, <2>1, <2>2, LogsIdentifiedGrows
<1>5. LogsIdentified(draftLogs \cup {l0}, serial + 1)
    BY <1>2, <1>3, <1>4 DEF LogsIdentified
<1>6. DbInv(Db, serial)'
    BY <1>1, <1>5, LogInvTables
    DEF DbInv, Db, OwnDependencies, RowsHaveVersions, DraftRecordsLogged,
        PublishRecordsLogged, LogsIdentified
<1>7. DbInv(committed, serial)'
    <2>1. DbInv(committed, serial + 1)
        BY <1>4 DEF LogInv, DbInv
    <2> QED
        BY <1>1, <2>1
<1>8. /\ Len(contexts') = Len(contexts) + 1 /\ Len(contexts) \in Nat
      /\ \A i \in 1..Len(contexts) : contexts'[i] = contexts[i]
      /\ contexts'[Len(contexts) + 1] = l0
    BY <1>1, TypeInvTables
<1>9. ContextsInv'
    <2>1. \A i \in 1..Len(contexts) : contexts[i] \in draftLogs /\ contexts[i].id # l0.id
        BY <1>2, <1>3, LogInvTables DEF ContextsInv
    <2>2. \A i \in 1..Len(contexts') : i \in 1..Len(contexts) \/ i = Len(contexts) + 1
        BY <1>8
    <2>3. \A i, j \in 1..Len(contexts') : i # j => contexts'[i].id # contexts'[j].id
        BY <1>8, <2>1, <2>2, LogInvTables DEF ContextsInv
    <2>4. \A i \in 1..Len(contexts') : contexts'[i] \in draftLogs'
        BY <1>1, <1>8, <2>1, <2>2
    <2> QED
        BY <2>3, <2>4 DEF ContextsInv
<1>10. ASSUME NEW id, Closed(id), id # l0.id
       PROVE  Closed(id)'
    <2>1. \A i \in 1..Len(contexts') : contexts'[i].id # id
        BY <1>8, <1>10 DEF Closed
    <2> QED
        BY <2>1 DEF Closed
<1>11. ASSUME NEW id, Closed(id)'
       PROVE  Closed(id) /\ id # l0.id
    <2>1. 1..Len(contexts) \subseteq 1..Len(contexts') /\ Len(contexts) + 1 \in 1..Len(contexts')
        BY <1>8
    <2> QED
        BY <1>8, <1>11, <2>1 DEF Closed
<1>12. NoEmptyDraftLog'
    BY <1>1, <1>11, LogInvTables DEF NoEmptyDraftLog
<1>13. CommittedInv'
    BY <1>1, <1>2, <1>3, <1>10, LogInvTables DEF CommittedInv, Keeps
<1> QED
    BY <1>1, <1>6, <1>7, <1>9, <1>12, <1>13 DEF LogInv, KeepsCommitted, Keeps

LEMMA BulkExitLogInv ==
    ASSUME TypeInv, TypeInv', LogInv, BulkExit
    PROVE  LogInv' /\ KeepsCommitted
<1> DEFINE last == Len(contexts)
           l0 == contexts[last]
           a == CreateSideEffects(versions, draft, l0.id, serial')
<1>1. /\ contexts # <<>> /\ serial' = serial + 1 /\ draft' = a
      /\ draftLogs' = IF \E e \in Entities : InLog(draft'.recs[e], l0.id)
                      THEN draftLogs ELSE draftLogs \ {l0}
      /\ contexts' = SubSeq(contexts, 1, last - 1)
      /\ UNCHANGED <<versions, published, publishLogs>>
      /\ OnCommit(<<ChangeLogEvent("draft", draft', l0.id)>>)
    BY DEF BulkExit
<1>2. /\ serial \in Nat /\ serial' \in Nat /\ serial <= serial'
      /\ last \in 1..Len(contexts) /\ Len(contexts') = last - 1
      /\ \A i \in 1..Len(contexts') : i \in 1..Len(contexts) /\ i # last
                                      /\ contexts'[i] = contexts[i]
      /\ \A i \in 1..Len(contexts) : i = last \/ i \in 1..Len(contexts')
    BY <1>1, TypeInvTables
<1> HIDE DEF last
<1>3. l0 \in Log /\ l0 \in draftLogs
    BY <1>2, TypeInvTables, LogInvTables DEF ContextsInv
<1>4. l0.id \in Nat /\ [id |-> l0.id, package |-> l0.package] = l0
    BY <1>3 DEF Log
<1>5. \A i \in 1..Len(contexts') : contexts'[i] \in draftLogs /\ contexts'[i].id # l0.id
    BY <1>2, LogInvTables DEF ContextsInv
<1>6. \A i, j \in 1..Len(contexts') : i # j => contexts'[i].id # contexts'[j].id
    BY <1>2, LogInvTables DEF ContextsInv
<1>7. \A id : Closed(id)' /\ id # l0.id => Closed(id)
    BY <1>2 DEF Closed
<1>8. \A id : Closed(id) => Closed(id)' /\ id # l0.id
    BY <1>2 DEF Closed
<1> HIDE DEF l0
<1>9. LogOfPackage(draft, l0.id, l0.package)
    <2>1. [id |-> l0.id, package |-> l0.package] \in draftLogs
        BY <1>3, <1>4
    <2> QED
        BY <2>1, LogInvTables, LogHasOnePackage
<1>10. /\ RowsHaveVersions(versions, a) /\ OnlyLog(a, draft, l0.id)
       /\ LogOfPackage(a, l0.id, l0.package)
    BY <1>2, <1>4, <1>9, TypeInvTables, LogInvTables, SideEffectsStep
<1> HIDE DEF a
<1>11. DraftRecordsLogged(a, draftLogs)
    BY <1>3, <1>4, <1>10, LogInvTables, DraftRecordsStayLogged
<1>12. DraftRecordsLogged(a, draftLogs')
    <2>1. CASE \E e \in Entities : InLog(a.recs[e], l0.id)
        BY <1>1, <1>11, <2>1
    <2>2. CASE ~ \E e \in Entities : InLog(a.recs[e], l0.id)
        <3> SUFFICES ASSUME NEW e \in Entities, NEW r \in a.recs[e]
                     PROVE  [id |-> r.log, package |-> PackageOf[e]] \in draftLogs'
            BY DEF DraftRecordsLogged
        <3>1. r.log # l0.id
            BY <2>2 DEF InLog
        <3>2. [id |-> r.log, package |-> PackageOf[e]] # l0
            BY <3>1
        <3> QED
            BY <1>1, <1>11, <2>2, <3>2 DEF DraftRecordsLogged
    <2> QED
        BY <2>1, <2>2
<1>13. draftLogs' \subseteq draftLogs
    BY <1>1
<1>14. DbInv(Db, serial)'
    <2>1. LogsIdentified(draftLogs, serial')
        BY <1>2, TypeInvTables, LogInvTables, LogsIdentifiedGrows
    <2>2. LogsIdentified(draftLogs, serial)'
        BY <1>13, <2>1 DEF LogsIdentified
    <2>3. OwnDependencies(versions)' /\ RowsHaveVersions(versions, published)'
          /\ PublishRecordsLogged(published, publishLogs)'
        BY <1>1, LogInvTables DEF OwnDependencies, RowsHaveVersions, PublishRecordsLogged
    <2>4. RowsHaveVersions(versions, draft)' /\ DraftRecordsLogged(draft, draftLogs)'
        BY <1>1, <1>10, <1>12 DEF RowsHaveVersions, DraftRecordsLogged
    <2> QED
        BY <2>2, <2>3, <2>4 DEF DbInv, Db
<1>15. ContextsInv'
    <2>1. \A i \in 1..Len(contexts') : contexts'[i] \in draftLogs'
        BY <1>1, <1>5
    <2> QED
        BY <1>6, <2>1 DEF ContextsInv
<1>16. NoEmptyDraftLog'
    <2> SUFFICES ASSUME NEW l \in draftLogs', Closed(l.id)'
                 PROVE  \E e \in Entities : InLog(a.recs[e], l.id)
        BY <1>1 DEF NoEmptyDraftLog
    <2>1. CASE l.id = l0.id
        <3>1. l = l0
            BY <1>3, <1>13, <2>1, LogInvTables DEF LogsIdentified
        <3> QED
            BY <1>1, <3>1
    <2>2. CASE l.id # l0.id
        <3>1. \E e \in Entities : InLog(draft.recs[e], l.id)
            BY <1>7, <1>13, <2>2, LogInvTables DEF NoEmptyDraftLog
        <3> QED
            BY <1>10, <2>2, <3>1, OtherLogsKept
    <2> QED
        BY <2>1, <2>2
<1>17. \A l \in committed.draftLogs : Closed(l.id)' /\ l.id # l0.id
    BY <1>8, LogInvTables DEF CommittedInv
<1>18. Keeps(draft', committed.draft) /\ Keeps(published', committed.published)
    BY <1>1, <1>10, <1>17, LogInvTables, CommittedKept DEF CommittedInv
<1> QED
    BY <1>1, <1>2, <1>14, <1>15, <1>16, <1>17, <1>18, OnCommitLogInv

LEMMA BulkAbortLogInv ==
    ASSUME LogInv, BulkAbort
    PROVE  LogInv' /\ KeepsCommitted
<1>1. /\ versions' = committed.versions /\ draft' = committed.draft
      /\ published' = committed.published /\ draftLogs' = committed.draftLogs
      /\ publishLogs' = committed.publishLogs /\ contexts' = <<>>
      /\ UNCHANGED <<serial, committed>>
    BY DEF BulkAbort
<1>2. DbInv(committed, serial) /\ CommittedInv
    BY DEF LogInv
<1>3. DbInv(Db, serial)'
    BY <1>1, <1>2
    DEF DbInv, Db, OwnDependencies, RowsHaveVersions, DraftRecordsLogged,
        PublishRecordsLogged, LogsIdentified
<1>4. DbInv(committed, serial)'
    BY <1>1, <1>2
<1>5. ContextsInv' /\ \A id : Closed(id)'
    BY <1>1 DEF ContextsInv, Closed
<1>6. CommittedInv'
    BY <1>1, <1>2, <1>5 DEF CommittedInv, Keeps
<1>7. NoEmptyDraftLog'
    BY <1>1, <1>2 DEF NoEmptyDraftLog, CommittedInv
<1> QED
    BY <1>1, <1>3, <1>4, <1>5, <1>6, <1>7 DEF LogInv, KeepsCommitted, Keeps

\* A publish of drafts of a package publishes drafts of that package only.
LEMMA DependenciesToPublishOwnPackage ==
    ASSUME TypeInv, LogInv, NEW S \in SUBSET Entities, NEW p,
           \A e \in S : PackageOf[e] = p, NEW kind
    PROVE  \A e \in DependenciesToPublish(S, kind) : e \in Entities /\ PackageOf[e] = p
<1> DEFINE deps == CurrentDependencies(versions, draft.rows)
<1>1. /\ DOMAIN deps = Entities
      /\ \A e \in Entities : \A d \in deps[e] : d \in Entities /\ PackageOf[d] = PackageOf[e]
    BY TypeInvTables, LogInvTables, CurrentDependenciesOwn
<1> HIDE DEF deps
<1>2. \A x \in Descendants(deps, S) : x \in Entities /\ PackageOf[x] = p
    BY <1>1, DescendantsOwnPackage
<1>3. DependenciesToPublish(S, kind) \subseteq Descendants(deps, S)
    BY DEF DependenciesToPublish, deps
<1> QED
    BY <1>2, <1>3

LEMMA PublishFromDraftsLogInv ==
    ASSUME TypeInv, TypeInv', LogInv, NEW p \in Packages, NEW S \in SUBSET Entities,
           NEW kind, NEW dependencies \in BOOLEAN,
           PublishFromDrafts(p, S, kind, dependencies)
    PROVE  LogInv' /\ KeepsCommitted
<1> DEFINE log == Len(publishLogs) + 1
           all == S \cup IF dependencies THEN DependenciesToPublish(S, kind) ELSE {}
           b == PublishedAfter(S, all, log)
           a == CreateSideEffects(versions, b, log, log)
<1>1. /\ \A e \in S : PackageOf[e] = p
      /\ published' = a /\ publishLogs' = Append(publishLogs, p)
      /\ UNCHANGED <<versions, draft, draftLogs, serial, contexts>>
      /\ OnCommit(<<ChangeLogEvent("published", published', log)>>)
    BY DEF PublishFromDrafts
<1>2. log \in Nat /\ serial \in Nat /\ Len(publishLogs) \in Nat
    BY TypeInvTables
<1>3. \A e \in all : e \in Entities /\ PackageOf[e] = p
    BY <1>1, DependenciesToPublishOwnPackage
<1>4. \A e \in Entities : ~ InLog(published.recs[e], log)
    BY <1>2, LogInvTables DEF PublishRecordsLogged, InLog
<1> HIDE DEF all, log
<1>5. BranchOK(b)
    BY <1>2, TypeInvTables, PublishedAfterKeepsBranch
<1>6. /\ \A e \in Entities : \A x \in b.recs[e] :
            x \in published.recs[e] \/ (e \in all /\ x.log = log)
      /\ \A e \in Entities : published.recs[e] \subseteq b.recs[e]
    BY DEF PublishedAfter, Record
<1>7. OnlyLog(b, published, log)
    BY <1>6 DEF OnlyLog
<1>8. LogOfPackage(b, log, p)
    BY <1>3, <1>4, <1>6 DEF LogOfPackage, InLog
<1>9. RowsHaveVersions(versions, b)
    <2> SUFFICES ASSUME NEW e \in Entities
                 PROVE  VersionOf(b.rows, e) <= Len(versions[e])
        BY DEF RowsHaveVersions
    <2>1. CASE e \in all
        <3> DEFINE n == VersionOf(draft.rows, e)
        <3>1. n \in Nat
            BY TypeInvTables, VersionType
        <3>2. b.rows[e] = [version |-> n, rec |-> log]
            BY <2>1 DEF PublishedAfter
        <3> HIDE DEF n
        <3>3. [version |-> n, rec |-> log] \in Row
            BY <1>2, <3>1 DEF Row
        <3>4. VersionOf(b.rows, e) = n
            BY <3>2, <3>3, ConstantsAssumption DEF VersionOf
        <3> QED
            BY <3>4, LogInvTables DEF n, RowsHaveVersions
    <2>2. CASE e \notin all
        <3>1. b.rows[e] = published.rows[e]
            BY <2>2 DEF PublishedAfter
        <3>2. VersionOf(b.rows, e) = VersionOf(published.rows, e)
            BY <3>1 DEF VersionOf
        <3> QED
            BY <3>2, LogInvTables DEF RowsHaveVersions
    <2> QED
        BY <2>1, <2>2
<1> HIDE DEF b
<1>10. /\ RowsHaveVersions(versions, a) /\ OnlyLog(a, b, log) /\ LogOfPackage(a, log, p)
    BY <1>2, <1>5, <1>8, <1>9, TypeInvTables, LogInvTables, SideEffectsStep
<1> HIDE DEF a
<1>11. OnlyLog(a, published, log)
    BY <1>7, <1>10, OnlyLogTransitive
<1>12. PublishRecordsLogged(a, publishLogs')
    <2>1. /\ Len(publishLogs') = Len(publishLogs) + 1 /\ publishLogs'[log] = p
          /\ log \in 1..Len(publishLogs')
          /\ \A i \in 1..Len(publishLogs) : /\ i \in 1..Len(publishLogs')
                                            /\ publishLogs'[i] = publishLogs[i]
        BY <1>1, TypeInvTables DEF log
    <2> SUFFICES ASSUME NEW e \in Entities, NEW r \in a.recs[e]
                 PROVE  r.log \in 1..Len(publishLogs') /\ publishLogs'[r.log] = PackageOf[e]
        BY DEF PublishRecordsLogged
    <2>2. CASE r.log = log
        BY <1>10, <2>1, <2>2 DEF LogOfPackage, InLog
    <2>3. CASE r.log # log
        <3>1. r \in published.recs[e]
            BY <1>11, <2>3 DEF OnlyLog
        <3> QED
            BY <2>1, <3>1, LogInvTables DEF PublishRecordsLogged
    <2> QED
        BY <2>2, <2>3
<1>13. Keeps(a, committed.published)
    <2> SUFFICES ASSUME NEW e \in Entities, NEW r \in committed.published.recs[e]
                 PROVE  r \in a.recs[e]
        BY DEF Keeps
    <2>1. r \in published.recs[e]
        BY LogInvTables DEF CommittedInv, Keeps
    <2>2. r.log # log
        BY <1>4, <2>1 DEF InLog
    <2> QED
        BY <1>11, <2>1, <2>2 DEF OnlyLog
<1>14. DbInv(Db, serial)'
    <2>1. RowsHaveVersions(versions, published)' /\ PublishRecordsLogged(published, publishLogs)'
        BY <1>1, <1>10, <1>12 DEF RowsHaveVersions, PublishRecordsLogged
    <2> QED
        BY <1>1, <2>1, LogInvTables
        DEF DbInv, Db, OwnDependencies, RowsHaveVersions, DraftRecordsLogged, LogsIdentified
<1>15. ContextsInv' /\ \A l \in committed.draftLogs : Closed(l.id)'
    BY <1>1, LogInvTables DEF ContextsInv, CommittedInv, Closed
<1>16. NoEmptyDraftLog'
    BY <1>1, LogInvTables DEF NoEmptyDraftLog, Closed
<1>17. Keeps(draft', committed.draft) /\ Keeps(published', committed.published)
       /\ serial' \in Nat /\ serial <= serial'
    BY <1>1, <1>2, <1>13, LogInvTables DEF CommittedInv
<1> QED
    BY <1>1, <1>14, <1>15, <1>16, <1>17, OnCommitLogInv

\* Versions and their dependencies are appended, or stay.
LEMMA UnchangedVersions ==
    ASSUME TypeInv, LogInv, UNCHANGED versions
    PROVE  MoreVersions(versions')
<1>1. \A e \in Entities : Len(versions[e]) \in Nat
    BY TypeInvTables
<1> QED
    BY <1>1, TypeInvTables, LogInvTables DEF MoreVersions

\* What every operation on drafts comes to: some drafts of a package move to
\* versions there are, once versions may have been added.
DraftsChange(p, target) ==
    /\ MoreVersions(versions')
    /\ IsTargetOf(target, p, versions')
    /\ ChangeDrafts(versions', p, target)
    /\ \A e \in Entities \ DOMAIN target : versions'[e] = versions[e]

LEMMA CreateVersionChangesDrafts ==
    ASSUME TypeInv, TypeInv', LogInv, NEW e \in Entities, NEW deps \in DependencySets[e],
           CreateVersion(e, deps)
    PROVE  \E p \in Packages : \E target : DraftsChange(p, target)
<1> DEFINE target == [x \in {e} |-> Len(versions[e]) + 1]
<1>1. versions[e] \in Seq(SUBSET Entities) /\ Len(versions[e]) \in Nat
    BY TypeInvTables
<1>2. versions' = [versions EXCEPT ![e] = Append(@, deps)]
      /\ \A d \in deps : PackageOf[d] = PackageOf[e] /\ Level[d] < Level[e]
    BY DEF CreateVersion
<1>3. versions' \in [Entities -> Seq(SUBSET Entities)]
    BY DEF TypeInv, TypeOK, DbOK, Db
<1>4. deps \subseteq Entities /\ PackageOf[e] \in Packages
    BY ConstantsAssumption
<1>5. /\ versions'[e] = Append(versions[e], deps)
      /\ \A x \in Entities : x # e => versions'[x] = versions[x]
    BY <1>2, TypeInvTables
<1>6. /\ Len(versions'[e]) = Len(versions[e]) + 1
      /\ \A n \in 1..Len(versions[e]) : versions'[e][n] = versions[e][n]
      /\ \A n \in 1..Len(versions'[e]) :
            \/ n \in 1..Len(versions[e]) /\ versions'[e][n] = versions[e][n]
            \/ versions'[e][n] = deps
    BY <1>1, <1>4, <1>5
<1>7. MoreVersions(versions')
    <2>1. ASSUME NEW x \in Entities
          PROVE  /\ Len(versions[x]) <= Len(versions'[x])
                 /\ \A n \in 1..Len(versions[x]) : versions'[x][n] = versions[x][n]
                 /\ \A n \in 1..Len(versions'[x]) : \A d \in versions'[x][n] :
                        PackageOf[d] = PackageOf[x] /\ Level[d] < Level[x]
        <3>1. CASE x = e
            BY <1>1, <1>2, <1>6, <3>1, LogInvTables DEF OwnDependencies
        <3>2. CASE x # e
            <4>1. Len(versions[x]) \in Nat
                BY TypeInvTables
            <4> QED
                BY <1>5, <3>2, <4>1, LogInvTables DEF OwnDependencies
        <3> QED
            BY <3>1, <3>2
    <2> QED
        BY <1>3, <2>1 DEF MoreVersions, OwnDependencies
<1>8. IsTargetOf(target, PackageOf[e], versions')
    BY <1>1, <1>6 DEF IsTargetOf, IsTarget
<1>9. ChangeDrafts(versions', PackageOf[e], target)
    BY DEF CreateVersion
<1>10. \A x \in Entities \ DOMAIN target : versions'[x] = versions[x]
    BY <1>5
<1> HIDE DEF target
<1> QED
    BY <1>4, <1>7, <1>8, <1>9, <1>10 DEF DraftsChange

LEMMA SetDraftVersionChangesDrafts ==
    ASSUME TypeInv, TypeInv', LogInv, NEW e \in Entities, NEW n \in Nat,
           SetDraftVersion(e, n)
    PROVE  \E p \in Packages : \E target : DraftsChange(p, target)
<1> DEFINE target == [x \in {e} |-> n]
<1>1. PackageOf[e] \in Packages /\ versions' = versions /\ n \in 1..Len(versions[e])
    BY ConstantsAssumption DEF SetDraftVersion
<1>2. Len(versions[e]) \in Nat
    BY TypeInvTables
<1>3. IsTargetOf(target, PackageOf[e], versions')
    BY <1>1, <1>2 DEF IsTargetOf, IsTarget
<1>4. ChangeDrafts(versions', PackageOf[e], target)
    BY <1>1 DEF SetDraftVersion
<1> HIDE DEF target
<1> QED
    BY <1>1, <1>3, <1>4, UnchangedVersions DEF DraftsChange

LEMMA SoftDeleteDraftChangesDrafts ==
    ASSUME TypeInv, TypeInv', LogInv, NEW e \in Entities, SoftDeleteDraft(e)
    PROVE  \E p \in Packages : \E target : DraftsChange(p, target)
<1> DEFINE target == [x \in {e} |-> 0]
<1>1. PackageOf[e] \in Packages /\ versions' = versions
    BY ConstantsAssumption DEF SoftDeleteDraft
<1>2. Len(versions[e]) \in Nat
    BY TypeInvTables
<1>3. IsTargetOf(target, PackageOf[e], versions')
    BY <1>1, <1>2 DEF IsTargetOf, IsTarget
<1>4. ChangeDrafts(versions', PackageOf[e], target)
    BY <1>1 DEF SoftDeleteDraft
<1> HIDE DEF target
<1> QED
    BY <1>1, <1>3, <1>4, UnchangedVersions DEF DraftsChange

LEMMA ResetDraftsChangesDrafts ==
    ASSUME TypeInv, TypeInv', LogInv, NEW p \in Packages, ResetDraftsToPublished(p)
    PROVE  LET differing == {e \in Entities : PackageOf[e] = p /\ Unpublished(e)}
           IN  DraftsChange(p, [e \in differing |-> VersionOf(published.rows, e)])
<1> DEFINE differing == {e \in Entities : PackageOf[e] = p /\ Unpublished(e)}
           target == [e \in differing |-> VersionOf(published.rows, e)]
<1>1. versions' = versions
    BY DEF ResetDraftsToPublished
<1>2. \A e \in Entities : /\ VersionOf(published.rows, e) \in Nat
                          /\ VersionOf(published.rows, e) <= Len(versions[e])
    BY TypeInvTables, LogInvTables, VersionType DEF RowsHaveVersions
<1>3. IsTargetOf(target, p, versions')
    BY <1>1, <1>2 DEF IsTargetOf, IsTarget
<1>4. ChangeDrafts(versions', p, target)
    BY <1>1 DEF ResetDraftsToPublished
<1> HIDE DEF target
<1>5. DraftsChange(p, target)
    BY <1>1, <1>3, <1>4, UnchangedVersions DEF DraftsChange
<1> QED
    BY <1>5 DEF target

\* Every step changes drafts, enters or leaves a context or publishes.
LEMMA StepsAre ==
    ASSUME TypeInv, TypeInv', LogInv, [Next]_vars
    PROVE  \/ \E p \in Packages : \E target : DraftsChange(p, target)
           \/ \E p \in Packages : BulkEnter(p)
           \/ BulkExit
           \/ BulkAbort
           \/ \E p \in Packages : \E S \in SUBSET Entities : \E kind :
                \E dependencies \in BOOLEAN : PublishFromDrafts(p, S, kind, dependencies)
           \/ UNCHANGED vars
<1> DEFINE DraftStep == \E p \in Packages : \E target : DraftsChange(p, target)
           PublishStep == \E p \in Packages : \E S \in SUBSET Entities : \E kind :
                \E dependencies \in BOOLEAN : PublishFromDrafts(p, S, kind, dependencies)
<1>1. ASSUME NEW e \in Entities, NEW deps \in DependencySets[e], CreateVersion(e, deps)
      PROVE  DraftStep
    BY <1>1, CreateVersionChangesDrafts
<1>2. ASSUME NEW e \in Entities, NEW n \in 1..MaxVersion[e], SetDraftVersion(e, n)
      PROVE  DraftStep
    BY <1>2, SetDraftVersionChangesDrafts
<1>3. ASSUME NEW e \in Entities, SoftDeleteDraft(e)
      PROVE  DraftStep
    BY <1>3, SoftDeleteDraftChangesDrafts
<1>4. ASSUME NEW p \in Packages, ResetDraftsToPublished(p)
      PROVE  DraftStep
    BY <1>4, ResetDraftsChangesDrafts
<1>5. ASSUME NEW p \in Packages, NEW S \in Selections, NEW kind \in QuerysetKinds,
             NEW deps \in BOOLEAN, PublishFromDrafts(p, S, kind, deps)
      PROVE  PublishStep
    BY <1>5 DEF Selections
<1>6. ASSUME NEW p \in Packages, PublishAllDrafts(p)
      PROVE  PublishStep
    <2> DEFINE S == {e \in Entities : PackageOf[e] = p /\ Unpublished(e)}
    <2>1. S \in SUBSET Entities /\ PublishFromDrafts(p, S, "unpublished", TRUE)
        BY <1>6 DEF PublishAllDrafts
    <2> HIDE DEF S
    <2> QED
        BY <2>1
<1> HIDE DEF DraftStep, PublishStep
<1>7. DraftStep \/ (\E p \in Packages : BulkEnter(p)) \/ BulkExit \/ BulkAbort \/ PublishStep
      \/ UNCHANGED vars
    BY <1>1, <1>2, <1>3, <1>4, <1>5, <1>6 DEF Next
<1> QED
    BY <1>7 DEF DraftStep, PublishStep

LEMMA ChangeDraftsLogInv ==
    ASSUME TypeInv, TypeInv', LogInv, NEW p \in Packages, NEW target,
           DraftsChange(p, target)
    PROVE  LogInv' /\ KeepsCommitted
    BY ChangeInContextLogInv, ChangeInOwnLogLogInv DEF DraftsChange, ChangeDrafts

-----------------------------------------------------------------------------
(* The theorems on logs.                                                   *)

LEMMA InitLogInv == Init => LogInv
<1> SUFFICES ASSUME Init PROVE LogInv
    OBVIOUS
<1>1. \A e \in Entities : /\ versions[e] = <<>> /\ draft.rows[e] = NoRow
                          /\ draft.recs[e] = {}
    BY DEF Init
<1>2. published = draft /\ draftLogs = {} /\ contexts = <<>> /\ committed = Db
    BY DEF Init
<1>3. RowsHaveVersions(versions, draft)
    BY <1>1 DEF RowsHaveVersions, VersionOf
<1>4. DbInv(Db, serial)
    BY <1>1, <1>2, <1>3
    DEF DbInv, Db, OwnDependencies, LogsIdentified, DraftRecordsLogged, PublishRecordsLogged
<1>5. CommittedInv
    BY <1>2 DEF CommittedInv, Keeps, Db
<1> QED
    BY <1>2, <1>4, <1>5 DEF LogInv, ContextsInv, NoEmptyDraftLog

LEMMA NextLogInv ==
    TypeInv /\ TypeInv' /\ LogInv /\ [Next]_vars => LogInv' /\ KeepsCommitted
<1> SUFFICES ASSUME TypeInv, TypeInv', LogInv, [Next]_vars
             PROVE  LogInv' /\ KeepsCommitted
    OBVIOUS
<1>1. ASSUME NEW p \in Packages, NEW target, DraftsChange(p, target)
      PROVE  LogInv' /\ KeepsCommitted
    BY <1>1, ChangeDraftsLogInv
<1>2. ASSUME NEW p \in Packages, BulkEnter(p)
      PROVE  LogInv' /\ KeepsCommitted
    BY <1>2, BulkEnterLogInv
<1>3. CASE BulkExit
    BY <1>3, BulkExitLogInv
<1>4. CASE BulkAbort
    BY <1>4, BulkAbortLogInv
<1>5. ASSUME NEW p \in Packages, NEW S \in SUBSET Entities, NEW kind,
             NEW dependencies \in BOOLEAN, PublishFromDrafts(p, S, kind, dependencies)
      PROVE  LogInv' /\ KeepsCommitted
    BY <1>5, PublishFromDraftsLogInv
<1>6. CASE UNCHANGED vars
    BY <1>6
    DEF vars, LogInv, DbInv, Db, OwnDependencies, RowsHaveVersions, LogsIdentified,
        DraftRecordsLogged, PublishRecordsLogged, ContextsInv, CommittedInv, Keeps,
        Closed, NoEmptyDraftLog, KeepsCommitted
<1> QED
    BY <1>1, <1>2, <1>3, <1>4, <1>5, <1>6, StepsAre

LEMMA LogInvariance == Spec => [](TypeInv /\ LogInv)
<1>1. Init => TypeInv /\ LogInv
    BY InitType, InitLogInv
<1>2. TypeInv /\ LogInv /\ [Next]_vars => (TypeInv /\ LogInv)'
    BY NextType, NextLogInv
<1> QED
    BY <1>1, <1>2, PTL DEF Spec

\* Whatever contexts of several packages are open in one another, every change
\* is recorded in a log of its entity's own learning package, and so are its
\* side effects and the dependencies a publish adds: the dependency relation
\* never leaves a package.
THEOREM OwnPackage == Spec => []RecordsInOwnPackage
<1>1. LogInv => RecordsInOwnPackage
    BY LogInvTables
    DEF RecordsInOwnPackage, DraftRecordsLogged, PublishRecordsLogged
<1> QED
    BY <1>1, LogInvariance, PTL

\* Changes that cancel each other out never leave an empty log behind: the log
\* of a one-off change has a record, the exit of a context deletes a log that
\* has none, and nothing removes a record from a closed log.
THEOREM NoEmptyLog == Spec => []NoEmptyDraftLog
<1>1. LogInv => NoEmptyDraftLog
    BY DEF LogInv
<1> QED
    BY <1>1, LogInvariance, PTL

\* However contexts are nested, aborted or left, and whatever is published or
\* reset meanwhile: a transaction only adds to the committed history.  The
\* records it rewrites are those of logs that no one else has seen.
THEOREM HistoryImmutable == Spec => CommittedHistoryImmutable
<1>1. TypeInv /\ LogInv /\ [Next]_vars =>
        [\A e \in Entities :
            /\ committed.draft.recs[e] \subseteq committed'.draft.recs[e]
            /\ committed.published.recs[e] \subseteq committed'.published.recs[e]]_vars
    BY NextType, NextLogInv DEF KeepsCommitted, Keeps
<1> QED
    BY <1>1, LogInvariance, PTL DEF Spec, CommittedHistoryImmutable

-----------------------------------------------------------------------------
(* The records of one entity.                                              *)

\* Records that replay, in primary key order, to a version and the record of
\* a log.
Replays(recs, version, rec) ==
    /\ \A r, q \in recs : r.pk = q.pk \/ r.log = q.log => r = q
    /\ recs = {} => version = 0
    /\ \A r \in recs :
        /\ (\A q \in recs : r.pk <= q.pk) => r.old = 0
        /\ \A q \in recs :
            q.pk < r.pk /\ (\A x \in recs : x.pk < r.pk => x.pk <= q.pk) => r.old = q.new
        /\ (\A q \in recs : q.pk <= r.pk) => rec = r.log /\ version = r.new

\* A record that joins last and starts from the version they replay to.
LEMMA AddLast ==
    ASSUME NEW recs, \A r \in recs : RecordOK(r), NEW version, NEW rec,
           Replays(recs, version, rec), NEW x, RecordOK(x), x.old = version,
           \A r \in recs : r.pk < x.pk /\ r.log # x.log
    PROVE  Replays(recs \cup {x}, x.new, x.log)
<1> DEFINE all == recs \cup {x}
<1>1. \A r, q \in all : r.pk = q.pk \/ r.log = q.log => r = q
    BY DEF Replays, RecordOK
<1>2. ASSUME NEW r \in recs
      PROVE  /\ (\A q \in all : r.pk <= q.pk) => r.old = 0
             /\ \A q \in all :
                q.pk < r.pk /\ (\A y \in all : y.pk < r.pk => y.pk <= q.pk) => r.old = q.new
             /\ ~ \A q \in all : q.pk <= r.pk
    <2>1. r.pk < x.pk /\ r.pk \in Nat /\ x.pk \in Nat
        BY DEF RecordOK
    <2>2. ~ x.pk <= r.pk /\ ~ x.pk < r.pk
        BY <2>1
    <2> QED
        BY <2>2 DEF Replays
<1>3. (\A q \in all : x.pk <= q.pk) => x.old = 0
    <2>1. \A q \in recs : ~ x.pk <= q.pk
        BY DEF RecordOK
    <2> QED
        BY <2>1 DEF Replays
<1>4. ASSUME NEW q \in all, q.pk < x.pk, \A y \in all : y.pk < x.pk => y.pk <= q.pk
      PROVE  x.old = q.new
    <2>1. q \in recs
        BY <1>4 DEF RecordOK
    <2>2. \A y \in recs : y.pk <= q.pk
        BY <1>4
    <2> QED
        BY <2>1, <2>2 DEF Replays
<1> QED
    BY <1>1, <1>2, <1>3, <1>4 DEF Replays

\* Without the last record the others replay to where it started.
LEMMA DropLast ==
    ASSUME NEW recs, \A r \in recs : RecordOK(r), NEW version, NEW rec,
           Replays(recs, version, rec), NEW m \in recs, \A q \in recs : q.pk <= m.pk
    PROVE  Replays(recs \ {m}, m.old, LogRecordAfter(recs \ {m}, m.log))
<1> DEFINE rest == recs \ {m}
<1>1. \A r \in rest : r.pk < m.pk /\ r.log # m.log
    BY DEF Replays, RecordOK
<1>2. rest = {} => m.old = 0
    <2>1. rest = {} => \A q \in recs : m.pk <= q.pk
        BY DEF RecordOK
    <2> QED
        BY <2>1 DEF Replays
<1>3. ASSUME NEW r \in rest
      PROVE  /\ (\A q \in rest : r.pk <= q.pk) => r.old = 0
             /\ \A q \in rest :
                q.pk < r.pk /\ (\A y \in rest : y.pk < r.pk => y.pk <= q.pk) => r.old = q.new
    <2>1. r.pk < m.pk /\ r.pk \in Nat /\ m.pk \in Nat
        BY <1>1 DEF RecordOK
    <2>2. r.pk <= m.pk /\ ~ m.pk < r.pk
        BY <2>1
    <2> QED
        BY <2>2 DEF Replays
<1>4. ASSUME NEW r \in rest, \A q \in rest : q.pk <= r.pk
      PROVE  LogRecordAfter(rest, m.log) = r.log /\ m.old = r.new
    <2>1. m.old = r.new
        <3>1. \A y \in recs : y.pk < m.pk => y.pk <= r.pk
            BY <1>4 DEF RecordOK
        <3> QED
            BY <1>1, <3>1 DEF Replays
    <2> DEFINE top == CHOOSE y \in rest : \A q \in rest : q.pk <= y.pk
    <2>2. top \in rest /\ \A q \in rest : q.pk <= top.pk
        BY <1>4
    <2> HIDE DEF top
    <2>3. top.pk = r.pk
        BY <1>4, <2>2 DEF RecordOK
    <2>4. top = r
        BY <2>2, <2>3 DEF Replays
    <2>5. LogRecordAfter(rest, m.log) = top.log
        BY <1>1, <1>4 DEF LogRecordAfter, InLog, top
    <2> QED
        BY <2>1, <2>4, <2>5
<1> QED
    BY <1>2, <1>3, <1>4 DEF Replays

\* A change may join a log: its record there is the last one, or will be.
CanAdd(recs, log, pk) ==
    \A r \in recs : IF r.log = log THEN \A q \in recs : q.pk <= r.pk ELSE r.pk < pk

\* One change of an entity, collapsed with an earlier one of its log or not.
LEMMA ChangeReplays ==
    ASSUME NEW recs, \A r \in recs : RecordOK(r), NEW version \in Nat, NEW rec,
           Replays(recs, version, rec), NEW log \in Nat, NEW pk \in Nat,
           CanAdd(recs, log, pk), NEW new \in Nat, new # version
    PROVE  LET after == AddToChangeLog(recs, log, pk, version, new)
           IN  Replays(after, new, LogRecordAfter(after, log))
<1> DEFINE after == AddToChangeLog(recs, log, pk, version, new)
           mine == {r \in recs : r.log = log}
<1>1. CASE mine = {}
    <2> DEFINE x == Record(pk, log, version, new, FALSE, {})
    <2>1. after = recs \cup {x}
        BY <1>1 DEF AddToChangeLog
    <2>2. /\ x.pk = pk /\ x.log = log /\ x.old = version /\ x.new = new
          /\ x.direct = FALSE
        BY DEF Record
    <2> HIDE DEF x
    <2>3. RecordOK(x)
        BY <2>2 DEF RecordOK
    <2>4. \A r \in recs : r.pk < x.pk /\ r.log # x.log
        BY <1>1, <2>2 DEF CanAdd
    <2>5. Replays(recs \cup {x}, x.new, x.log)
        BY <2>2, <2>3, <2>4, AddLast
    <2>6. LogRecordAfter(recs \cup {x}, log) = log
        BY <2>2 DEF LogRecordAfter, InLog
    <2> QED
        BY <2>1, <2>2, <2>5, <2>6
<1>2. CASE mine # {}
    <2>1. PICK m \in recs : m.log = log
        BY <1>2
    <2>2. mine = {m}
        BY <2>1 DEF Replays
    <2>3. \A q \in recs : q.pk <= m.pk
        BY <2>1 DEF CanAdd
    <2>4. Replays(recs \ {m}, m.old, LogRecordAfter(recs \ {m}, m.log))
        BY <2>3, DropLast
    <2>5. CASE m.old = new
        <3>1. after = recs \ {m}
            BY <2>2, <2>5 DEF AddToChangeLog
        <3> QED
            BY <2>1, <2>4, <2>5, <3>1
    <2>6. CASE m.old # new
        <3> DEFINE x == Record(m.pk, log, m.old, new, FALSE, m.digest)
        <3>1. after = (recs \ {m}) \cup {x}
            BY <2>2, <2>6 DEF AddToChangeLog
        <3>2. /\ x.pk = m.pk /\ x.log = log /\ x.old = m.old /\ x.new = new
              /\ x.direct = FALSE
            BY DEF Record
        <3> HIDE DEF x
        <3>3. RecordOK(x)
            BY <3>2 DEF RecordOK
        <3>4. \A r \in recs \ {m} : r.pk < x.pk /\ r.log # x.log
            BY <2>1, <2>3, <3>2 DEF Replays, RecordOK
        <3>5. Replays((recs \ {m}) \cup {x}, x.new, x.log)
            BY <2>4, <3>2, <3>3, <3>4, AddLast
        <3>6. LogRecordAfter((recs \ {m}) \cup {x}, log) = log
            BY <3>2 DEF LogRecordAfter, InLog
        <3> QED
            BY <3>1, <3>2, <3>5, <3>6
    <2> QED
        BY <2>5, <2>6
<1> QED
    BY <1>1, <1>2

-----------------------------------------------------------------------------
(* The records of a branch.                                                *)

BranchReplays(b) ==
    \A e \in Entities : Replays(b.recs[e], VersionOf(b.rows, e), LogRecordOf(b.rows, e))

\* A row with a version and a log record.
LEMMA RowValues ==
    ASSUME NEW rows, NEW e, NEW version \in Nat, NEW rec \in Nat,
           rows[e] = [version |-> version, rec |-> rec]
    PROVE  VersionOf(rows, e) = version /\ LogRecordOf(rows, e) = rec
<1>1. [version |-> version, rec |-> rec] \in Row
    BY DEF Row
<1>2. rows[e] # NoRow
    BY <1>1, ConstantsAssumption
<1> QED
    BY <1>2 DEF VersionOf, LogRecordOf

\* Moving drafts keeps the branch replaying.
LEMMA SetVersionsReplay ==
    ASSUME BranchOK(draft), NEW n \in Nat, PkBound(draft, n), BranchReplays(draft),
           NEW target, IsTarget(target), NEW log \in Nat, NEW pk \in Nat, pk <= n,
           \A e \in DOMAIN target :
               VersionOf(draft.rows, e) # target[e] => CanAdd(draft.recs[e], log, pk)
    PROVE  BranchReplays(SetVersions(target, log, pk))
<1> DEFINE changing == {e \in DOMAIN target : VersionOf(draft.rows, e) # target[e]}
           added(e) == AddToChangeLog(draft.recs[e], log, pk,
                                      VersionOf(draft.rows, e), target[e])
           recs == [e \in Entities |->
                       IF e \in changing THEN added(e) ELSE draft.recs[e]]
           b == SetVersions(target, log, pk)
<1>1. /\ b.recs = recs
      /\ b.rows = [e \in Entities |->
                       IF e \in changing
                       THEN [version |-> target[e], rec |-> LogRecordAfter(recs[e], log)]
                       ELSE IF e \in DOMAIN target /\ draft.rows[e] = NoRow
                       THEN [version |-> 0, rec |-> 0]
                       ELSE draft.rows[e]]
    BY DEF SetVersions
<1>2. BranchOK(b) /\ PkBound(b, n)
    BY SetVersionsKeepBranch
<1> HIDE DEF b
<1> SUFFICES ASSUME NEW e \in Entities
             PROVE  Replays(b.recs[e], VersionOf(b.rows, e), LogRecordOf(b.rows, e))
    BY DEF BranchReplays, b
<1>3. CASE e \in changing
    <2> DEFINE rec == LogRecordAfter(recs[e], log)
    <2>1. recs[e] = added(e)
        BY <1>3
    <2>2. \A r \in recs[e] : RecordOK(r) /\ r.pk <= n
        BY <1>1, <1>2 DEF BranchOK, PkBound
    <2>3. target[e] \in Nat /\ VersionOf(draft.rows, e) \in Nat
        BY <1>3, VersionType DEF IsTarget
    <2>4. \A r \in draft.recs[e] : RecordOK(r)
        BY DEF BranchOK
    <2>5. Replays(draft.recs[e], VersionOf(draft.rows, e), LogRecordOf(draft.rows, e))
        BY DEF BranchReplays
    <2>6. VersionOf(draft.rows, e) # target[e] /\ CanAdd(draft.recs[e], log, pk)
        BY <1>3
    <2> HIDE DEF recs
    <2>7. Replays(added(e), target[e], LogRecordAfter(added(e), log))
        BY <2>3, <2>4, <2>5, <2>6, ChangeReplays
    <2>8. rec \in Nat
        BY <2>2, LogRecordAfterType
    <2> DEFINE version == target[e]
    <2>9. b.rows[e] = [version |-> version, rec |-> rec] /\ version \in Nat
        BY <1>1, <1>3, <2>3
    <2> HIDE DEF rec, added, version
    <2>10. VersionOf(b.rows, e) = version /\ LogRecordOf(b.rows, e) = rec
        BY <2>8, <2>9, RowValues
    <2> QED
        BY <1>1, <2>1, <2>7, <2>10 DEF rec, version
<1>4. CASE e \notin changing
    <2>1. b.recs[e] = draft.recs[e]
        BY <1>1, <1>4
    <2>2. /\ VersionOf(b.rows, e) = VersionOf(draft.rows, e)
          /\ LogRecordOf(b.rows, e) = LogRecordOf(draft.rows, e)
        <3>1. CASE e \in DOMAIN target /\ draft.rows[e] = NoRow
            <4>1. b.rows[e] = [version |-> 0, rec |-> 0]
                BY <1>1, <1>4, <3>1
            <4>2. VersionOf(b.rows, e) = 0 /\ LogRecordOf(b.rows, e) = 0
                BY <4>1, RowValues
            <4> QED
                BY <3>1, <4>2 DEF VersionOf, LogRecordOf
        <3>2. CASE ~ (e \in DOMAIN target /\ draft.rows[e] = NoRow)
            <4>1. b.rows[e] = draft.rows[e]
                BY <1>1, <1>4, <3>2
            <4> QED
                BY <4>1 DEF VersionOf, LogRecordOf
        <3> QED
            BY <3>1, <3>2
    <2> QED
        BY <2>1, <2>2 DEF BranchReplays
<1> QED
    BY <1>3, <1>4

\* The branch with the records of a log's side effects, before their digests.
SideRecord(b, e, log, pk) ==
    Record(pk, log, VersionOf(b.rows, e), VersionOf(b.rows, e), FALSE, {})

Unhashed(vs, b, log, pk) ==
    [rows |-> [e \in Entities |->
                IF e \in AffectedByLog(vs, b, log)
                THEN [version |-> VersionOf(b.rows, e), rec |-> log] ELSE b.rows[e]],
     recs |-> [e \in Entities |->
                IF e \in AffectedByLog(vs, b, log) /\ ~ InLog(b.recs[e], log)
                THEN b.recs[e] \cup {SideRecord(b, e, log, pk)} ELSE b.recs[e]]]

LEMMA HashedSideEffects ==
    ASSUME NEW vs, NEW b, NEW log, NEW pk
    PROVE  CreateSideEffects(vs, b, log, pk) =
                UpdateDependenciesHashDigests(vs, Unhashed(vs, b, log, pk), log)
<1> DEFINE changed  == {e \in Entities : InLog(b.recs[e], log)}
           affected == Ancestors(CurrentDependencies(vs, b.rows), changed)
           recs == [e \in Entities |->
                       IF e \in affected \ changed
                       THEN b.recs[e] \cup {SideRecord(b, e, log, pk)} ELSE b.recs[e]]
           rows == [e \in Entities |->
                       IF e \in affected
                       THEN [version |-> VersionOf(b.rows, e), rec |-> log]
                       ELSE b.rows[e]]
<1>1. CreateSideEffects(vs, b, log, pk) =
        UpdateDependenciesHashDigests(vs, [rows |-> rows, recs |-> recs], log)
    BY DEF CreateSideEffects, SideRecord
<1>2. affected = AffectedByLog(vs, b, log)
    BY DEF AffectedByLog
<1> HIDE DEF affected
<1>3. recs = Unhashed(vs, b, log, pk).recs
    BY <1>2 DEF Unhashed
<1>4. rows = Unhashed(vs, b, log, pk).rows
    BY <1>2 DEF Unhashed
<1>5. [rows |-> rows, recs |-> recs] = Unhashed(vs, b, log, pk)
    BY <1>3, <1>4 DEF Unhashed
<1> QED
    BY <1>1, <1>5

\* New digests make no difference to a replay.
LEMMA DigestsReplay ==
    ASSUME NEW vs, NEW b, NEW log, BranchReplays(b)
    PROVE  BranchReplays(UpdateDependenciesHashDigests(vs, b, log))
<1> DEFINE a == UpdateDependenciesHashDigests(vs, b, log)
           digests == HashDigests(vs, b, log)
<1>1. /\ a.rows = b.rows
      /\ \A e \in Entities :
           /\ \A x \in a.recs[e] : \E r \in b.recs[e] : SameRecord(x, r)
           /\ \A r \in b.recs[e] : \E x \in a.recs[e] : SameRecord(x, r)
    BY DigestsMembers
<1>2. \A e \in Entities :
        a.recs[e] = {IF r.log = log
                     THEN Record(r.pk, log, r.old, r.new, r.direct,
                                 DependencyState(vs, b, digests, e, r.new))
                     ELSE r : r \in b.recs[e]}
    BY DEF UpdateDependenciesHashDigests
<1> HIDE DEF a, digests
<1> SUFFICES ASSUME NEW e \in Entities
             PROVE  Replays(a.recs[e], VersionOf(a.rows, e), LogRecordOf(a.rows, e))
    BY DEF BranchReplays, a
<1> DEFINE before == b.recs[e]
           after == a.recs[e]
           version == VersionOf(b.rows, e)
           rec == LogRecordOf(b.rows, e)
<1>3. Replays(before, version, rec)
    BY DEF BranchReplays
<1>4. /\ \A x \in after : \E r \in before : SameRecord(x, r)
      /\ \A r \in before : \E x \in after : SameRecord(x, r)
    BY <1>1
<1>5. \A x, y \in after : x.pk = y.pk \/ x.log = y.log => x = y
    <2> SUFFICES ASSUME NEW x \in after, NEW y \in after, x.pk = y.pk \/ x.log = y.log
                 PROVE  x = y
        OBVIOUS
    <2> DEFINE refreshed(r) ==
                IF r.log = log
                THEN Record(r.pk, log, r.old, r.new, r.direct,
                            DependencyState(vs, b, digests, e, r.new))
                ELSE r
    <2>1. \A r : refreshed(r).pk = r.pk /\ refreshed(r).log = r.log
        BY DEF Record
    <2>2. after = {refreshed(r) : r \in before}
        BY <1>2
    <2> HIDE DEF refreshed, after
    <2>3. PICK r \in before : x = refreshed(r)
        BY <2>2
    <2>4. PICK q \in before : y = refreshed(q)
        BY <2>2
    <2>5. r.pk = q.pk \/ r.log = q.log
        BY <2>1, <2>3, <2>4
    <2> QED
        BY <1>3, <2>3, <2>4, <2>5 DEF Replays
<1> HIDE DEF before, after, version, rec
<1>6. Replays(after, version, rec)
    <2>1. after = {} => version = 0
        BY <1>3, <1>4 DEF Replays
    <2>2. ASSUME NEW x \in after
          PROVE  /\ (\A q \in after : x.pk <= q.pk) => x.old = 0
                 /\ \A q \in after :
                     q.pk < x.pk /\ (\A y \in after : y.pk < x.pk => y.pk <= q.pk)
                        => x.old = q.new
                 /\ (\A q \in after : q.pk <= x.pk) => rec = x.log /\ version = x.new
        <3>1. PICK r \in before : SameRecord(x, r)
            BY <1>4
        <3>2. (\A q \in after : x.pk <= q.pk) => \A q \in before : r.pk <= q.pk
            BY <1>4, <3>1 DEF SameRecord
        <3>3. (\A q \in after : q.pk <= x.pk) => \A q \in before : q.pk <= r.pk
            BY <1>4, <3>1 DEF SameRecord
        <3>4. ASSUME NEW q \in after, q.pk < x.pk, \A y \in after : y.pk < x.pk => y.pk <= q.pk
              PROVE  x.old = q.new
            <4>1. PICK s \in before : SameRecord(q, s)
                BY <1>4
            <4>2. s.pk < r.pk /\ \A y \in before : y.pk < r.pk => y.pk <= s.pk
                BY <1>4, <3>1, <3>4, <4>1 DEF SameRecord
            <4> QED
                BY <1>3, <3>1, <4>1, <4>2 DEF Replays, SameRecord
        <3> QED
            BY <1>3, <3>1, <3>2, <3>3, <3>4 DEF Replays, SameRecord
    <2> QED
        BY <1>5, <2>1, <2>2 DEF Replays
<1> QED
    BY <1>1, <1>6 DEF before, after, version, rec

\* Side effects keep the branch replaying, if the log is the last of each
\* entity it reaches.
LEMMA UnhashedReplays ==
    ASSUME NEW vs, NEW b, BranchOK(b), BranchReplays(b), NEW log \in Nat, NEW pk \in Nat,
           \A e \in AffectedByLog(vs, b, log) : CanAdd(b.recs[e], log, pk)
    PROVE  BranchReplays(Unhashed(vs, b, log, pk))
<1> DEFINE c == Unhashed(vs, b, log, pk)
           affected == AffectedByLog(vs, b, log)
<1>1. /\ c.rows = [e \in Entities |->
                    IF e \in affected
                    THEN [version |-> VersionOf(b.rows, e), rec |-> log] ELSE b.rows[e]]
      /\ c.recs = [e \in Entities |->
                    IF e \in affected /\ ~ InLog(b.recs[e], log)
                    THEN b.recs[e] \cup {SideRecord(b, e, log, pk)} ELSE b.recs[e]]
    BY DEF Unhashed
<1> HIDE DEF c, affected
<1>2. ASSUME NEW e \in Entities
      PROVE  Replays(c.recs[e], VersionOf(c.rows, e), LogRecordOf(c.rows, e))
    <2> DEFINE version == VersionOf(b.rows, e)
               rec == LogRecordOf(b.rows, e)
               recs == b.recs[e]
    <2>1. Replays(recs, version, rec) /\ \A r \in recs : RecordOK(r)
        BY DEF BranchReplays, BranchOK
    <2>2. version \in Nat
        BY VersionType
    <2>3. CASE e \notin affected
        <3>1. c.recs[e] = recs /\ c.rows[e] = b.rows[e]
            BY <1>1, <2>3
        <3> QED
            BY <2>1, <3>1 DEF VersionOf, LogRecordOf
    <2>4. CASE e \in affected
        <3>1. c.rows[e] = [version |-> version, rec |-> log]
            BY <1>1, <2>4
        <3>2. CanAdd(recs, log, pk)
            BY <2>4 DEF affected
        <3> HIDE DEF version, recs, rec
        <3>3. VersionOf(c.rows, e) = version /\ LogRecordOf(c.rows, e) = log
            BY <2>2, <3>1, RowValues
        <3>4. CASE InLog(recs, log)
            <4>1. c.recs[e] = recs
                BY <1>1, <3>4 DEF recs
            <4>2. rec = log
                BY <2>1, <3>2, <3>4 DEF InLog, CanAdd, Replays
            <4> QED
                BY <2>1, <3>3, <4>1, <4>2
        <3>5. CASE ~ InLog(recs, log)
            <4> DEFINE x == SideRecord(b, e, log, pk)
            <4>1. /\ x.pk = pk /\ x.log = log /\ x.direct = FALSE
                  /\ x.old = version /\ x.new = version
                BY DEF SideRecord, Record, version
            <4> HIDE DEF x
            <4>2. RecordOK(x)
                BY <2>2, <4>1 DEF RecordOK
            <4>3. \A r \in recs : r.pk < x.pk /\ r.log # x.log
                BY <3>2, <3>5, <4>1 DEF CanAdd, InLog
            <4>4. Replays(recs \cup {x}, x.new, x.log)
                BY <2>1, <4>1, <4>2, <4>3, AddLast
            <4>5. c.recs[e] = recs \cup {x}
                BY <1>1, <2>4, <3>5 DEF recs, x
            <4> QED
                BY <3>3, <4>1, <4>4, <4>5
        <3> QED
            BY <3>4, <3>5
    <2> QED
        BY <2>3, <2>4
<1> QED
    BY <1>2 DEF BranchReplays, c

LEMMA SideEffectsReplay ==
    ASSUME NEW vs, NEW b, BranchOK(b), BranchReplays(b), NEW log \in Nat, NEW pk \in Nat,
           \A e \in AffectedByLog(vs, b, log) : CanAdd(b.recs[e], log, pk)
    PROVE  BranchReplays(CreateSideEffects(vs, b, log, pk))
    BY UnhashedReplays, DigestsReplay, HashedSideEffects

\* A publish continues the history of what it publishes.
LEMMA PublishedAfterReplay ==
    ASSUME BranchOK(draft), BranchOK(published), BranchReplays(published),
           NEW direct, NEW all, NEW log \in Nat,
           \A e \in Entities : \A r \in published.recs[e] : r.pk < log /\ r.log < log
    PROVE  BranchReplays(PublishedAfter(direct, all, log))
<1> DEFINE b == PublishedAfter(direct, all, log)
           new(e) == Record(log, log, VersionOf(published.rows, e),
                            VersionOf(draft.rows, e), e \in direct, {})
<1>1. /\ b.rows = [e \in Entities |->
                    IF e \in all
                    THEN [version |-> VersionOf(draft.rows, e), rec |-> log]
                    ELSE published.rows[e]]
      /\ b.recs = [e \in Entities |->
                    IF e \in all THEN published.recs[e] \cup {new(e)}
                    ELSE published.recs[e]]
    BY DEF PublishedAfter
<1> HIDE DEF b
<1> SUFFICES ASSUME NEW e \in Entities
             PROVE  Replays(b.recs[e], VersionOf(b.rows, e), LogRecordOf(b.rows, e))
    BY DEF BranchReplays, b
<1>2. /\ Replays(published.recs[e], VersionOf(published.rows, e), LogRecordOf(published.rows, e))
      /\ \A r \in published.recs[e] : RecordOK(r)
      /\ VersionOf(published.rows, e) \in Nat /\ VersionOf(draft.rows, e) \in Nat
    BY VersionType DEF BranchReplays, BranchOK
<1>3. CASE e \notin all
    <2>1. b.recs[e] = published.recs[e] /\ b.rows[e] = published.rows[e]
        BY <1>1, <1>3
    <2> QED
        BY <1>2, <2>1 DEF VersionOf, LogRecordOf
<1>4. CASE e \in all
    <2> DEFINE x == new(e)
               version == VersionOf(draft.rows, e)
    <2>1. /\ x.pk = log /\ x.log = log /\ x.direct \in BOOLEAN
          /\ x.old = VersionOf(published.rows, e) /\ x.new = version
        BY DEF Record
    <2>2. b.recs[e] = published.recs[e] \cup {x} /\ b.rows[e] = [version |-> version, rec |-> log]
        BY <1>1, <1>4
    <2> HIDE DEF new, version
    <2>3. RecordOK(x)
        BY <1>2, <2>1 DEF RecordOK, version
    <2>4. \A r \in published.recs[e] : r.pk < x.pk /\ r.log # x.log
        BY <2>1, <1>2 DEF RecordOK
    <2>5. Replays(published.recs[e] \cup {x}, x.new, x.log)
        BY <1>2, <2>1, <2>3, <2>4, AddLast
    <2>6. version \in Nat
        BY <1>2 DEF version
    <2>7. b.rows[e] = [version |-> version, rec |-> log]
        BY <2>2
    <2>8. VersionOf(b.rows, e) = version /\ LogRecordOf(b.rows, e) = log
        BY <2>6, <2>7, RowValues
    <2> QED
        BY <2>1, <2>2, <2>5, <2>8
<1> QED
    BY <1>3, <1>4

-----------------------------------------------------------------------------
(* A log that is the last of its entities.                                 *)

\* Every record of the log was created after every other record.
LogLast(recs, log) == \A r \in recs : IF r.log = log THEN log <= r.pk ELSE r.pk < log

LogLastIn(b, log, p) ==
    \A e \in Entities : PackageOf[e] = p => LogLast(b.recs[e], log)

\* Changes may join such a log, and it stays the last.
LEMMA LogLastCanAdd ==
    ASSUME NEW recs, \A r \in recs : RecordOK(r), NEW log \in Nat, LogLast(recs, log),
           \A r, q \in recs : r.log = q.log => r = q, NEW pk \in Nat, log <= pk
    PROVE  CanAdd(recs, log, pk)
<1> SUFFICES ASSUME NEW r \in recs
             PROVE  IF r.log = log THEN \A q \in recs : q.pk <= r.pk ELSE r.pk < pk
    BY DEF CanAdd
<1>1. \A q \in recs : q.pk \in Nat
    BY DEF RecordOK
<1>2. CASE r.log # log
    BY <1>1, <1>2 DEF LogLast
<1>3. CASE r.log = log
    <2>1. ASSUME NEW q \in recs
          PROVE  q.pk <= r.pk
        <3>1. CASE q.log = log
            BY <1>1, <1>3, <3>1
        <3>2. CASE q.log # log
            BY <1>1, <1>3, <3>2 DEF LogLast
        <3> QED
            BY <3>1, <3>2
    <2> QED
        BY <1>3, <2>1
<1> QED
    BY <1>2, <1>3

LEMMA ChangeKeepsLogLast ==
    ASSUME NEW recs, NEW log, LogLast(recs, log), NEW pk, log <= pk, NEW old, NEW new
    PROVE  LogLast(AddToChangeLog(recs, log, pk, old, new), log)
<1> SUFFICES ASSUME NEW x \in AddToChangeLog(recs, log, pk, old, new)
             PROVE  IF x.log = log THEN log <= x.pk ELSE x.pk < log
    BY DEF LogLast
<1>1. \/ x \in recs
      \/ x = Record(pk, log, old, new, FALSE, {})
      \/ \E r \in recs : /\ r.log = log
                         /\ x = Record(r.pk, log, r.old, new, FALSE, r.digest)
    BY AddToChangeLogMembers DEF Record
<1>2. CASE x \in recs
    BY <1>2 DEF LogLast
<1>3. CASE x = Record(pk, log, old, new, FALSE, {})
    BY <1>3 DEF Record
<1>4. CASE \E r \in recs : /\ r.log = log
                            /\ x = Record(r.pk, log, r.old, new, FALSE, r.digest)
    BY <1>4 DEF LogLast, Record
<1> QED
    BY <1>1, <1>2, <1>3, <1>4

\* Drafts of a package move in a log that is its last.
LEMMA SetVersionsInLastLog ==
    ASSUME TypeInv, LogInv, BranchReplays(draft), NEW p, NEW vs, NEW target,
           IsTargetOf(target, p, vs), NEW log \in Nat, NEW pk \in Nat, NEW n \in Nat,
           log <= pk, pk <= n, serial <= n, LogLastIn(draft, log, p)
    PROVE  LET b == SetVersions(target, log, pk)
           IN  BranchReplays(b) /\ LogLastIn(b, log, p)
<1> DEFINE b == SetVersions(target, log, pk)
<1>1. PkBound(draft, n) /\ BranchOK(draft) /\ IsTarget(target)
    BY TypeInvTables, PkBoundGrows DEF IsTargetOf
<1>2. ASSUME NEW e \in DOMAIN target
      PROVE  CanAdd(draft.recs[e], log, pk)
    <2> DEFINE recs == draft.recs[e]
    <2>1. LogLast(recs, log) /\ e \in Entities
        BY DEF IsTargetOf, IsTarget, LogLastIn
    <2>2. \A r \in recs : RecordOK(r)
        BY <1>1, <2>1 DEF BranchOK
    <2>3. \A r, q \in recs : r.log = q.log => r = q
        BY <2>1 DEF BranchReplays, Replays
    <2> HIDE DEF recs
    <2>4. CanAdd(recs, log, pk)
        BY <2>1, <2>2, <2>3, LogLastCanAdd
    <2> QED
        BY <2>4 DEF recs
<1>3. BranchReplays(b)
    BY <1>1, <1>2, SetVersionsReplay
<1>4. ASSUME NEW e \in Entities, PackageOf[e] = p
      PROVE  LogLast(b.recs[e], log)
    <2>1. LogLast(draft.recs[e], log)
        BY <1>4 DEF LogLastIn
    <2>2. \/ b.recs[e] = draft.recs[e]
          \/ b.recs[e] = AddToChangeLog(draft.recs[e], log, pk,
                                        VersionOf(draft.rows, e), target[e])
        BY DEF SetVersions
    <2> HIDE DEF b
    <2> QED
        BY <2>1, <2>2, ChangeKeepsLogLast
<1>5. LogLastIn(b, log, p)
    BY <1>4 DEF LogLastIn
<1> QED
    BY <1>3, <1>5

\* ... and the side effects join it.
LEMMA SideEffectsCanAdd ==
    ASSUME NEW vs, vs \in [Entities -> Seq(SUBSET Entities)], OwnDependencies(vs),
           NEW b, BranchOK(b), BranchReplays(b), RowsHaveVersions(vs, b),
           NEW log \in Nat, NEW p, LogOfPackage(b, log, p), LogLastIn(b, log, p),
           NEW pk \in Nat, log <= pk
    PROVE  \A e \in AffectedByLog(vs, b, log) :
                e \in Entities /\ PackageOf[e] = p /\ CanAdd(b.recs[e], log, pk)
<1> SUFFICES ASSUME NEW e \in AffectedByLog(vs, b, log)
             PROVE  e \in Entities /\ PackageOf[e] = p /\ CanAdd(b.recs[e], log, pk)
    OBVIOUS
<1>1. PackageOf[e] = p
    BY AffectedByLogOwnPackage DEF LogOfPackage
<1>2. e \in Entities
    BY DEF AffectedByLog, Ancestors, CurrentDependencies
<1> DEFINE recs == b.recs[e]
<1>3. /\ LogLast(recs, log) /\ \A r \in recs : RecordOK(r)
      /\ \A r, q \in recs : r.log = q.log => r = q
    BY <1>1, <1>2 DEF LogLastIn, BranchOK, BranchReplays, Replays
<1> HIDE DEF recs
<1>4. CanAdd(recs, log, pk)
    BY <1>3, LogLastCanAdd
<1> QED
    BY <1>1, <1>2, <1>4 DEF recs

LEMMA SideEffectsInLastLog ==
    ASSUME NEW vs, vs \in [Entities -> Seq(SUBSET Entities)], OwnDependencies(vs),
           NEW b, BranchOK(b), BranchReplays(b), RowsHaveVersions(vs, b),
           NEW log \in Nat, NEW p, LogOfPackage(b, log, p), LogLastIn(b, log, p),
           NEW pk \in Nat, log <= pk
    PROVE  LET a == CreateSideEffects(vs, b, log, pk)
           IN  BranchReplays(a) /\ LogLastIn(a, log, p)
<1> DEFINE a == CreateSideEffects(vs, b, log, pk)
           affected == AffectedByLog(vs, b, log)
<1>2. \A e \in affected : CanAdd(b.recs[e], log, pk)
    BY SideEffectsCanAdd
<1>3. BranchReplays(a)
    BY <1>2, SideEffectsReplay
<1>4. WithSideEffects(a, b, log, pk, affected)
    BY SideEffectsMembers
<1> HIDE DEF a, affected
<1>5. LogLastIn(a, log, p)
    <2> SUFFICES ASSUME NEW e \in Entities, PackageOf[e] = p, NEW x \in a.recs[e]
                 PROVE  IF x.log = log THEN log <= x.pk ELSE x.pk < log
        BY DEF LogLastIn, LogLast
    <2>1. LogLast(b.recs[e], log)
        BY DEF LogLastIn
    <2> QED
        BY <1>4, <2>1 DEF WithSideEffects, SameRecord, LogLast
<1> QED
    BY <1>3, <1>5 DEF a

-----------------------------------------------------------------------------
(* The inductive invariant.                                                *)

DbReplays(db) ==
    /\ BranchReplays(db.draft)
    /\ BranchReplays(db.published)
    /\ PkBound(db.published, Len(db.publishLogs))

\* The open contexts are of different packages, and the log of each is the
\* last of its package.
OpenLogsInv ==
    \A i \in 1..Len(contexts) :
        /\ contexts[i].id > 0
        /\ \A j \in 1..Len(contexts) : i # j => contexts[i].package # contexts[j].package
        /\ LogLastIn(draft, contexts[i].id, contexts[i].package)

ReplayInv == DbReplays(Db) /\ DbReplays(committed) /\ OpenLogsInv

LEMMA ReplayInvTables ==
    ASSUME ReplayInv
    PROVE  /\ BranchReplays(draft) /\ BranchReplays(published)
           /\ PkBound(published, Len(publishLogs)) /\ OpenLogsInv
    BY DEF ReplayInv, DbReplays, Db

\* A package has one open context, or none.
LEMMA ActiveLogOfContext ==
    ASSUME TypeInv, OpenLogsInv, NEW i \in 1..Len(contexts)
    PROVE  ActiveLog(contexts[i].package) = contexts[i].id
<1> DEFINE p == contexts[i].package
           mine == {j \in 1..Len(contexts) : contexts[j].package = p}
           top == CHOOSE k \in mine : \A j \in mine : j <= k
<1>1. mine = {i}
    BY DEF OpenLogsInv
<1>2. i \in Nat
    BY TypeInvTables
<1>3. ActiveLog(p) = contexts[top].id
    BY <1>1 DEF ActiveLog
<1> HIDE DEF mine
<1>4. \E k \in mine : \A j \in mine : j <= k
    BY <1>1, <1>2
<1>5. top \in mine
    BY <1>4
<1> QED
    BY <1>1, <1>3, <1>5

\* Without an active log, no context of the package is open.
LEMMA NoContextOfPackage ==
    ASSUME TypeInv, OpenLogsInv, NEW p, ActiveLog(p) = 0
    PROVE  \A i \in 1..Len(contexts) : contexts[i].package # p
<1> SUFFICES ASSUME NEW i \in 1..Len(contexts), contexts[i].package = p
             PROVE  FALSE
    OBVIOUS
<1>1. contexts[i].id = 0
    BY ActiveLogOfContext
<1> QED
    BY <1>1 DEF OpenLogsInv

\* Changes in a log of one package are none to the others.
LEMMA OtherPackagesKept ==
    ASSUME NEW a, NEW b, NEW log, NEW p, OnlyLog(a, b, log),
           LogOfPackage(a, log, p), LogOfPackage(b, log, p)
    PROVE  \A e \in Entities : PackageOf[e] # p => \A x : x \in a.recs[e] <=> x \in b.recs[e]
<1> SUFFICES ASSUME NEW e \in Entities, PackageOf[e] # p, NEW x
             PROVE  x \in a.recs[e] <=> x \in b.recs[e]
    OBVIOUS
<1>1. CASE x.log = log
    BY <1>1 DEF LogOfPackage, InLog
<1>2. CASE x.log # log
    BY <1>2 DEF OnlyLog
<1> QED
    BY <1>1, <1>2

\* A log that no record of its package is in yet is the last of the package.
LEMMA NewLogIsLast ==
    ASSUME TypeInv, LogInv, NEW p
    PROVE  LogLastIn(draft, serial + 1, p)
<1>1. \A e \in Entities : ~ InLog(draft.recs[e], serial + 1)
    BY FreshLog
<1>2. \A e \in Entities : \A r \in draft.recs[e] : r.pk \in Nat /\ r.pk <= serial
    BY TypeInvTables DEF PkBound, BranchOK, RecordOK
<1>3. serial \in Nat
    BY TypeInvTables
<1> QED
    BY <1>1, <1>2, <1>3 DEF LogLastIn, LogLast, InLog

LEMMA OnCommitReplayInv ==
    ASSUME ReplayInv, DbReplays(Db)', OpenLogsInv', NEW new, OnCommit(new)
    PROVE  ReplayInv'
<1>1. committed' = Db' \/ committed' = committed
    BY DEF OnCommit
<1>2. DbReplays(committed)'
    BY <1>1 DEF ReplayInv, DbReplays
<1> QED
    BY <1>2 DEF ReplayInv

-----------------------------------------------------------------------------
(* Every operation keeps the branches replaying.                           *)

LEMMA ChangeInContextReplayInv ==
    ASSUME TypeInv, LogInv, ReplayInv, NEW p, NEW target,
           IsTargetOf(target, p, versions'), ChangeInContext(p, target)
    PROVE  ReplayInv'
<1> DEFINE log == ActiveLog(p)
           b == SetVersions(target, log, serial)
<1>1. /\ log # 0 \/ \A e \in DOMAIN target : VersionOf(draft.rows, e) = target[e]
      /\ draft' = b /\ OnCommit(<<>>)
      /\ UNCHANGED <<published, publishLogs, contexts>>
    BY DEF ChangeInContext
<1>2. /\ log \in Nat /\ serial \in Nat /\ BranchOK(draft) /\ PkBound(draft, serial)
      /\ IsTarget(target)
    BY TypeInvTables, ActiveLogType DEF IsTargetOf
<1>3. BranchReplays(b) /\ \A i \in 1..Len(contexts) :
                            LogLastIn(b, contexts[i].id, contexts[i].package)
    <2>1. CASE \E i \in 1..Len(contexts) : contexts[i].package = p /\ contexts[i].id = log
        <3>1. PICK i \in 1..Len(contexts) : contexts[i].package = p /\ contexts[i].id = log
            BY <2>1
        <3>2. LogLastIn(draft, log, p)
            BY <3>1, ReplayInvTables DEF OpenLogsInv
        <3>3. log <= serial
            BY <3>1, LogInvTables DEF ContextsInv, LogsIdentified
        <3> HIDE DEF log
        <3>4. BranchReplays(b) /\ LogLastIn(b, log, p)
            BY <1>2, <3>2, <3>3, ReplayInvTables, SetVersionsInLastLog
        <3>5. ASSUME NEW e \in Entities, PackageOf[e] # p
              PROVE  b.recs[e] = draft.recs[e]
            BY <3>5 DEF SetVersions, IsTargetOf
        <3> HIDE DEF b
        <3>6. ASSUME NEW j \in 1..Len(contexts)
              PROVE  LogLastIn(b, contexts[j].id, contexts[j].package)
            <4>1. CASE j = i
                BY <3>1, <3>4, <4>1
            <4>2. CASE j # i
                <5>1. contexts[j].package # p
                    BY <3>1, <4>2, ReplayInvTables DEF OpenLogsInv
                <5> QED
                    BY <3>5, <5>1, ReplayInvTables DEF OpenLogsInv, LogLastIn
            <4> QED
                BY <4>1, <4>2
        <3> QED
            BY <3>4, <3>6
    <2>2. CASE log = 0
        <3>1. \A e \in DOMAIN target : VersionOf(draft.rows, e) = target[e]
            BY <1>1, <2>2
        <3> HIDE DEF log
        <3>2. BranchReplays(b)
            BY <1>2, <3>1, ReplayInvTables, SetVersionsReplay
        <3>3. \A e \in Entities : b.recs[e] = draft.recs[e]
            BY <3>1, SetVersionsUnchanged
        <3> HIDE DEF b
        <3> QED
            BY <3>2, <3>3, ReplayInvTables DEF OpenLogsInv, LogLastIn
    <2> QED
        BY <2>1, <2>2, ActiveLogIsOpen
<1> HIDE DEF b, log
<1>4. DbReplays(Db)'
    BY <1>1, <1>3, ReplayInvTables DEF DbReplays, Db, PkBound
<1>5. OpenLogsInv'
    BY <1>1, <1>3, ReplayInvTables DEF OpenLogsInv
<1> QED
    BY <1>1, <1>4, <1>5, OnCommitReplayInv

\* A change of its own, before the side effects of its log.
OwnLogChange(b, log, p, vs) ==
    /\ BranchOK(b) /\ BranchReplays(b) /\ PkBound(b, log) /\ RowsHaveVersions(vs, b)
    /\ LogLastIn(b, log, p) /\ LogOfPackage(b, log, p) /\ OnlyLog(b, draft, log)

LEMMA ChangeOpensLog ==
    ASSUME TypeInv, LogInv, ReplayInv, NEW p, NEW vs, MoreVersions(vs), NEW target,
           IsTargetOf(target, p, vs)
    PROVE  LET log == serial + 1
           IN  /\ OwnLogChange(SetVersions(target, log, log), log, p, vs)
               /\ log \in Nat
               /\ \A e \in Entities : ~ InLog(draft.recs[e], log)
<1> DEFINE log == serial + 1
           b == SetVersions(target, log, log)
<1>1. log \in Nat /\ serial \in Nat /\ serial <= log /\ log <= log
    BY TypeInvTables
<1>2. /\ LogLastIn(draft, log, p) /\ LogOfPackage(draft, log, p)
      /\ \A e \in Entities : ~ InLog(draft.recs[e], log)
    BY NewLogIsLast, FreshLog DEF LogOfPackage
<1> HIDE DEF log
<1>3. BranchOK(draft) /\ PkBound(draft, log) /\ IsTarget(target)
    BY <1>1, TypeInvTables, PkBoundGrows DEF IsTargetOf
<1>4. BranchReplays(b) /\ LogLastIn(b, log, p)
    BY <1>1, <1>2, ReplayInvTables, SetVersionsInLastLog
<1>5. /\ BranchOK(b) /\ RowsHaveVersions(vs, b)
      /\ OnlyLog(b, draft, log) /\ LogOfPackage(b, log, p)
    BY <1>1, <1>2, SetVersionsStep
<1>6. PkBound(b, log)
    BY <1>1, <1>3, SetVersionsKeepBranch
<1> HIDE DEF b
<1> QED
    BY <1>1, <1>2, <1>4, <1>5, <1>6 DEF OwnLogChange, b, log

LEMMA ChangeInOwnLogReplayInv ==
    ASSUME TypeInv, LogInv, ReplayInv, NEW p, NEW target, MoreVersions(versions'),
           IsTargetOf(target, p, versions'), ChangeInOwnLog(versions', p, target)
    PROVE  ReplayInv' /\ LogLastIn(draft', serial', p)
<1> DEFINE log == serial + 1
           b == SetVersions(target, log, log)
           a == CreateSideEffects(versions', b, log, log)
<1>1. /\ draft' = a /\ serial' = log /\ ActiveLog(p) = 0
      /\ OnCommit(<<ChangeLogEvent("draft", draft', log)>>)
      /\ UNCHANGED <<published, publishLogs, contexts>>
    BY DEF ChangeInOwnLog
<1>2. /\ OwnLogChange(b, log, p, versions') /\ log \in Nat /\ log <= log
      /\ LogOfPackage(draft, log, p)
    BY ChangeOpensLog DEF LogOfPackage
<1> HIDE DEF log, b
<1>3. BranchReplays(a) /\ LogLastIn(a, log, p)
    BY <1>2, SideEffectsInLastLog DEF OwnLogChange, MoreVersions
<1>4. OnlyLog(a, b, log) /\ LogOfPackage(a, log, p)
    BY <1>2, SideEffectsStep DEF OwnLogChange, MoreVersions
<1> HIDE DEF a
<1>5. \A e \in Entities : PackageOf[e] # p => \A x : x \in a.recs[e] <=> x \in draft.recs[e]
    BY <1>2, <1>4, OnlyLogTransitive, OtherPackagesKept DEF OwnLogChange
<1>6. \A i \in 1..Len(contexts) : contexts[i].package # p
    BY <1>1, NoContextOfPackage, ReplayInvTables
<1>7. DbReplays(Db)'
    BY <1>1, <1>3, ReplayInvTables DEF DbReplays, Db, PkBound
<1>8. \A i \in 1..Len(contexts) : LogLastIn(a, contexts[i].id, contexts[i].package)
    BY <1>5, <1>6, ReplayInvTables DEF OpenLogsInv, LogLastIn, LogLast
<1>9. OpenLogsInv'
    BY <1>1, <1>8, ReplayInvTables DEF OpenLogsInv
<1> QED
    BY <1>1, <1>3, <1>7, <1>9, OnCommitReplayInv

LEMMA BulkEnterReplayInv ==
    ASSUME ~ Reentrant, TypeInv, LogInv, ReplayInv, NEW p \in Packages, BulkEnter(p)
    PROVE  ReplayInv'
<1> DEFINE l0 == [id |-> serial + 1, package |-> p]
<1>1. /\ contexts' = Append(contexts, l0) /\ ActiveLog(p) = 0
      /\ UNCHANGED <<draft, published, publishLogs, committed>>
    BY DEF BulkEnter
<1>2. l0.id = serial + 1 /\ l0.package = p /\ serial \in Nat
    BY TypeInvTables
<1> HIDE DEF l0
<1>3. /\ Len(contexts') = Len(contexts) + 1 /\ Len(contexts) \in Nat
      /\ \A i \in 1..Len(contexts) : contexts'[i] = contexts[i]
      /\ contexts'[Len(contexts) + 1] = l0
    BY <1>1, TypeInvTables
<1>4. LogLastIn(draft, serial + 1, p)
    BY NewLogIsLast
<1>5. \A i \in 1..Len(contexts) : contexts[i].package # p
    BY <1>1, NoContextOfPackage, ReplayInvTables
<1>6. \A i \in 1..Len(contexts') : i \in 1..Len(contexts) \/ i = Len(contexts) + 1
    BY <1>3
<1>7. ASSUME NEW i \in 1..Len(contexts')
      PROVE  /\ contexts'[i].id > 0
             /\ LogLastIn(draft, contexts'[i].id, contexts'[i].package)
    <2>1. CASE i \in 1..Len(contexts)
        BY <1>3, <2>1, ReplayInvTables DEF OpenLogsInv
    <2>2. CASE i = Len(contexts) + 1
        BY <1>2, <1>3, <1>4, <2>2
    <2> QED
        BY <1>6, <2>1, <2>2
<1>8. \A i, j \in 1..Len(contexts') : i # j => contexts'[i].package # contexts'[j].package
    BY <1>2, <1>3, <1>5, <1>6, ReplayInvTables DEF OpenLogsInv
<1>9. OpenLogsInv'
    BY <1>1, <1>7, <1>8 DEF OpenLogsInv, LogLastIn
<1>10. DbReplays(Db)' /\ DbReplays(committed)'
    BY <1>1 DEF ReplayInv, DbReplays, Db, BranchReplays, PkBound
<1> QED
    BY <1>9, <1>10 DEF ReplayInv

LEMMA BulkExitReplayInv ==
    ASSUME TypeInv, LogInv, ReplayInv, BulkExit
    PROVE  LET l0 == contexts[Len(contexts)]
           IN  ReplayInv' /\ LogLastIn(draft', l0.id, l0.package)
<1> DEFINE last == Len(contexts)
           l0 == contexts[last]
           a == CreateSideEffects(versions, draft, l0.id, serial')
<1>1. /\ contexts # <<>> /\ serial' = serial + 1 /\ draft' = a
      /\ contexts' = SubSeq(contexts, 1, last - 1)
      /\ UNCHANGED <<published, publishLogs>>
      /\ OnCommit(<<ChangeLogEvent("draft", draft', l0.id)>>)
    BY DEF BulkExit
<1>2. /\ serial \in Nat /\ serial' \in Nat /\ serial <= serial'
      /\ last \in 1..Len(contexts) /\ Len(contexts') = last - 1
      /\ \A i \in 1..Len(contexts') : i \in 1..Len(contexts) /\ i # last
                                      /\ contexts'[i] = contexts[i]
    <2>1. /\ serial \in Nat /\ contexts \in Seq(Log)
        BY TypeInvTables
    <2>2. last \in Nat /\ last \in 1..Len(contexts)
        BY <1>1, <2>1, EmptySeq
    <2>3. last - 1 \in Int /\ \A i \in 1..(last - 1) : contexts[i] \in Log
        BY <2>1, <2>2
    <2>4. /\ Len(contexts') = last - 1
          /\ \A i \in 1..(last - 1) : contexts'[i] = contexts[i]
        <3> HIDE DEF last
        <3> QED
            BY <1>1, <2>2, <2>3, SubSeqProperties
    <2> QED
        BY <1>1, <2>1, <2>2, <2>4
<1> HIDE DEF last
<1>3. l0 \in Log /\ l0 \in draftLogs /\ l0.id <= serial
    BY <1>2, TypeInvTables, LogInvTables DEF ContextsInv, LogsIdentified
<1>4. l0.id \in Nat /\ l0.id <= serial' /\ [id |-> l0.id, package |-> l0.package] = l0
    BY <1>2, <1>3 DEF Log
<1>5. LogLastIn(draft, l0.id, l0.package)
    BY <1>2, ReplayInvTables DEF OpenLogsInv
<1>6. \A i \in 1..Len(contexts') : contexts'[i].package # l0.package
    BY <1>2, ReplayInvTables DEF OpenLogsInv
<1>7. DEFINE id == l0.id
             p == l0.package
<1> HIDE DEF l0
<1>8. LogOfPackage(draft, id, p)
    <2>1. [id |-> id, package |-> p] \in draftLogs
        BY <1>3, <1>4
    <2> QED
        BY <2>1, LogInvTables, LogHasOnePackage
<1>9. OnlyLog(a, draft, id) /\ LogOfPackage(a, id, p)
    BY <1>2, <1>4, <1>8, TypeInvTables, LogInvTables, SideEffectsStep
<1>10. BranchReplays(a) /\ LogLastIn(a, id, p)
    BY <1>2, <1>4, <1>5, <1>8, TypeInvTables, LogInvTables, ReplayInvTables,
       SideEffectsInLastLog
<1> HIDE DEF a
<1>11. \A e \in Entities : PackageOf[e] # p => \A x : x \in a.recs[e] <=> x \in draft.recs[e]
    BY <1>8, <1>9, OtherPackagesKept
<1>12. \A i \in 1..Len(contexts') : LogLastIn(a, contexts'[i].id, contexts'[i].package)
    BY <1>2, <1>6, <1>11, ReplayInvTables DEF OpenLogsInv, LogLastIn, LogLast
<1>13. OpenLogsInv'
    BY <1>1, <1>2, <1>12, ReplayInvTables DEF OpenLogsInv
<1>14. DbReplays(Db)'
    BY <1>1, <1>10, ReplayInvTables DEF DbReplays, Db, PkBound
<1> QED
    BY <1>1, <1>10, <1>13, <1>14, OnCommitReplayInv DEF l0, last

LEMMA BulkAbortReplayInv ==
    ASSUME ReplayInv, BulkAbort
    PROVE  ReplayInv'
<1>1. /\ draft' = committed.draft /\ published' = committed.published
      /\ publishLogs' = committed.publishLogs /\ contexts' = <<>> /\ UNCHANGED committed
    BY DEF BulkAbort
<1>2. DbReplays(Db)' /\ DbReplays(committed)'
    BY <1>1 DEF ReplayInv, DbReplays, Db, BranchReplays, PkBound
<1>3. OpenLogsInv'
    BY <1>1 DEF OpenLogsInv
<1> QED
    BY <1>2, <1>3 DEF ReplayInv

\* What is published, before the side effects of its log.
LEMMA PublishedAfterStep ==
    ASSUME TypeInv, LogInv, BranchReplays(published), PkBound(published, Len(publishLogs)),
           NEW direct, NEW all
    PROVE  LET log == Len(publishLogs) + 1
               b   == PublishedAfter(direct, all, log)
           IN  /\ BranchOK(b) /\ BranchReplays(b) /\ PkBound(b, log)
               /\ RowsHaveVersions(versions, b)
               /\ \A e \in Entities : LogLast(b.recs[e], log)
               /\ \A e \in Entities : ~ InLog(published.recs[e], log)
               /\ log \in Nat
<1> DEFINE log == Len(publishLogs) + 1
           b == PublishedAfter(direct, all, log)
<1>1. log \in Nat /\ Len(publishLogs) \in Nat /\ Len(publishLogs) < log
    BY TypeInvTables
<1>2. \A e \in Entities : \A r \in published.recs[e] :
        /\ r.pk \in Nat /\ r.pk < log /\ r.log \in Nat /\ r.log < log
    BY <1>1, TypeInvTables, LogInvTables
    DEF PkBound, BranchOK, RecordOK, PublishRecordsLogged
<1> HIDE DEF log
<1>3. BranchOK(b)
    BY <1>1, TypeInvTables, PublishedAfterKeepsBranch
<1>4. BranchReplays(b)
    BY <1>1, <1>2, TypeInvTables, PublishedAfterReplay
<1>5. \A e \in Entities : \A x \in b.recs[e] :
        x \in published.recs[e] \/ (x.pk = log /\ x.log = log)
    BY DEF PublishedAfter, Record
<1>6. RowsHaveVersions(versions, b)
    <2> SUFFICES ASSUME NEW e \in Entities
                 PROVE  VersionOf(b.rows, e) <= Len(versions[e])
        BY DEF RowsHaveVersions
    <2>1. VersionOf(draft.rows, e) \in Nat
        BY VersionType, TypeInvTables
    <2>2. /\ VersionOf(draft.rows, e) <= Len(versions[e])
          /\ VersionOf(published.rows, e) <= Len(versions[e])
        BY LogInvTables DEF RowsHaveVersions
    <2>3. CASE e \in all
        <3> DEFINE version == VersionOf(draft.rows, e)
        <3>1. b.rows[e] = [version |-> version, rec |-> log]
            BY <2>3 DEF PublishedAfter
        <3>2. version \in Nat
            BY <2>1
        <3> HIDE DEF version, b
        <3>3. VersionOf(b.rows, e) = version
            BY <1>1, <3>1, <3>2, RowValues
        <3> QED
            BY <2>2, <3>3 DEF version
    <2>4. CASE e \notin all
        <3>1. b.rows[e] = published.rows[e]
            BY <2>4 DEF PublishedAfter
        <3> QED
            BY <2>2, <3>1 DEF VersionOf
    <2> QED
        BY <2>3, <2>4
<1> HIDE DEF b
<1>7. PkBound(b, log)
    BY <1>1, <1>2, <1>5 DEF PkBound
<1>8. \A e \in Entities : LogLast(b.recs[e], log)
    BY <1>1, <1>2, <1>5 DEF LogLast
<1>9. \A e \in Entities : ~ InLog(published.recs[e], log)
    BY <1>1, <1>2 DEF InLog
<1> QED
    BY <1>1, <1>3, <1>4, <1>6, <1>7, <1>8, <1>9 DEF log, b

\* What is published replays after a publish, whatever contexts are open.
LEMMA PublishFromDraftsReplays ==
    ASSUME TypeInv, LogInv, BranchReplays(published), PkBound(published, Len(publishLogs)),
           NEW p \in Packages, NEW S \in SUBSET Entities, NEW kind, NEW dependencies \in BOOLEAN,
           PublishFromDrafts(p, S, kind, dependencies)
    PROVE  /\ BranchReplays(published') /\ PkBound(published', Len(publishLogs'))
           /\ LogLastIn(published', Len(publishLogs) + 1, p)
<1> DEFINE log == Len(publishLogs) + 1
           all == S \cup IF dependencies THEN DependenciesToPublish(S, kind) ELSE {}
           b == PublishedAfter(S, all, log)
           a == CreateSideEffects(versions, b, log, log)
<1>1. /\ published' = a /\ publishLogs' = Append(publishLogs, p)
      /\ UNCHANGED <<draft, contexts>>
      /\ OnCommit(<<ChangeLogEvent("published", published', log)>>)
    BY DEF PublishFromDrafts
<1>2. Len(publishLogs') = log
    BY <1>1, TypeInvTables
<1> HIDE DEF all
<1>3. /\ BranchOK(b) /\ BranchReplays(b) /\ PkBound(b, log) /\ log \in Nat
      /\ \A e \in Entities : LogLast(b.recs[e], log)
    BY PublishedAfterStep
<1> HIDE DEF b, log
<1>4. \A e \in Entities : CanAdd(b.recs[e], log, log)
    <2> SUFFICES ASSUME NEW e \in Entities
                 PROVE  CanAdd(b.recs[e], log, log)
        OBVIOUS
    <2> DEFINE recs == b.recs[e]
    <2>1. /\ LogLast(recs, log) /\ \A r \in recs : RecordOK(r)
          /\ \A r, q \in recs : r.log = q.log => r = q
        BY <1>3 DEF BranchOK, BranchReplays, Replays
    <2> HIDE DEF recs
    <2>2. CanAdd(recs, log, log)
        BY <1>3, <2>1, LogLastCanAdd
    <2> QED
        BY <2>2 DEF recs
<1>5. BranchReplays(a)
    <2>1. \A e \in AffectedByLog(versions, b, log) : e \in Entities
        BY DEF AffectedByLog, Ancestors, CurrentDependencies
    <2> QED
        BY <1>3, <1>4, <2>1, SideEffectsReplay
<1>6. PkBound(a, log)
    BY <1>3, SideEffectsKeepBound
<1>7. LogLastIn(a, log, p)
    <2>1. PICK affected : WithSideEffects(a, b, log, log, affected)
        BY SideEffectsMembers
    <2> HIDE DEF a
    <2> QED
        BY <1>3, <2>1 DEF LogLastIn, LogLast, WithSideEffects, SameRecord
<1> HIDE DEF a
<1> QED
    BY <1>1, <1>2, <1>5, <1>6, <1>7 DEF log

LEMMA PublishFromDraftsReplayInv ==
    ASSUME TypeInv, LogInv, ReplayInv, NEW p \in Packages, NEW S \in SUBSET Entities,
           NEW kind, NEW dependencies \in BOOLEAN,
           PublishFromDrafts(p, S, kind, dependencies)
    PROVE  ReplayInv' /\ LogLastIn(published', Len(publishLogs) + 1, p)
<1>1. /\ BranchReplays(published') /\ PkBound(published', Len(publishLogs'))
      /\ LogLastIn(published', Len(publishLogs) + 1, p)
    BY ReplayInvTables, PublishFromDraftsReplays
<1>2. /\ UNCHANGED <<draft, contexts>>
      /\ OnCommit(<<ChangeLogEvent("published", published', Len(publishLogs) + 1)>>)
    BY DEF PublishFromDrafts
<1>3. DbReplays(Db)'
    BY <1>1, <1>2, ReplayInvTables DEF DbReplays, Db, BranchReplays, PkBound
<1>4. OpenLogsInv'
    BY <1>2, ReplayInvTables DEF OpenLogsInv, LogLastIn
<1> QED
    BY <1>1, <1>2, <1>3, <1>4, OnCommitReplayInv

-----------------------------------------------------------------------------
(* The theorems.                                                           *)

LEMMA InitReplayInv == Init => ReplayInv
<1> SUFFICES ASSUME Init PROVE ReplayInv
    OBVIOUS
<1>1. /\ \A e \in Entities : draft.rows[e] = NoRow /\ draft.recs[e] = {}
      /\ published = draft /\ publishLogs = <<>> /\ contexts = <<>> /\ committed = Db
    BY DEF Init
<1>2. BranchReplays(draft) /\ PkBound(draft, 0)
    BY <1>1 DEF BranchReplays, Replays, VersionOf, PkBound
<1>3. DbReplays(Db)
    BY <1>1, <1>2 DEF DbReplays, Db
<1> QED
    BY <1>1, <1>3 DEF ReplayInv, OpenLogsInv

LEMMA NextReplayInv ==
    ASSUME ~ Reentrant, TypeInv, TypeInv', LogInv, ReplayInv, [Next]_vars
    PROVE  ReplayInv'
<1>1. ASSUME NEW p \in Packages, NEW target, DraftsChange(p, target)
      PROVE  ReplayInv'
    BY <1>1, ChangeInContextReplayInv, ChangeInOwnLogReplayInv DEF DraftsChange, ChangeDrafts
<1>2. ASSUME NEW p \in Packages, BulkEnter(p)
      PROVE  ReplayInv'
    BY <1>2, BulkEnterReplayInv
<1>3. CASE BulkExit
    BY <1>3, BulkExitReplayInv
<1>4. CASE BulkAbort
    BY <1>4, BulkAbortReplayInv
<1>5. ASSUME NEW p \in Packages, NEW S \in SUBSET Entities, NEW kind,
             NEW dependencies \in BOOLEAN, PublishFromDrafts(p, S, kind, dependencies)
      PROVE  ReplayInv'
    BY <1>5, PublishFromDraftsReplayInv
<1>6. CASE UNCHANGED vars
    BY <1>6
    DEF vars, ReplayInv, DbReplays, Db, BranchReplays, PkBound, OpenLogsInv, LogLastIn
<1> QED
    BY <1>1, <1>2, <1>3, <1>4, <1>5, <1>6, StepsAre

LEMMA ReplayInvariance ==
    ASSUME ~ Reentrant
    PROVE  Spec => [](TypeInv /\ LogInv /\ ReplayInv)
<1>1. Init => ReplayInv
    BY InitReplayInv
<1>2. TypeInv /\ TypeInv' /\ LogInv /\ ReplayInv /\ [Next]_vars => ReplayInv'
    BY NextReplayInv
<1> QED
    BY <1>1, <1>2, LogInvariance, PTL DEF Spec

\* Where contexts of one package are not nested, the history of every entity is
\* complete on both branches: its records lead without a gap from nothing to
\* its row, though records are rewritten and deleted while a context is open,
\* side effects join late and an aborted context leaves holes in the keys.
THEOREM HistoryIsComplete ==
    ASSUME ~ Reentrant
    PROVE  Spec => []HistoryReplays
<1>1. ASSUME TypeInv, ReplayInv
      PROVE  HistoryReplays
    <2> SUFFICES ASSUME NEW b \in Branches, NEW e \in Entities
                 PROVE  /\ b.recs[e] = {} => VersionOf(b.rows, e) = 0
                        /\ \A r \in b.recs[e] :
                            LET before == {q \in b.recs[e] : q.pk < r.pk}
                                after  == {q \in b.recs[e] : q.pk > r.pk}
                            IN  /\ before = {} => r.old = 0
                                /\ \A q \in before :
                                    (\A x \in before : x.pk <= q.pk) => r.old = q.new
                                /\ after = {} => /\ LogRecordOf(b.rows, e) = r.log
                                                 /\ VersionOf(b.rows, e) = r.new
        BY DEF HistoryReplays
    <2> DEFINE recs == b.recs[e]
               version == VersionOf(b.rows, e)
               rec == LogRecordOf(b.rows, e)
    <2>1. Replays(recs, version, rec) /\ \A r \in recs : r.pk \in Nat
        BY <1>1, TypeInvTables, ReplayInvTables
        DEF Branches, BranchReplays, BranchOK, RecordOK
    <2> HIDE DEF recs, version, rec
    <2>2. ASSUME NEW r \in recs
          PROVE  LET before == {q \in recs : q.pk < r.pk}
                     after  == {q \in recs : q.pk > r.pk}
                 IN  /\ before = {} => r.old = 0
                     /\ \A q \in before : (\A x \in before : x.pk <= q.pk) => r.old = q.new
                     /\ after = {} => rec = r.log /\ version = r.new
        <3> DEFINE before == {q \in recs : q.pk < r.pk}
                   after  == {q \in recs : q.pk > r.pk}
        <3>1. before = {} => \A q \in recs : r.pk <= q.pk
            BY <2>1
        <3>2. after = {} => \A q \in recs : q.pk <= r.pk
            BY <2>1
        <3>3. \A q \in before : (\A x \in before : x.pk <= q.pk) => r.old = q.new
            BY <2>1 DEF Replays
        <3> QED
            BY <2>1, <3>1, <3>2, <3>3 DEF Replays
    <2>3. recs = {} => version = 0
        BY <2>1 DEF Replays
    <2> QED
        BY <2>2, <2>3 DEF recs, version, rec
<1> QED
    BY <1>1, ReplayInvariance, PTL

\* In a log that is the last of its package, each record ends at the version of
\* its entity.
LEMMA LastLogCaptures ==
    ASSUME NEW b, BranchOK(b), BranchReplays(b), NEW log \in Nat, NEW p,
           LogLastIn(b, log, p), NEW e \in Entities, PackageOf[e] = p,
           InLog(b.recs[e], log)
    PROVE  /\ RecordIn(b.recs[e], log).new = VersionOf(b.rows, e)
           /\ LogRecordOf(b.rows, e) = log
<1> DEFINE recs == b.recs[e]
           version == VersionOf(b.rows, e)
           rec == LogRecordOf(b.rows, e)
           r == RecordIn(recs, log)
<1>1. Replays(recs, version, rec) /\ LogLast(recs, log) /\ \A q \in recs : RecordOK(q)
    BY DEF BranchReplays, LogLastIn, BranchOK
<1>2. r \in recs /\ r.log = log
    BY DEF InLog, RecordIn
<1> HIDE DEF recs, version, rec, r
<1>3. CanAdd(recs, log, log)
    BY <1>1, LogLastCanAdd DEF Replays
<1>4. \A q \in recs : q.pk <= r.pk
    BY <1>2, <1>3 DEF CanAdd
<1> QED
    BY <1>1, <1>2, <1>4 DEF recs, version, rec, r, Replays

\* The contexts that stay open when the innermost one exits.
LEMMA ContextLeft ==
    ASSUME NEW open \in Seq(Log), open # <<>>, NEW rest,
           rest = SubSeq(open, 1, Len(open) - 1)
    PROVE  /\ Len(open) \in Nat /\ Len(rest) = Len(open) - 1
           /\ \A i \in 1..Len(rest) : rest[i] = open[i]
           /\ \A i \in 1..Len(open) : i = Len(open) \/ i \in 1..Len(rest)
<1> DEFINE n == Len(open)
<1>1. n \in Nat \ {0}
    OBVIOUS
<1>2. Len(rest) = n - 1
    <2>1. n - 1 \in Nat /\ n - 1 <= Len(open)
        BY <1>1
    <2>2. rest = SubSeq(open, 1, n - 1)
        OBVIOUS
    <2> HIDE DEF n
    <2> QED
        BY <2>1, <2>2, <1>1
<1>3. \A i \in 1..n - 1 : rest[i] = open[i]
    BY <1>1
<1> HIDE DEF n
<1>4. \A i \in 1..n : i = n \/ i \in 1..n - 1
    BY <1>1
<1> QED
    BY <1>1, <1>2, <1>3, <1>4 DEF n

\* Without nested contexts of one package, the records of a log that is closed
\* have the versions that their entities' drafts then have, however often they
\* were rewritten while it was open: what closes is the log of a context that
\* exits or of a one-off change, never one that an abort brings back.
THEOREM ClosedLogsCapture ==
    ASSUME ~ Reentrant
    PROVE  Spec => LogsCaptureAfterState
<1>1. ASSUME TypeInv, TypeInv', LogInv, LogInv', ReplayInv, ReplayInv', [Next]_vars,
             NEW l \in ClosedByStep, NEW e \in Entities, InLog(draft'.recs[e], l.id)
      PROVE  RecordIn(draft'.recs[e], l.id).new = VersionOf(draft'.rows, e)
    <2>0. /\ l \in draftLogs' /\ l \notin OpenLogs' /\ (l \notin draftLogs \/ l \in OpenLogs)
          /\ l \in Log /\ l.id \in Nat /\ l.package \in Packages
        BY <1>1, TypeInvTables DEF ClosedByStep, TypeInv, TypeOK, DbOK, Db, Log
    <2>1. PackageOf[e] = l.package
        <3>1. PICK r \in draft'.recs[e] : r.log = l.id
            BY <1>1 DEF InLog
        <3>2. [id |-> l.id, package |-> PackageOf[e]] \in draftLogs'
            BY <1>1, <3>1 DEF LogInv, DbInv, Db, DraftRecordsLogged
        <3>3. [id |-> l.id, package |-> PackageOf[e]] = l
            BY <1>1, <2>0, <3>2 DEF LogInv, DbInv, Db, LogsIdentified
        <3> QED
            BY <3>3
    <2>2. LogLastIn(draft', l.id, l.package)
        <3>1. ASSUME NEW p \in Packages, NEW target, DraftsChange(p, target)
              PROVE  LogLastIn(draft', l.id, l.package)
            <4>1. CASE ChangeInContext(p, target)
                BY <2>0, <4>1 DEF ChangeInContext, OpenLogs
            <4>2. CASE ChangeInOwnLog(versions', p, target)
                <5>1. l = [id |-> serial', package |-> p]
                    BY <2>0, <4>2 DEF ChangeInOwnLog, OpenLogs
                <5>2. LogLastIn(draft', serial', p)
                    BY <1>1, <3>1, <4>2, ChangeInOwnLogReplayInv DEF DraftsChange
                <5> QED
                    BY <5>1, <5>2
            <4> QED
                BY <3>1, <4>1, <4>2 DEF DraftsChange, ChangeDrafts
        <3>2. ASSUME NEW p \in Packages, BulkEnter(p)
              PROVE  FALSE
            <4> DEFINE l0 == [id |-> serial + 1, package |-> p]
            <4>1. contexts' = Append(contexts, l0) /\ draftLogs' = draftLogs \cup {l0}
                BY <3>2 DEF BulkEnter
            <4> HIDE DEF l0
            <4>2. /\ Len(contexts') = Len(contexts) + 1 /\ Len(contexts) \in Nat
                  /\ \A i \in 1..Len(contexts) : i \in 1..Len(contexts')
                                                 /\ contexts'[i] = contexts[i]
                  /\ contexts'[Len(contexts) + 1] = l0 /\ Len(contexts) + 1 \in 1..Len(contexts')
                BY <1>1, <4>1, TypeInvTables
            <4>3. OpenLogs \subseteq OpenLogs' /\ l0 \in OpenLogs'
                BY <4>2 DEF OpenLogs
            <4> QED
                BY <2>0, <4>1, <4>3
        <3>3. CASE BulkExit
            <4> DEFINE l0 == contexts[Len(contexts)]
            <4>1. LogLastIn(draft', l0.id, l0.package)
                BY <1>1, <3>3, BulkExitReplayInv
            <4>2. /\ contexts # <<>> /\ draftLogs' \subseteq draftLogs
                  /\ contexts' = SubSeq(contexts, 1, Len(contexts) - 1)
                BY <3>3 DEF BulkExit
            <4>3. /\ Len(contexts) \in Nat /\ Len(contexts') = Len(contexts) - 1
                  /\ \A i \in 1..Len(contexts') : contexts'[i] = contexts[i]
                  /\ \A i \in 1..Len(contexts) : i = Len(contexts) \/ i \in 1..Len(contexts')
                BY <1>1, <4>2, ContextLeft, TypeInvTables
            <4>4. l = l0
                BY <2>0, <4>2, <4>3 DEF OpenLogs
            <4> QED
                BY <4>1, <4>4
        <3>4. CASE BulkAbort
            <4>1. l \in committed.draftLogs
                BY <2>0, <3>4 DEF BulkAbort
            <4>2. Closed(l.id) /\ \E x \in Entities : InLog(committed.draft.recs[x], l.id)
                BY <1>1, <4>1 DEF LogInv, CommittedInv
            <4>3. PICK x \in Entities : \E r \in committed.draft.recs[x] : r.log = l.id
                BY <4>2 DEF InLog
            <4>4. [id |-> l.id, package |-> PackageOf[x]] \in draftLogs
                BY <1>1, <4>3 DEF LogInv, CommittedInv, Keeps, DbInv, Db, DraftRecordsLogged
            <4>5. [id |-> l.id, package |-> PackageOf[x]] \in committed.draftLogs
                BY <1>1, <4>3 DEF LogInv, DbInv, DraftRecordsLogged
            <4>6. [id |-> l.id, package |-> PackageOf[x]] = l
                BY <1>1, <4>1, <4>5 DEF LogInv, DbInv, LogsIdentified
            <4>7. l \in draftLogs /\ l \notin OpenLogs
                BY <4>2, <4>4, <4>6 DEF Closed, OpenLogs
            <4> QED
                BY <2>0, <4>7
        <3>5. ASSUME NEW p \in Packages, NEW S \in SUBSET Entities, NEW kind,
                     NEW dependencies \in BOOLEAN, PublishFromDrafts(p, S, kind, dependencies)
              PROVE  FALSE
            BY <2>0, <3>5 DEF PublishFromDrafts, OpenLogs
        <3>6. CASE UNCHANGED vars
            BY <2>0, <3>6 DEF vars, OpenLogs
        <3> QED
            BY <1>1, <3>1, <3>2, <3>3, <3>4, <3>5, <3>6, StepsAre
    <2>3. BranchOK(draft') /\ BranchReplays(draft')
        BY <1>1 DEF TypeInv, TypeOK, DbOK, Db, ReplayInv, DbReplays
    <2> QED
        BY <1>1, <2>0, <2>1, <2>2, <2>3, LastLogCaptures
<1>2. TypeInv /\ TypeInv' /\ LogInv /\ LogInv' /\ ReplayInv /\ ReplayInv' /\ [Next]_vars =>
        [\A l \in ClosedByStep : \A e \in Entities : InLog(draft'.recs[e], l.id) =>
            RecordIn(draft'.recs[e], l.id).new = VersionOf(draft'.rows, e)]_vars
    BY <1>1
<1> QED
    BY <1>2, ReplayInvariance, PTL DEF Spec, LogsCaptureAfterState

-----------------------------------------------------------------------------
(* What a sequence of events tells a subscriber.                           *)

\* The events about an entity.
Says(s, branch, e) ==
    {i \in 1..Len(s) : s[i].branch = branch /\ \E c \in s[i].changes : c.entity = e}

\* The changes of an entity lead without a gap from nothing to a version.
Told(s, branch, e, version) ==
    LET at == Says(s, branch, e) IN
    /\ at = {} => version = 0
    /\ \A i \in at : \A c \in s[i].changes : c.entity = e =>
        /\ (\A j \in at : j <= i) => c.new = version
        /\ (\A j \in at : i <= j) => c.old = 0
        /\ \A j \in at : j < i /\ (\A k \in at : k < i => k <= j) =>
            \A d \in s[j].changes : d.entity = e => c.old = d.new

\* Restored entities are those that were mentioned before.
FlagsRestored(s) ==
    \A i \in 1..Len(s) : \A c \in s[i].changes :
        s[i].branch = "draft" =>
            (c.restored <=> /\ c.old = 0 /\ c.new # 0
                            /\ \E j \in Says(s, "draft", c.entity) : j < i)

\* Events that tell the versions of both branches; seen is the set of entities
\* that the draft events mention.
Tells(s, drafts, publishes, seen) ==
    /\ FlagsRestored(s)
    /\ \A e \in Entities :
        /\ Told(s, "draft", e, drafts[e])
        /\ Told(s, "published", e, publishes[e])
        /\ Says(s, "draft", e) # {} <=> e \in seen

\* The next event is about an entity and takes it to a version, or is not.
Continues(x, branch, e, version, next) ==
    IF x.branch = branch /\ \E c \in x.changes : c.entity = e
    THEN \A c \in x.changes : c.entity = e => c.old = version /\ c.new = next
    ELSE next = version

LEMMA SaysMore ==
    ASSUME NEW s \in Seq(Event), NEW x \in Event, NEW branch, NEW e
    PROVE  LET more == Append(s, x)
           IN  /\ \A i \in 1..Len(s) : i \in 1..Len(more) /\ more[i] = s[i]
               /\ Len(s) \in Nat /\ Len(more) = Len(s) + 1
               /\ more[Len(s) + 1] = x
               /\ \A i : i \in Says(more, branch, e) <=>
                    \/ i \in Says(s, branch, e)
                    \/ /\ i = Len(s) + 1 /\ x.branch = branch
                       /\ \E c \in x.changes : c.entity = e
<1> DEFINE more == Append(s, x)
           n == Len(s)
<1>1. /\ n \in Nat /\ Len(more) = n + 1 /\ more[n + 1] = x
      /\ \A i \in 1..n : more[i] = s[i]
    OBVIOUS
<1> HIDE DEF more, n
<1>2. \A i : i \in 1..n + 1 <=> i \in 1..n \/ i = n + 1
    BY <1>1
<1>3. ~ n + 1 \in 1..n
    BY <1>1
<1>4. \A i : i \in Says(more, branch, e) <=>
        \/ i \in Says(s, branch, e)
        \/ /\ i = n + 1 /\ x.branch = branch /\ \E c \in x.changes : c.entity = e
    BY <1>1, <1>2, <1>3 DEF Says, n
<1> QED
    BY <1>1, <1>2, <1>4 DEF more, n

LEMMA ToldMore ==
    ASSUME NEW s \in Seq(Event), NEW x \in Event, NEW branch, NEW e, NEW version, NEW next,
           Told(s, branch, e, version), Continues(x, branch, e, version, next)
    PROVE  Told(Append(s, x), branch, e, next)
<1> DEFINE more == Append(s, x)
           at == Says(s, branch, e)
           last == Len(s) + 1
           told == Says(more, branch, e)
<1>1. /\ Len(s) \in Nat /\ last \in Nat
      /\ \A i \in at : i \in Nat /\ i < last /\ more[i] = s[i]
      /\ more[last] = x
      /\ \A i : i \in told <=> \/ i \in at
                               \/ /\ i = last /\ x.branch = branch
                                  /\ \E c \in x.changes : c.entity = e
    BY SaysMore DEF Says
<1>2. Told(s, branch, e, version) <=>
        /\ at = {} => version = 0
        /\ \A i \in at : \A c \in s[i].changes : c.entity = e =>
            /\ (\A j \in at : j <= i) => c.new = version
            /\ (\A j \in at : i <= j) => c.old = 0
            /\ \A j \in at : j < i /\ (\A k \in at : k < i => k <= j) =>
                \A d \in s[j].changes : d.entity = e => c.old = d.new
    BY DEF Told
<1> HIDE DEF more, at, last, told
<1>3. CASE x.branch = branch /\ \E c \in x.changes : c.entity = e
    <2>1. last \in told /\ \A i \in told : i \in at \/ i = last
        BY <1>1, <1>3
    <2>2. ASSUME NEW i \in at, NEW c \in more[i].changes, c.entity = e
          PROVE  /\ ~ \A j \in told : j <= i
                 /\ (\A j \in told : i <= j) => c.old = 0
                 /\ \A j \in told : j < i /\ (\A k \in told : k < i => k <= j) =>
                     \A d \in more[j].changes : d.entity = e => c.old = d.new
        BY <1>1, <1>2, <2>1, <2>2
    <2>3. ASSUME NEW c \in x.changes, c.entity = e
          PROVE  /\ c.new = next
                 /\ (\A j \in told : last <= j) => c.old = 0
                 /\ \A j \in told : j < last /\ (\A k \in told : k < last => k <= j) =>
                     \A d \in more[j].changes : d.entity = e => c.old = d.new
        <3>1. c.old = version /\ c.new = next
            BY <1>3, <2>3 DEF Continues
        <3>2. (\A j \in told : last <= j) => at = {}
            BY <1>1
        <3>3. ASSUME NEW j \in told, j < last, \A k \in told : k < last => k <= j,
                     NEW d \in more[j].changes, d.entity = e
              PROVE  d.new = version
            <4>1. j \in at /\ \A k \in at : k <= j
                BY <1>1, <2>1, <3>3
            <4> QED
                BY <1>1, <1>2, <3>3, <4>1
        <3> QED
            BY <1>2, <3>1, <3>2, <3>3
    <2>4. told # {}
        BY <2>1
    <2> QED
        BY <1>1, <2>1, <2>2, <2>3, <2>4 DEF Told, told, more
<1>4. CASE ~ (x.branch = branch /\ \E c \in x.changes : c.entity = e)
    <2>1. \A i : i \in told <=> i \in at
        BY <1>1, <1>4
    <2>2. next = version
        BY <1>4 DEF Continues
    <2>3. told = at
        BY <2>1
    <2>4. /\ told = {} => next = 0
          /\ \A i \in told : \A c \in more[i].changes : c.entity = e =>
                /\ (\A j \in told : j <= i) => c.new = next
                /\ (\A j \in told : i <= j) => c.old = 0
                /\ \A j \in told : j < i /\ (\A k \in told : k < i => k <= j) =>
                    \A d \in more[j].changes : d.entity = e => c.old = d.new
        BY <1>1, <1>2, <2>2, <2>3
    <2> QED
        BY <2>4 DEF Told, told, more
<1> QED
    BY <1>3, <1>4

\* One more event.
LEMMA TellsMore ==
    ASSUME NEW s \in Seq(Event), NEW x \in Event, NEW drafts, NEW publishes, NEW seen,
           Tells(s, drafts, publishes, seen), NEW drafts2, NEW publishes2, NEW seen2,
           \A e \in Entities :
                /\ Continues(x, "draft", e, drafts[e], drafts2[e])
                /\ Continues(x, "published", e, publishes[e], publishes2[e])
                /\ e \in seen2 <=> e \in seen \/ (x.branch = "draft" /\
                                                  \E c \in x.changes : c.entity = e),
           x.branch = "draft" => \A c \in x.changes :
                /\ c.entity \in Entities
                /\ c.restored <=> c.old = 0 /\ c.new # 0 /\ c.entity \in seen
    PROVE  Tells(Append(s, x), drafts2, publishes2, seen2)
<1> DEFINE more == Append(s, x)
<1>1. ASSUME NEW e \in Entities
      PROVE  /\ Told(more, "draft", e, drafts2[e])
             /\ Told(more, "published", e, publishes2[e])
             /\ Says(more, "draft", e) # {} <=> e \in seen2
    <2>1. Told(more, "draft", e, drafts2[e])
        <3> DEFINE v == drafts[e]
                   w == drafts2[e]
        <3>1. Told(s, "draft", e, v) /\ Continues(x, "draft", e, v, w)
            BY DEF Tells
        <3> HIDE DEF v, w
        <3>2. Told(Append(s, x), "draft", e, w)
            BY <3>1, ToldMore
        <3> QED
            BY <3>2 DEF w
    <2>2. Told(more, "published", e, publishes2[e])
        <3> DEFINE v == publishes[e]
                   w == publishes2[e]
        <3>1. Told(s, "published", e, v) /\ Continues(x, "published", e, v, w)
            BY DEF Tells
        <3> HIDE DEF v, w
        <3>2. Told(Append(s, x), "published", e, w)
            BY <3>1, ToldMore
        <3> QED
            BY <3>2 DEF w
    <2>3. Says(more, "draft", e) # {} <=> e \in seen2
        <3>1. \A i : i \in Says(more, "draft", e) <=>
                \/ i \in Says(s, "draft", e)
                \/ /\ i = Len(s) + 1 /\ x.branch = "draft"
                   /\ \E c \in x.changes : c.entity = e
            BY SaysMore
        <3>2. Says(s, "draft", e) # {} <=> e \in seen
            BY DEF Tells
        <3> HIDE DEF more
        <3> QED
            BY <3>1, <3>2
    <2> QED
        BY <2>1, <2>2, <2>3
<1>2. FlagsRestored(more)
    <2> SUFFICES ASSUME NEW i \in 1..Len(more), NEW c \in more[i].changes,
                        more[i].branch = "draft"
                 PROVE  c.restored <=> /\ c.old = 0 /\ c.new # 0
                                       /\ \E j \in Says(more, "draft", c.entity) : j < i
        BY DEF FlagsRestored
    <2> DEFINE e == c.entity
               n == Len(s)
    <2>1. /\ \A k \in 1..n : k \in 1..Len(more) /\ more[k] = s[k]
          /\ n \in Nat /\ Len(more) = n + 1 /\ more[n + 1] = x
          /\ \A k : k \in Says(more, "draft", e) <=>
                \/ k \in Says(s, "draft", e)
                \/ /\ k = n + 1 /\ x.branch = "draft" /\ \E d \in x.changes : d.entity = e
        BY SaysMore
    <2> HIDE DEF more, n
    <2>2. CASE i \in 1..n
        <3>1. (\E j \in Says(more, "draft", e) : j < i) <=> \E j \in Says(s, "draft", e) : j < i
            BY <2>1, <2>2
        <3>2. c \in s[i].changes /\ s[i].branch = "draft"
            BY <2>1, <2>2
        <3>3. c.restored <=> c.old = 0 /\ c.new # 0 /\ \E j \in Says(s, "draft", e) : j < i
            BY <2>2, <3>2 DEF Tells, FlagsRestored, n
        <3> QED
            BY <3>1, <3>3
    <2>3. CASE i = n + 1
        <3>1. x.branch = "draft" /\ c \in x.changes
            BY <2>1, <2>3
        <3>2. \A k \in Says(s, "draft", e) : k \in Nat /\ k < i
            BY <2>1, <2>3 DEF Says, n
        <3>3. (\E j \in Says(more, "draft", e) : j < i) <=> Says(s, "draft", e) # {}
            BY <2>1, <2>3, <3>2
        <3>4. e \in Entities /\ (Says(s, "draft", e) # {} <=> e \in seen)
            BY <3>1 DEF Tells
        <3> QED
            BY <3>1, <3>3, <3>4
    <2> QED
        BY <2>1, <2>2, <2>3
<1> QED
    BY <1>1, <1>2 DEF Tells

-----------------------------------------------------------------------------
(* What a log tells.                                                       *)

\* The records of a log start from a version of their entity, where the entity
\* still is if it has none.
StartsFrom(recs, log, version, start) ==
    IF InLog(recs, log) THEN \A r \in recs : r.log = log => r.old = start
    ELSE version = start

\* Whatever a change rewrites or deletes, its log starts where it did.
LEMMA SetVersionsStart ==
    ASSUME BranchOK(draft), NEW target, IsTarget(target), NEW log \in Nat, NEW pk \in Nat,
           NEW n \in Nat, PkBound(draft, n), pk <= n, NEW e \in Entities, NEW start,
           StartsFrom(draft.recs[e], log, VersionOf(draft.rows, e), start)
    PROVE  LET b == SetVersions(target, log, pk)
           IN  StartsFrom(b.recs[e], log, VersionOf(b.rows, e), start)
<1> DEFINE b == SetVersions(target, log, pk)
           recs == draft.recs[e]
           old == VersionOf(draft.rows, e)
           new == VersionOf(b.rows, e)
           mine == {r \in recs : r.log = log}
<1> SUFFICES StartsFrom(b.recs[e], log, new, start)
    OBVIOUS
<1>1. new = IF e \in DOMAIN target THEN target[e] ELSE old
    BY SetVersionsMembers
<1>2. b.recs[e] = IF e \in DOMAIN target /\ old # target[e]
                  THEN AddToChangeLog(recs, log, pk, old, target[e]) ELSE recs
    BY DEF SetVersions
<1>3. StartsFrom(recs, log, old, start)
    OBVIOUS
<1> HIDE DEF b, recs, old, new
<1>4. CASE ~ (e \in DOMAIN target /\ old # target[e])
    BY <1>1, <1>2, <1>3, <1>4
<1>5. CASE e \in DOMAIN target /\ old # target[e]
    <2>1. new = target[e] /\ b.recs[e] = AddToChangeLog(recs, log, pk, old, new)
        BY <1>1, <1>2, <1>5
    <2>2. CASE mine = {}
        <3> DEFINE x == Record(pk, log, old, new, FALSE, {})
        <3>1. b.recs[e] = recs \cup {x} /\ x.log = log /\ x.old = old
            BY <2>1, <2>2 DEF AddToChangeLog, Record
        <3> HIDE DEF x
        <3> QED
            BY <1>3, <2>2, <3>1 DEF StartsFrom, InLog
    <2>3. CASE mine # {}
        <3> DEFINE x(r) == Record(r.pk, log, r.old, new, FALSE, r.digest)
        <3>1. \A r : x(r).log = log /\ x(r).old = r.old
            BY DEF Record
        <3>2. b.recs[e] = (recs \ mine) \cup {x(r) : r \in {m \in mine : m.old # new}}
            BY <2>1, <2>3 DEF AddToChangeLog
        <3>3. \A m \in mine : m.old = start
            BY <1>3, <2>3 DEF StartsFrom, InLog
        <3> HIDE DEF x
        <3>4. CASE start = new
            <4>1. b.recs[e] = recs \ mine
                BY <3>2, <3>3, <3>4
            <4> QED
                BY <3>4, <4>1 DEF StartsFrom, InLog
        <3>5. CASE start # new
            <4>1. \A y \in b.recs[e] : y.log = log => y.old = start
                BY <3>1, <3>2, <3>3
            <4>2. PICK m \in mine : TRUE
                BY <2>3
            <4>3. x(m) \in b.recs[e] /\ x(m).log = log
                BY <3>1, <3>2, <3>3, <3>5
            <4> QED
                BY <4>1, <4>3 DEF StartsFrom, InLog
        <3> QED
            BY <3>4, <3>5
    <2> QED
        BY <2>2, <2>3
<1> QED
    BY <1>4, <1>5

LEMMA SideEffectsStart ==
    ASSUME NEW a, NEW b, BranchOK(b), NEW log \in Nat, NEW pk, NEW affected,
           WithSideEffects(a, b, log, pk, affected), NEW e \in Entities, NEW start,
           StartsFrom(b.recs[e], log, VersionOf(b.rows, e), start)
    PROVE  /\ StartsFrom(a.recs[e], log, VersionOf(a.rows, e), start)
           /\ VersionOf(a.rows, e) = VersionOf(b.rows, e)
<1> DEFINE version == VersionOf(b.rows, e)
<1>1. WithSideEffects(a, b, log, pk, affected)
    OBVIOUS
<1>2. VersionOf(a.rows, e) = version
    <2>1. a.rows[e] = IF e \in affected THEN [version |-> version, rec |-> log] ELSE b.rows[e]
        BY <1>1 DEF WithSideEffects
    <2>2. version \in Nat
        BY VersionType
    <2>3. CASE e \in affected
        <3>1. a.rows[e] = [version |-> version, rec |-> log]
            BY <2>1, <2>3
        <3> HIDE DEF version
        <3> QED
            BY <2>2, <3>1, RowValues
    <2>4. CASE e \notin affected
        BY <2>1, <2>4 DEF VersionOf
    <2> QED
        BY <2>3, <2>4
<1>3. StartsFrom(b.recs[e], log, version, start)
    OBVIOUS
<1>4. /\ \A x \in a.recs[e] :
            \/ \E r \in b.recs[e] : x.log = r.log /\ x.old = r.old
            \/ ~ InLog(b.recs[e], log) /\ x.log = log /\ x.old = version
      /\ \A r \in b.recs[e] : \E x \in a.recs[e] : x.log = r.log
    BY <1>1 DEF WithSideEffects, SameRecord
<1> HIDE DEF version
<1>5. StartsFrom(a.recs[e], log, version, start)
    BY <1>3, <1>4 DEF StartsFrom, InLog
<1> QED
    BY <1>2, <1>5 DEF version

\* The event of a log has a change for each of its records.
LEMMA ChangesOfEvent ==
    ASSUME NEW branch, NEW b, NEW log
    PROVE  LET x == ChangeLogEvent(branch, b, log)
           IN  /\ x.branch = branch
               /\ \A c \in x.changes :
                    /\ c.entity \in Entities
                    /\ \E r \in b.recs[c.entity] :
                        /\ r.log = log /\ c.old = r.old /\ c.new = r.new
                        /\ c.restored <=> /\ branch = "draft" /\ r.old = 0 /\ r.new # 0
                                          /\ \E q \in b.recs[c.entity] : q.log # log
               /\ \A e \in Entities : InLog(b.recs[e], log) =>
                    \E c \in x.changes : c.entity = e
<1> DEFINE restored(e, r) == /\ branch = "draft" /\ r.old = 0 /\ r.new # 0
                             /\ \E q \in b.recs[e] : q.log # log
           change(e, r) == [entity |-> e, old |-> r.old, new |-> r.new,
                            direct |-> r.direct, restored |-> restored(e, r)]
           mine(e) == {x \in b.recs[e] : x.log = log}
           changes == UNION {{change(e, r) : r \in mine(e)} : e \in Entities}
           x == ChangeLogEvent(branch, b, log)
<1>1. x = [branch |-> branch, log |-> log, changes |-> changes]
    BY DEF ChangeLogEvent
<1>2. \A e, r : /\ change(e, r).entity = e /\ change(e, r).old = r.old
                /\ change(e, r).new = r.new
                /\ change(e, r).restored = restored(e, r)
    OBVIOUS
<1>3. x.branch = branch /\ x.changes = changes
    <2> HIDE DEF changes, x
    <2> QED
        BY <1>1
<1> HIDE DEF change, x, restored
<1>4. \A c : c \in changes <=> \E e \in Entities : \E r \in mine(e) : c = change(e, r)
    OBVIOUS
<1> HIDE DEF changes
<1>5. ASSUME NEW c \in x.changes
      PROVE  /\ c.entity \in Entities
             /\ \E r \in b.recs[c.entity] : /\ r.log = log /\ c.old = r.old /\ c.new = r.new
                                            /\ c.restored = restored(c.entity, r)
    <2>1. PICK e \in Entities : \E r \in mine(e) : c = change(e, r)
        BY <1>3, <1>4
    <2> QED
        BY <1>2, <2>1
<1>6. ASSUME NEW e \in Entities, InLog(b.recs[e], log)
      PROVE  \E c \in x.changes : c.entity = e
    <2>1. PICK r \in mine(e) : TRUE
        BY <1>6 DEF InLog
    <2>2. change(e, r) \in x.changes /\ change(e, r).entity = e
        BY <1>2, <1>3, <1>4
    <2> QED
        BY <2>2
<1>7. \A c \in x.changes :
        /\ c.entity \in Entities
        /\ \E r \in b.recs[c.entity] :
            /\ r.log = log /\ c.old = r.old /\ c.new = r.new
            /\ c.restored <=> /\ branch = "draft" /\ r.old = 0 /\ r.new # 0
                              /\ \E q \in b.recs[c.entity] : q.log # log
    BY <1>5 DEF restored
<1> QED
    BY <1>3, <1>6, <1>7 DEF x

\* The event of a log that is the last of its package takes each of its
\* entities from where the log starts to where the branch is, and no other.
LEMMA EventContinues ==
    ASSUME NEW b, BranchOK(b), BranchReplays(b), NEW log \in Nat, NEW p,
           LogLastIn(b, log, p), LogOfPackage(b, log, p), NEW branch, NEW e \in Entities
    PROVE  LET x == ChangeLogEvent(branch, b, log)
           IN  /\ (\E c \in x.changes : c.entity = e) <=> InLog(b.recs[e], log)
               /\ \A other, v : other # branch \/ PackageOf[e] # p =>
                                    Continues(x, other, e, v, v)
               /\ \A start : StartsFrom(b.recs[e], log, VersionOf(b.rows, e), start) =>
                    Continues(x, branch, e, start, VersionOf(b.rows, e))
<1> DEFINE x == ChangeLogEvent(branch, b, log)
           version == VersionOf(b.rows, e)
<1>1. /\ x.branch = branch
      /\ \A c \in x.changes : \E r \in b.recs[c.entity] :
            r.log = log /\ c.old = r.old /\ c.new = r.new
      /\ InLog(b.recs[e], log) => \E c \in x.changes : c.entity = e
    BY ChangesOfEvent
<1> HIDE DEF x
<1>2. (\E c \in x.changes : c.entity = e) <=> InLog(b.recs[e], log)
    BY <1>1 DEF InLog
<1>3. ASSUME NEW start, StartsFrom(b.recs[e], log, version, start),
             NEW c \in x.changes, c.entity = e
      PROVE  c.old = start /\ c.new = version
    <2>1. PICK r \in b.recs[e] : r.log = log /\ c.old = r.old /\ c.new = r.new
        BY <1>1, <1>3
    <2>2. InLog(b.recs[e], log) /\ PackageOf[e] = p
        BY <2>1 DEF InLog, LogOfPackage
    <2>3. r.old = start
        BY <1>3, <2>1, <2>2 DEF StartsFrom
    <2>4. RecordIn(b.recs[e], log).new = version
        BY <2>2, LastLogCaptures
    <2>5. \A q \in b.recs[e] : q.log = r.log => q = r
        BY DEF BranchReplays, Replays
    <2>6. RecordIn(b.recs[e], log) = r
        BY <2>1, <2>5 DEF RecordIn
    <2> QED
        BY <2>1, <2>3, <2>4, <2>6
<1>4. ASSUME NEW start, StartsFrom(b.recs[e], log, version, start)
      PROVE  Continues(x, branch, e, start, version)
    <2>1. CASE InLog(b.recs[e], log)
        BY <1>1, <1>3, <1>4, <2>1 DEF Continues
    <2>2. CASE ~ InLog(b.recs[e], log)
        BY <1>2, <1>4, <2>2 DEF Continues, StartsFrom
    <2> QED
        BY <2>1, <2>2
<1>5. \A other, v : other # branch \/ PackageOf[e] # p => Continues(x, other, e, v, v)
    BY <1>1, <1>2 DEF Continues, LogOfPackage
<1> QED
    BY <1>2, <1>4, <1>5 DEF x, version

-----------------------------------------------------------------------------
(* The events sent, and those that wait for the commit.                    *)

VersionsIn(b) == [e \in Entities |-> VersionOf(b.rows, e)]

\* The drafts as their closed logs leave them: at their versions, or where the
\* open log of their package starts.
DraftsStart(b, open, starts) ==
    \A e \in Entities :
        /\ (\A i \in 1..Len(open) : open[i].package # PackageOf[e]) =>
            VersionOf(b.rows, e) = starts[e]
        /\ \A i \in 1..Len(open) : open[i].package = PackageOf[e] =>
            StartsFrom(b.recs[e], open[i].id, VersionOf(b.rows, e), starts[e])

\* The records of closed logs, and the entities that have one.
ClosedRecords(recs, open) == {r \in recs : \A i \in 1..Len(open) : open[i].id # r.log}
Recorded(b, open) == {e \in Entities : ClosedRecords(b.recs[e], open) # {}}

\* The events sent tell what is committed, and together with those that wait
\* they tell what the open transaction has come to.
EventInv ==
    /\ Tells(events, VersionsIn(committed.draft), VersionsIn(committed.published),
             Recorded(committed.draft, <<>>))
    /\ \E starts :
        /\ DraftsStart(draft, contexts, starts)
        /\ Tells(events \o outbox, starts, VersionsIn(published), Recorded(draft, contexts))

\* Only what is told of entities matters.
LEMMA TellsSame ==
    ASSUME NEW s, NEW drafts, NEW publishes, NEW seen, Tells(s, drafts, publishes, seen),
           NEW drafts2, NEW publishes2, NEW seen2,
           \A e \in Entities : /\ drafts2[e] = drafts[e] /\ publishes2[e] = publishes[e]
                               /\ e \in seen2 <=> e \in seen
    PROVE  Tells(s, drafts2, publishes2, seen2)
    BY DEF Tells

LEMMA OnCommitEventInv ==
    ASSUME TypeInv, EventInv, NEW new \in Seq(Event), OnCommit(new), NEW starts,
           DraftsStart(draft', contexts', starts),
           Tells((events \o outbox) \o new, starts, VersionsIn(published'),
                 Recorded(draft', contexts'))
    PROVE  EventInv'
<1>1. events \in Seq(Event) /\ outbox \in Seq(Event)
    BY TypeInvTables
<1>2. CASE contexts' = <<>>
    <2>1. /\ committed' = Db' /\ outbox' = <<>>
          /\ events' = events \o outbox \o new
        BY <1>2 DEF OnCommit
    <2>2. events' = (events \o outbox) \o new /\ events' \in Seq(Event)
        BY <1>1, <2>1
    <2>3. events' \o outbox' = events'
        BY <2>1, <2>2, ConcatEmptySeq
    <2>4. \A e \in Entities : VersionOf(draft'.rows, e) = starts[e]
        BY <1>2 DEF DraftsStart
    <2>5. /\ committed'.draft = draft' /\ committed'.published = published'
        BY <2>1 DEF Db
    <2>6. Tells(events', VersionsIn(committed'.draft), VersionsIn(committed'.published),
                Recorded(committed'.draft, <<>>))
        BY <1>2, <2>2, <2>4, <2>5, TellsSame DEF VersionsIn
    <2> QED
        BY <1>2, <2>1, <2>2, <2>3, <2>6 DEF EventInv
<1>3. CASE contexts' # <<>>
    <2>1. outbox' = outbox \o new /\ UNCHANGED <<committed, events>>
        BY <1>3 DEF OnCommit
    <2>2. events' \o outbox' = (events \o outbox) \o new
        BY <1>1, <2>1, ConcatAssociative
    <2> QED
        BY <1>3, <2>1, <2>2 DEF EventInv
<1> QED
    BY <1>2, <1>3

\* The same with nothing or one event to send.
LEMMA OnCommitNothing ==
    ASSUME TypeInv, EventInv, OnCommit(<<>>), NEW starts,
           DraftsStart(draft', contexts', starts),
           Tells(events \o outbox, starts, VersionsIn(published'), Recorded(draft', contexts'))
    PROVE  EventInv'
<1>1. events \o outbox \in Seq(Event)
    BY TypeInvTables
<1>2. (events \o outbox) \o <<>> = events \o outbox /\ <<>> \in Seq(Event)
    BY <1>1, ConcatEmptySeq
<1>3. Tells((events \o outbox) \o <<>>, starts, VersionsIn(published'),
            Recorded(draft', contexts'))
    BY <1>2
<1> QED
    BY <1>2, <1>3, OnCommitEventInv

LEMMA OnCommitOne ==
    ASSUME TypeInv, EventInv, NEW x \in Event, OnCommit(<<x>>), NEW starts,
           DraftsStart(draft', contexts', starts),
           Tells(Append(events \o outbox, x), starts, VersionsIn(published'),
                 Recorded(draft', contexts'))
    PROVE  EventInv'
<1>1. events \o outbox \in Seq(Event)
    BY TypeInvTables
<1>2. (events \o outbox) \o <<x>> = Append(events \o outbox, x) /\ <<x>> \in Seq(Event)
    BY <1>1, AppendIsConcat
<1>3. Tells((events \o outbox) \o <<x>>, starts, VersionsIn(published'),
            Recorded(draft', contexts'))
    BY <1>2
<1> QED
    BY <1>2, <1>3, OnCommitEventInv

\* A record that is not in the open log of its package is in a closed one.
LEMMA RecordsOfClosedLogs ==
    ASSUME TypeInv, LogInv, NEW e \in Entities, NEW r \in draft.recs[e],
           \A i \in 1..Len(contexts) : contexts[i].package = PackageOf[e] =>
                                       contexts[i].id # r.log
    PROVE  \A i \in 1..Len(contexts) : contexts[i].id # r.log
<1> SUFFICES ASSUME NEW i \in 1..Len(contexts), contexts[i].id = r.log
             PROVE  FALSE
    OBVIOUS
<1>1. [id |-> r.log, package |-> PackageOf[e]] \in draftLogs
    BY LogInvTables DEF DraftRecordsLogged
<1>2. contexts[i] \in draftLogs
    BY LogInvTables DEF ContextsInv
<1>3. contexts[i] = [id |-> r.log, package |-> PackageOf[e]]
    BY <1>1, <1>2, LogInvTables DEF LogsIdentified
<1> QED
    BY <1>3

\* The open log of a package closes, or the log of a change of its own: branch a
\* has its side effects, and other contexts stay open.
Closes(a, log, p, open, starts) ==
    /\ LogLastIn(a, log, p) /\ LogOfPackage(a, log, p) /\ OnlyLog(a, draft, log)
    /\ \A e \in Entities :
        /\ InLog(draft.recs[e], log) => InLog(a.recs[e], log)
        /\ PackageOf[e] = p => StartsFrom(a.recs[e], log, VersionOf(a.rows, e), starts[e])
        /\ PackageOf[e] # p =>
            a.recs[e] = draft.recs[e] /\ VersionOf(a.rows, e) = VersionOf(draft.rows, e)
    /\ \A i \in 1..Len(contexts) : contexts[i].package = p <=> contexts[i].id = log
    /\ \/ \E i \in 1..Len(contexts) : contexts[i].id = log
       \/ \A e \in Entities : ~ InLog(draft.recs[e], log)
    /\ \A i \in 1..Len(open) : /\ open[i].package # p
                               /\ \E j \in 1..Len(contexts) : contexts[j] = open[i]
    /\ \A j \in 1..Len(contexts) : contexts[j].package # p =>
                                   \E i \in 1..Len(open) : contexts[j] = open[i]

\* Where the drafts start once a log of package p is closed.
StartsAfter(a, p, starts) ==
    [e \in Entities |-> IF PackageOf[e] = p THEN VersionOf(a.rows, e) ELSE starts[e]]

LEMMA ClosedLogStarts ==
    ASSUME NEW starts, DraftsStart(draft, contexts, starts),
           NEW a, NEW log, NEW p, NEW open, Closes(a, log, p, open, starts)
    PROVE  DraftsStart(a, open, StartsAfter(a, p, starts))
<1> DEFINE next == StartsAfter(a, p, starts)
<1> SUFFICES ASSUME NEW e \in Entities
             PROVE  /\ (\A i \in 1..Len(open) : open[i].package # PackageOf[e]) =>
                        VersionOf(a.rows, e) = next[e]
                    /\ \A i \in 1..Len(open) : open[i].package = PackageOf[e] =>
                        StartsFrom(a.recs[e], open[i].id, VersionOf(a.rows, e), next[e])
    BY DEF DraftsStart
<1>1. next[e] = IF PackageOf[e] = p THEN VersionOf(a.rows, e) ELSE starts[e]
    BY DEF StartsAfter
<1> HIDE DEF next
<1>2. CASE PackageOf[e] = p
    BY <1>1, <1>2 DEF Closes
<1>3. CASE PackageOf[e] # p
    <2>1. a.recs[e] = draft.recs[e] /\ VersionOf(a.rows, e) = VersionOf(draft.rows, e)
        BY <1>3 DEF Closes
    <2>2. /\ (\A j \in 1..Len(contexts) : contexts[j].package # PackageOf[e]) =>
                VersionOf(draft.rows, e) = starts[e]
          /\ \A j \in 1..Len(contexts) : contexts[j].package = PackageOf[e] =>
                StartsFrom(draft.recs[e], contexts[j].id, VersionOf(draft.rows, e), starts[e])
        BY DEF DraftsStart
    <2>3. ASSUME \A i \in 1..Len(open) : open[i].package # PackageOf[e]
          PROVE  \A j \in 1..Len(contexts) : contexts[j].package # PackageOf[e]
        BY <1>3, <2>3 DEF Closes
    <2>4. ASSUME NEW i \in 1..Len(open), open[i].package = PackageOf[e]
          PROVE  StartsFrom(draft.recs[e], open[i].id, VersionOf(draft.rows, e), starts[e])
        <3>1. PICK j \in 1..Len(contexts) : contexts[j] = open[i]
            BY DEF Closes
        <3> QED
            BY <2>2, <2>4, <3>1
    <2> QED
        BY <1>1, <1>3, <2>1, <2>2, <2>3, <2>4
<1> QED
    BY <1>2, <1>3

\* The records that an entity has in closed logs, before and after.
LEMMA ClosedLogRecords ==
    ASSUME TypeInv, LogInv, NEW starts, NEW a, NEW log, NEW p, NEW open,
           Closes(a, log, p, open, starts), NEW e \in Entities
    PROVE  /\ PackageOf[e] = p => ClosedRecords(a.recs[e], open) = a.recs[e]
           /\ PackageOf[e] = p /\ ~ InLog(draft.recs[e], log) =>
                ClosedRecords(draft.recs[e], contexts) = draft.recs[e]
           /\ PackageOf[e] = p => \A r \in draft.recs[e] : r.log # log =>
                r \in ClosedRecords(draft.recs[e], contexts)
           /\ PackageOf[e] # p =>
                ClosedRecords(a.recs[e], open) = ClosedRecords(draft.recs[e], contexts)
<1>1. ASSUME PackageOf[e] = p, NEW r \in draft.recs[e], r.log # log
      PROVE  \A i \in 1..Len(contexts) : contexts[i].id # r.log
    <2>1. \A i \in 1..Len(contexts) : contexts[i].package = PackageOf[e] =>
                                       contexts[i].id # r.log
        BY <1>1 DEF Closes
    <2> QED
        BY <2>1, RecordsOfClosedLogs
<1>2. ASSUME PackageOf[e] = p, NEW r \in a.recs[e]
      PROVE  \A i \in 1..Len(open) : open[i].id # r.log
    <2> SUFFICES ASSUME NEW i \in 1..Len(open)
                 PROVE  open[i].id # r.log
        OBVIOUS
    <2>1. PICK j \in 1..Len(contexts) : contexts[j] = open[i]
        BY DEF Closes
    <2>2. CASE r.log = log
        BY <2>1, <2>2 DEF Closes
    <2>3. CASE r.log # log
        <3>1. r \in draft.recs[e]
            BY <2>3 DEF Closes, OnlyLog
        <3> QED
            BY <1>1, <1>2, <2>1, <2>3, <3>1
    <2> QED
        BY <2>2, <2>3
<1>3. ASSUME PackageOf[e] # p, NEW r \in draft.recs[e]
      PROVE  (\A i \in 1..Len(contexts) : contexts[i].id # r.log)
                <=> \A i \in 1..Len(open) : open[i].id # r.log
    <2>1. r.log # log
        BY <1>3 DEF InLog, Closes, LogOfPackage
    <2>2. /\ \A i \in 1..Len(open) : \E j \in 1..Len(contexts) : contexts[j] = open[i]
          /\ \A j \in 1..Len(contexts) : contexts[j].id # log =>
                \E i \in 1..Len(open) : contexts[j] = open[i]
        BY DEF Closes
    <2> QED
        BY <2>1, <2>2
<1>4. PackageOf[e] = p => ClosedRecords(a.recs[e], open) = a.recs[e]
    BY <1>2 DEF ClosedRecords
<1>5. PackageOf[e] = p => \A r \in draft.recs[e] : r.log # log =>
            r \in ClosedRecords(draft.recs[e], contexts)
    BY <1>1 DEF ClosedRecords
<1>6. PackageOf[e] = p /\ ~ InLog(draft.recs[e], log) =>
            ClosedRecords(draft.recs[e], contexts) = draft.recs[e]
    BY <1>5 DEF ClosedRecords, InLog
<1>7. PackageOf[e] # p =>
            ClosedRecords(a.recs[e], open) = ClosedRecords(draft.recs[e], contexts)
    BY <1>3 DEF ClosedRecords, Closes
<1> QED
    BY <1>4, <1>5, <1>6, <1>7

\* Its event tells what the drafts of that package have come to.
LEMMA ClosedLogTold ==
    ASSUME TypeInv, LogInv, NEW starts, DraftsStart(draft, contexts, starts),
           Tells(events \o outbox, starts, VersionsIn(published), Recorded(draft, contexts)),
           NEW a, BranchOK(a), BranchReplays(a), NEW log \in Nat, NEW p, NEW open,
           Closes(a, log, p, open, starts)
    PROVE  Tells(Append(events \o outbox, ChangeLogEvent("draft", a, log)),
                 StartsAfter(a, p, starts), VersionsIn(published), Recorded(a, open))
<1> DEFINE x == ChangeLogEvent("draft", a, log)
           next == StartsAfter(a, p, starts)
           pubs == VersionsIn(published)
           before == Recorded(draft, contexts)
           after == Recorded(a, open)
<1>1. x \in Event /\ events \o outbox \in Seq(Event)
    BY TypeInvTables, ChangeLogEventType
<1>2. \A e \in Entities :
        next[e] = IF PackageOf[e] = p THEN VersionOf(a.rows, e) ELSE starts[e]
    BY DEF StartsAfter
<1> HIDE DEF next
<1>3. ASSUME NEW e \in Entities, PackageOf[e] = p
      PROVE  /\ (\E q \in a.recs[e] : q.log # log) <=> e \in before
             /\ e \in after <=> e \in before \/ InLog(a.recs[e], log)
    <2>1. /\ ClosedRecords(a.recs[e], open) = a.recs[e]
          /\ \A r \in draft.recs[e] : r.log # log =>
                r \in ClosedRecords(draft.recs[e], contexts)
        BY <1>3, ClosedLogRecords
    <2>2. /\ e \in before <=> ClosedRecords(draft.recs[e], contexts) # {}
          /\ e \in after <=> a.recs[e] # {}
        BY <2>1 DEF Recorded
    <2>3. \A r : r.log # log => (r \in a.recs[e] <=> r \in draft.recs[e])
        BY DEF Closes, OnlyLog
    <2>4. \A r \in ClosedRecords(draft.recs[e], contexts) : r \in draft.recs[e] /\ r.log # log
        BY DEF ClosedRecords, Closes, InLog
    <2>5. (\E q \in a.recs[e] : q.log # log) <=> e \in before
        BY <2>1, <2>2, <2>3, <2>4
    <2>6. e \in after <=> (\E q \in a.recs[e] : q.log # log) \/ InLog(a.recs[e], log)
        BY <2>2 DEF InLog
    <2> QED
        BY <2>5, <2>6
<1>4. ASSUME NEW e \in Entities, PackageOf[e] # p
      PROVE  (e \in after <=> e \in before) /\ ~ InLog(a.recs[e], log)
    <2>1. ClosedRecords(a.recs[e], open) = ClosedRecords(draft.recs[e], contexts)
        BY <1>4, ClosedLogRecords
    <2>2. ~ InLog(a.recs[e], log)
        BY <1>4 DEF Closes, LogOfPackage
    <2> QED
        BY <2>1, <2>2 DEF Recorded
<1>5. /\ x.branch = "draft"
      /\ \A c \in x.changes :
            /\ c.entity \in Entities
            /\ \E r \in a.recs[c.entity] :
                /\ r.log = log /\ c.old = r.old /\ c.new = r.new
                /\ c.restored <=> /\ r.old = 0 /\ r.new # 0
                                  /\ \E q \in a.recs[c.entity] : q.log # log
    BY ChangesOfEvent
<1>6. ASSUME NEW e \in Entities
      PROVE  /\ (\E c \in x.changes : c.entity = e) <=> InLog(a.recs[e], log)
             /\ \A other, v : other # "draft" \/ PackageOf[e] # p =>
                                Continues(x, other, e, v, v)
             /\ \A start : StartsFrom(a.recs[e], log, VersionOf(a.rows, e), start) =>
                    Continues(x, "draft", e, start, VersionOf(a.rows, e))
    BY EventContinues DEF Closes
<1> HIDE DEF x, before, after
<1>7. \A c \in x.changes :
        /\ c.entity \in Entities
        /\ c.restored <=> c.old = 0 /\ c.new # 0 /\ c.entity \in before
    <2> SUFFICES ASSUME NEW c \in x.changes
                 PROVE  /\ c.entity \in Entities
                        /\ c.restored <=> c.old = 0 /\ c.new # 0 /\ c.entity \in before
        OBVIOUS
    <2>1. PICK r \in a.recs[c.entity] :
            /\ r.log = log /\ c.old = r.old /\ c.new = r.new
            /\ c.restored <=> /\ r.old = 0 /\ r.new # 0
                              /\ \E q \in a.recs[c.entity] : q.log # log
        BY <1>5
    <2>2. c.entity \in Entities /\ PackageOf[c.entity] = p
        BY <1>5, <2>1 DEF Closes, LogOfPackage, InLog
    <2> QED
        BY <1>3, <2>1, <2>2
<1>8. ASSUME NEW e \in Entities
      PROVE  /\ Continues(x, "draft", e, starts[e], next[e])
             /\ Continues(x, "published", e, pubs[e], pubs[e])
             /\ e \in after <=> e \in before \/ \E c \in x.changes : c.entity = e
    <2>1. Continues(x, "draft", e, starts[e], next[e])
        <3>1. CASE PackageOf[e] = p
            BY <1>2, <1>6, <3>1 DEF Closes
        <3>2. CASE PackageOf[e] # p
            BY <1>2, <1>6, <3>2
        <3> QED
            BY <3>1, <3>2
    <2> QED
        BY <1>3, <1>4, <1>6, <2>1
<1>9. Tells(events \o outbox, starts, pubs, before)
    BY DEF before
<1> DEFINE s == events \o outbox
<1>10. s \in Seq(Event) /\ x \in Event /\ Tells(s, starts, pubs, before)
    BY <1>1, <1>9
<1> HIDE DEF pubs, s
<1>11. \A e \in Entities :
        /\ Continues(x, "draft", e, starts[e], next[e])
        /\ Continues(x, "published", e, pubs[e], pubs[e])
        /\ e \in after <=> e \in before \/ (x.branch = "draft" /\
                                               \E c \in x.changes : c.entity = e)
    BY <1>5, <1>8
<1>12. x.branch = "draft" => \A c \in x.changes :
        /\ c.entity \in Entities
        /\ c.restored <=> c.old = 0 /\ c.new # 0 /\ c.entity \in before
    BY <1>7
<1>13. Tells(Append(s, x), next, pubs, after)
    BY <1>10, <1>11, <1>12, TellsMore
<1> QED
    BY <1>13 DEF x, next, pubs, after, s

-----------------------------------------------------------------------------
(* Every operation keeps the events telling.                               *)

LEMMA ClosedLogEventInv ==
    ASSUME TypeInv, TypeInv', LogInv, ReplayInv', EventInv, NEW log \in Nat, NEW p,
           NEW starts, DraftsStart(draft, contexts, starts),
           Tells(events \o outbox, starts, VersionsIn(published), Recorded(draft, contexts)),
           Closes(draft', log, p, contexts', starts), UNCHANGED published,
           OnCommit(<<ChangeLogEvent("draft", draft', log)>>)
    PROVE  EventInv'
<1> DEFINE a == draft'
           x == ChangeLogEvent("draft", a, log)
           next == StartsAfter(a, p, starts)
<1>1. BranchOK(a) /\ BranchReplays(a)
    BY DEF TypeInv, TypeOK, DbOK, Db, ReplayInv, DbReplays
<1>2. x \in Event
    BY <1>1, ChangeLogEventType
<1>3. DraftsStart(a, contexts', next)
    BY ClosedLogStarts
<1>4. Tells(Append(events \o outbox, x), next, VersionsIn(published), Recorded(a, contexts'))
    BY <1>1, ClosedLogTold
<1> HIDE DEF next, x
<1>5. OnCommit(<<x>>)
    BY DEF x
<1> QED
    BY <1>2, <1>3, <1>4, <1>5, OnCommitOne

\* A change in a context leaves the closed logs as they are, and the open ones
\* where they started.
LEMMA ChangeInContextStarts ==
    ASSUME TypeInv, ReplayInv, NEW p, NEW target,
           IsTargetOf(target, p, versions'), ChangeInContext(p, target)
    PROVE  /\ \A starts : DraftsStart(draft, contexts, starts) =>
                          DraftsStart(draft', contexts', starts)
           /\ \A e \in Entities : ClosedRecords(draft'.recs[e], contexts') =
                                  ClosedRecords(draft.recs[e], contexts)
<1> DEFINE log == ActiveLog(p)
           b == SetVersions(target, log, serial)
<1>1. /\ log # 0 \/ \A e \in DOMAIN target : VersionOf(draft.rows, e) = target[e]
      /\ draft' = b /\ UNCHANGED contexts
    BY DEF ChangeInContext
<1>2. /\ log \in Nat /\ serial \in Nat /\ serial <= serial
      /\ BranchOK(draft) /\ PkBound(draft, serial) /\ IsTarget(target)
    BY TypeInvTables, ActiveLogType DEF IsTargetOf
<1>4. /\ log = 0 \/ \E i \in 1..Len(contexts) : contexts[i].package = p /\ contexts[i].id = log
      /\ \A i \in 1..Len(contexts) : contexts[i].package = p => contexts[i].id = log
    BY ActiveLogIsOpen, ActiveLogOfContext, ReplayInvTables
<1>5. log = 0 => \A e \in Entities : b.recs[e] = draft.recs[e]
    BY <1>1, SetVersionsUnchanged
<1> HIDE DEF log
<1>6. /\ OnlyLog(b, draft, log)
      /\ \A e \in Entities :
            VersionOf(b.rows, e) = IF e \in DOMAIN target THEN target[e]
                                   ELSE VersionOf(draft.rows, e)
    BY <1>2, SetVersionsMembers
<1>7. \A e \in Entities : e \notin DOMAIN target => b.recs[e] = draft.recs[e]
    BY DEF SetVersions
<1>8. ASSUME NEW e \in Entities, NEW start,
             StartsFrom(draft.recs[e], log, VersionOf(draft.rows, e), start)
      PROVE  StartsFrom(b.recs[e], log, VersionOf(b.rows, e), start)
    BY <1>2, <1>8, SetVersionsStart
<1> HIDE DEF b
<1>9. ASSUME NEW starts, DraftsStart(draft, contexts, starts)
      PROVE  DraftsStart(b, contexts, starts)
    <2> SUFFICES ASSUME NEW e \in Entities
                 PROVE  /\ (\A i \in 1..Len(contexts) : contexts[i].package # PackageOf[e]) =>
                            VersionOf(b.rows, e) = starts[e]
                        /\ \A i \in 1..Len(contexts) : contexts[i].package = PackageOf[e] =>
                            StartsFrom(b.recs[e], contexts[i].id, VersionOf(b.rows, e), starts[e])
        BY DEF DraftsStart
    <2>1. /\ (\A i \in 1..Len(contexts) : contexts[i].package # PackageOf[e]) =>
                VersionOf(draft.rows, e) = starts[e]
          /\ \A i \in 1..Len(contexts) : contexts[i].package = PackageOf[e] =>
                StartsFrom(draft.recs[e], contexts[i].id, VersionOf(draft.rows, e), starts[e])
        BY <1>9 DEF DraftsStart
    <2>2. e \in DOMAIN target => PackageOf[e] = p
        BY DEF IsTargetOf
    <2>3. CASE PackageOf[e] # p
        <3>1. b.recs[e] = draft.recs[e] /\ VersionOf(b.rows, e) = VersionOf(draft.rows, e)
            BY <1>6, <1>7, <2>2, <2>3
        <3> QED
            BY <2>1, <3>1
    <2>4. CASE PackageOf[e] = p
        <3>1. ASSUME \A i \in 1..Len(contexts) : contexts[i].package # PackageOf[e]
              PROVE  VersionOf(b.rows, e) = starts[e]
            <4>1. log = 0
                BY <1>4, <2>4, <3>1
            <4> QED
                BY <1>1, <1>6, <2>1, <3>1, <4>1
        <3>2. ASSUME NEW i \in 1..Len(contexts), contexts[i].package = PackageOf[e]
              PROVE  StartsFrom(b.recs[e], contexts[i].id, VersionOf(b.rows, e), starts[e])
            BY <1>4, <1>8, <2>1, <2>4, <3>2
        <3> QED
            BY <3>1, <3>2
    <2> QED
        BY <2>3, <2>4
<1>10. ASSUME NEW e \in Entities
       PROVE  ClosedRecords(b.recs[e], contexts) = ClosedRecords(draft.recs[e], contexts)
    <2>1. CASE log = 0
        BY <1>5, <2>1
    <2>2. CASE \E i \in 1..Len(contexts) : contexts[i].id = log
        <3>1. \A r : (\A i \in 1..Len(contexts) : contexts[i].id # r.log) =>
                        (r \in b.recs[e] <=> r \in draft.recs[e])
            BY <1>6, <2>2 DEF OnlyLog
        <3> QED
            BY <3>1 DEF ClosedRecords
    <2> QED
        BY <1>4, <2>1, <2>2
<1> QED
    BY <1>1, <1>9, <1>10

LEMMA ChangeInContextEventInv ==
    ASSUME TypeInv, ReplayInv, EventInv, NEW p, NEW target,
           IsTargetOf(target, p, versions'), ChangeInContext(p, target)
    PROVE  EventInv'
<1>1. PICK starts : /\ DraftsStart(draft, contexts, starts)
                    /\ Tells(events \o outbox, starts, VersionsIn(published),
                             Recorded(draft, contexts))
    BY DEF EventInv
<1>2. OnCommit(<<>>) /\ UNCHANGED published
    BY DEF ChangeInContext
<1>3. DraftsStart(draft', contexts', starts)
    BY <1>1, ChangeInContextStarts
<1>4. \A e \in Entities : e \in Recorded(draft', contexts') <=> e \in Recorded(draft, contexts)
    BY ChangeInContextStarts DEF Recorded
<1>5. Tells(events \o outbox, starts, VersionsIn(published'), Recorded(draft', contexts'))
    BY <1>1, <1>2, <1>4, TellsSame
<1> QED
    BY <1>2, <1>3, <1>5, OnCommitNothing

\* A change of its own closes its log at once.
LEMMA ChangeInOwnLogCloses ==
    ASSUME TypeInv, LogInv, ReplayInv, NEW p, NEW target,
           MoreVersions(versions'), IsTargetOf(target, p, versions'),
           ChangeInOwnLog(versions', p, target),
           NEW starts, DraftsStart(draft, contexts, starts)
    PROVE  Closes(draft', serial + 1, p, contexts', starts)
<1> DEFINE log == serial + 1
           b == SetVersions(target, log, log)
           a == CreateSideEffects(versions', b, log, log)
<1>1. /\ draft' = a /\ serial' = log /\ ActiveLog(p) = 0 /\ UNCHANGED contexts
    BY DEF ChangeInOwnLog
<1>2. LogLastIn(a, log, p)
    BY <1>1, ChangeInOwnLogReplayInv
<1>3. /\ OwnLogChange(b, log, p, versions') /\ log \in Nat
      /\ \A e \in Entities : ~ InLog(draft.recs[e], log)
    BY ChangeOpensLog
<1>4. BranchOK(draft) /\ PkBound(draft, log) /\ IsTarget(target) /\ log <= log
    BY TypeInvTables, PkBoundGrows DEF IsTargetOf
<1>5. \A i \in 1..Len(contexts) : contexts[i].package # p /\ contexts[i].id # log
    <2>1. \A i \in 1..Len(contexts) : contexts[i].id # log
        BY FreshLog, LogInvTables DEF ContextsInv
    <2> QED
        BY <1>1, <2>1, NoContextOfPackage, ReplayInvTables
<1> HIDE DEF log
<1>6. \A e \in Entities : VersionOf(b.rows, e) = IF e \in DOMAIN target THEN target[e]
                                                 ELSE VersionOf(draft.rows, e)
    BY <1>3, <1>4, SetVersionsMembers
<1>7. ASSUME NEW e \in Entities
      PROVE  StartsFrom(b.recs[e], log, VersionOf(b.rows, e), VersionOf(draft.rows, e))
    <2>1. StartsFrom(draft.recs[e], log, VersionOf(draft.rows, e), VersionOf(draft.rows, e))
        BY <1>3 DEF StartsFrom
    <2> QED
        BY <1>3, <1>4, <2>1, SetVersionsStart
<1> HIDE DEF b
<1>8. OnlyLog(a, draft, log) /\ LogOfPackage(a, log, p)
    BY <1>3, SideEffectsStep, OnlyLogTransitive DEF MoreVersions, OwnLogChange
<1>9. PICK affected : WithSideEffects(a, b, log, log, affected)
    BY SideEffectsMembers
<1> HIDE DEF a
<1>10. ASSUME NEW e \in Entities
       PROVE  /\ StartsFrom(a.recs[e], log, VersionOf(a.rows, e), VersionOf(draft.rows, e))
              /\ VersionOf(a.rows, e) = VersionOf(b.rows, e)
    <2> DEFINE old == VersionOf(draft.rows, e)
    <2>1. StartsFrom(b.recs[e], log, VersionOf(b.rows, e), old) /\ BranchOK(b)
        BY <1>3, <1>7 DEF OwnLogChange
    <2> HIDE DEF old
    <2>2. VersionOf(a.rows, e) = VersionOf(b.rows, e)
        BY <1>3, <1>9, <2>1, SideEffectsStart
    <2>3. StartsFrom(a.recs[e], log, VersionOf(a.rows, e), old)
        BY <1>3, <1>9, <2>1, SideEffectsStart
    <2> QED
        BY <2>2, <2>3 DEF old
<1>11. ASSUME NEW e \in Entities
       PROVE  /\ PackageOf[e] = p =>
                    StartsFrom(a.recs[e], log, VersionOf(a.rows, e), starts[e])
              /\ PackageOf[e] # p =>
                    a.recs[e] = draft.recs[e] /\ VersionOf(a.rows, e) = VersionOf(draft.rows, e)
    <2>1. CASE PackageOf[e] = p
        <3>1. VersionOf(draft.rows, e) = starts[e]
            BY <1>5, <2>1 DEF DraftsStart
        <3> QED
            BY <1>10, <2>1, <3>1
    <2>2. CASE PackageOf[e] # p
        <3>1. LogOfPackage(draft, log, p)
            BY <1>3 DEF LogOfPackage
        <3>2. \A r : r \in a.recs[e] <=> r \in draft.recs[e]
            BY <1>8, <2>2, <3>1, OtherPackagesKept
        <3>3. e \notin DOMAIN target
            BY <2>2 DEF IsTargetOf
        <3> QED
            BY <1>6, <1>10, <2>2, <3>2, <3>3
    <2> QED
        BY <2>1, <2>2
<1> QED
    BY <1>1, <1>2, <1>3, <1>5, <1>8, <1>11 DEF Closes, log

LEMMA ChangeInOwnLogEventInv ==
    ASSUME TypeInv, TypeInv', LogInv, ReplayInv, ReplayInv', EventInv, NEW p, NEW target,
           MoreVersions(versions'), IsTargetOf(target, p, versions'),
           ChangeInOwnLog(versions', p, target)
    PROVE  EventInv'
<1> DEFINE log == serial + 1
           x == ChangeLogEvent("draft", draft', log)
<1>1. OnCommit(<<x>>) /\ UNCHANGED published
    BY DEF ChangeInOwnLog
<1>2. PICK starts : /\ DraftsStart(draft, contexts, starts)
                    /\ Tells(events \o outbox, starts, VersionsIn(published),
                             Recorded(draft, contexts))
    BY DEF EventInv
<1>3. Closes(draft', log, p, contexts', starts)
    BY <1>2, ChangeInOwnLogCloses
<1>4. log \in Nat
    BY TypeInvTables
<1> HIDE DEF log
<1> QED
    BY <1>1, <1>2, <1>3, <1>4, ClosedLogEventInv

\* A context that opens leaves the drafts where they are, with an empty log.
LEMMA BulkEnterStarts ==
    ASSUME ~ Reentrant, TypeInv, LogInv, ReplayInv, NEW p \in Packages, BulkEnter(p)
    PROVE  /\ \A starts : DraftsStart(draft, contexts, starts) =>
                          DraftsStart(draft, contexts', starts)
           /\ \A e \in Entities : ClosedRecords(draft.recs[e], contexts') =
                                  ClosedRecords(draft.recs[e], contexts)
<1> DEFINE l0 == [id |-> serial + 1, package |-> p]
<1>1. contexts' = Append(contexts, l0) /\ ActiveLog(p) = 0
    BY DEF BulkEnter
<1>2. l0.id = serial + 1 /\ l0.package = p
    BY TypeInvTables
<1> HIDE DEF l0
<1>3. /\ Len(contexts') = Len(contexts) + 1 /\ Len(contexts) \in Nat
      /\ \A i \in 1..Len(contexts) : i \in 1..Len(contexts') /\ contexts'[i] = contexts[i]
      /\ Len(contexts) + 1 \in 1..Len(contexts')
      /\ contexts'[Len(contexts) + 1] = l0
      /\ \A i \in 1..Len(contexts') : i \in 1..Len(contexts) \/ i = Len(contexts) + 1
    BY <1>1, TypeInvTables
<1>4. \A i \in 1..Len(contexts) : contexts[i].package # p
    BY <1>1, NoContextOfPackage, ReplayInvTables
<1>5. \A e \in Entities : ~ InLog(draft.recs[e], serial + 1)
    BY FreshLog
<1>6. ASSUME NEW starts, DraftsStart(draft, contexts, starts)
      PROVE  DraftsStart(draft, contexts', starts)
    <2> SUFFICES ASSUME NEW e \in Entities
                 PROVE  /\ (\A i \in 1..Len(contexts') : contexts'[i].package # PackageOf[e]) =>
                            VersionOf(draft.rows, e) = starts[e]
                        /\ \A i \in 1..Len(contexts') : contexts'[i].package = PackageOf[e] =>
                            StartsFrom(draft.recs[e], contexts'[i].id,
                                       VersionOf(draft.rows, e), starts[e])
        BY DEF DraftsStart
    <2>1. /\ (\A i \in 1..Len(contexts) : contexts[i].package # PackageOf[e]) =>
                VersionOf(draft.rows, e) = starts[e]
          /\ \A i \in 1..Len(contexts) : contexts[i].package = PackageOf[e] =>
                StartsFrom(draft.recs[e], contexts[i].id, VersionOf(draft.rows, e), starts[e])
        BY <1>6 DEF DraftsStart
    <2>2. ASSUME \A i \in 1..Len(contexts') : contexts'[i].package # PackageOf[e]
          PROVE  VersionOf(draft.rows, e) = starts[e]
        BY <1>3, <2>1, <2>2
    <2>3. ASSUME NEW i \in 1..Len(contexts'), contexts'[i].package = PackageOf[e]
          PROVE  StartsFrom(draft.recs[e], contexts'[i].id, VersionOf(draft.rows, e), starts[e])
        <3>1. CASE i \in 1..Len(contexts)
            BY <1>3, <2>1, <2>3, <3>1
        <3>2. CASE i = Len(contexts) + 1
            <4>1. contexts'[i].id = serial + 1 /\ VersionOf(draft.rows, e) = starts[e]
                BY <1>2, <1>3, <1>4, <2>1, <2>3, <3>2
            <4> QED
                BY <1>5, <4>1 DEF StartsFrom
        <3> QED
            BY <1>3, <3>1, <3>2
    <2> QED
        BY <2>2, <2>3
<1>7. ASSUME NEW e \in Entities
      PROVE  ClosedRecords(draft.recs[e], contexts') = ClosedRecords(draft.recs[e], contexts)
    <2>1. ASSUME NEW r \in draft.recs[e]
          PROVE  (\A i \in 1..Len(contexts') : contexts'[i].id # r.log)
                    <=> \A i \in 1..Len(contexts) : contexts[i].id # r.log
        <3>1. r.log # serial + 1
            BY <1>5 DEF InLog
        <3> QED
            BY <1>2, <1>3, <3>1
    <2> QED
        BY <2>1 DEF ClosedRecords
<1> QED
    BY <1>6, <1>7

LEMMA BulkEnterEventInv ==
    ASSUME ~ Reentrant, TypeInv, LogInv, ReplayInv, EventInv, NEW p \in Packages, BulkEnter(p)
    PROVE  EventInv'
<1>1. UNCHANGED <<draft, published, committed, outbox, events>>
    BY DEF BulkEnter
<1>2. PICK starts : /\ DraftsStart(draft, contexts, starts)
                    /\ Tells(events \o outbox, starts, VersionsIn(published),
                             Recorded(draft, contexts))
    BY DEF EventInv
<1>3. DraftsStart(draft, contexts', starts)
    BY <1>2, BulkEnterStarts
<1>4. \A e \in Entities : e \in Recorded(draft, contexts') <=> e \in Recorded(draft, contexts)
    BY BulkEnterStarts DEF Recorded
<1>5. Tells(events \o outbox, starts, VersionsIn(published), Recorded(draft, contexts'))
    BY <1>2, <1>4, TellsSame
<1> QED
    BY <1>1, <1>3, <1>5 DEF EventInv

\* The innermost context closes its log.
LEMMA BulkExitCloses ==
    ASSUME TypeInv, LogInv, ReplayInv, BulkExit,
           NEW starts, DraftsStart(draft, contexts, starts)
    PROVE  LET l0 == contexts[Len(contexts)]
           IN  Closes(draft', l0.id, l0.package, contexts', starts)
<1> DEFINE last == Len(contexts)
           l0 == contexts[last]
           log == l0.id
           p == l0.package
           a == CreateSideEffects(versions, draft, log, serial')
<1>1. /\ contexts # <<>> /\ draft' = a
      /\ contexts' = SubSeq(contexts, 1, last - 1) /\ serial' = serial + 1
    BY DEF BulkExit
<1>2. /\ last \in 1..Len(contexts) /\ last \in Nat
      /\ \A i \in 1..Len(contexts') : i \in 1..Len(contexts) /\ i # last
                                      /\ contexts'[i] = contexts[i]
      /\ \A i \in 1..Len(contexts) : i = last \/ i \in 1..Len(contexts')
    <2>1. last \in 1..Len(contexts) /\ last \in Nat
        BY <1>1, TypeInvTables
    <2>2. /\ Len(contexts') = last - 1
          /\ \A i \in 1..Len(contexts') : contexts'[i] = contexts[i]
          /\ \A i \in 1..Len(contexts) : i = last \/ i \in 1..Len(contexts')
        BY <1>1, ContextLeft, TypeInvTables
    <2> QED
        BY <2>1, <2>2
<1>4. LogLastIn(a, log, p)
    BY <1>1, BulkExitReplayInv
<1> HIDE DEF last
<1>5. l0 \in Log /\ l0 \in draftLogs
    BY <1>2, TypeInvTables, LogInvTables DEF ContextsInv
<1>6. log \in Nat /\ [id |-> log, package |-> p] = l0 /\ serial' \in Nat
    BY <1>1, <1>5, TypeInvTables DEF Log
<1>7. \A i \in 1..Len(contexts) : i # last =>
        contexts[i].package # p /\ contexts[i].id # log
    <2> SUFFICES ASSUME NEW i \in 1..Len(contexts), i # last
                 PROVE  contexts[i].package # p /\ contexts[i].id # log
        OBVIOUS
    <2>1. contexts[i].package # p
        BY <1>2, ReplayInvTables DEF OpenLogsInv
    <2>2. contexts[i].id # log
        BY <1>2, LogInvTables DEF ContextsInv
    <2> QED
        BY <2>1, <2>2
<1>8. contexts[last].package = p /\ contexts[last].id = log
    OBVIOUS
<1>9. LogOfPackage(draft, log, p)
    BY <1>5, <1>6, LogInvTables, LogHasOnePackage
<1> HIDE DEF log, p, l0
<1>10. OnlyLog(a, draft, log) /\ LogOfPackage(a, log, p)
    BY <1>6, <1>9, TypeInvTables, LogInvTables, SideEffectsStep
<1>11. PICK affected : WithSideEffects(a, draft, log, serial', affected)
    BY SideEffectsMembers
<1>12. \A e \in Entities : InLog(draft.recs[e], log) => InLog(a.recs[e], log)
    BY <1>6, <1>9, TypeInvTables, LogInvTables, SideEffectsStep DEF KeepsLogs
<1> HIDE DEF a
<1>14. ASSUME NEW e \in Entities, NEW start,
              StartsFrom(draft.recs[e], log, VersionOf(draft.rows, e), start)
       PROVE  /\ StartsFrom(a.recs[e], log, VersionOf(a.rows, e), start)
              /\ VersionOf(a.rows, e) = VersionOf(draft.rows, e)
    <2>1. VersionOf(a.rows, e) = VersionOf(draft.rows, e)
        BY <1>6, <1>11, <1>14, SideEffectsStart, TypeInvTables
    <2>2. StartsFrom(a.recs[e], log, VersionOf(a.rows, e), start)
        BY <1>6, <1>11, <1>14, SideEffectsStart, TypeInvTables
    <2> QED
        BY <2>1, <2>2
<1>15. ASSUME NEW e \in Entities
       PROVE  /\ PackageOf[e] = p =>
                    StartsFrom(a.recs[e], log, VersionOf(a.rows, e), starts[e])
              /\ PackageOf[e] # p =>
                    a.recs[e] = draft.recs[e] /\ VersionOf(a.rows, e) = VersionOf(draft.rows, e)
    <2>1. CASE PackageOf[e] = p
        <3>1. StartsFrom(draft.recs[e], log, VersionOf(draft.rows, e), starts[e])
            BY <1>2, <1>8, <2>1 DEF DraftsStart
        <3> QED
            BY <1>14, <2>1, <3>1
    <2>2. CASE PackageOf[e] # p
        <3>1. \A r : r \in a.recs[e] <=> r \in draft.recs[e]
            BY <1>9, <1>10, <2>2, OtherPackagesKept
        <3>2. StartsFrom(draft.recs[e], log, VersionOf(draft.rows, e), VersionOf(draft.rows, e))
            BY <1>9, <2>2 DEF StartsFrom, LogOfPackage
        <3>3. VersionOf(a.rows, e) = VersionOf(draft.rows, e)
            BY <1>14, <3>2
        <3> QED
            BY <2>2, <3>1, <3>3
    <2> QED
        BY <2>1, <2>2
<1>16. /\ \A i \in 1..Len(contexts) : contexts[i].package = p <=> contexts[i].id = log
       /\ \E i \in 1..Len(contexts) : contexts[i].id = log
    BY <1>2, <1>7, <1>8
<1>17. /\ \A i \in 1..Len(contexts') : /\ contexts'[i].package # p
                                       /\ \E j \in 1..Len(contexts) : contexts[j] = contexts'[i]
       /\ \A j \in 1..Len(contexts) : contexts[j].package # p =>
            \E i \in 1..Len(contexts') : contexts[j] = contexts'[i]
    BY <1>2, <1>7, <1>8
<1> QED
    BY <1>1, <1>4, <1>10, <1>12, <1>15, <1>16, <1>17 DEF Closes, log, p, l0, last

LEMMA BulkExitEventInv ==
    ASSUME TypeInv, TypeInv', LogInv, ReplayInv, ReplayInv', EventInv, BulkExit
    PROVE  EventInv'
<1> DEFINE l0 == contexts[Len(contexts)]
           log == l0.id
           p == l0.package
<1>1. /\ OnCommit(<<ChangeLogEvent("draft", draft', log)>>) /\ UNCHANGED published
      /\ contexts # <<>>
    BY DEF BulkExit
<1>2. PICK starts : /\ DraftsStart(draft, contexts, starts)
                    /\ Tells(events \o outbox, starts, VersionsIn(published),
                             Recorded(draft, contexts))
    BY DEF EventInv
<1>3. Closes(draft', log, p, contexts', starts)
    BY <1>2, BulkExitCloses
<1>4. log \in Nat
    <2>1. l0 \in Log
        BY <1>1, TypeInvTables
    <2> QED
        BY <2>1 DEF Log
<1> HIDE DEF log, p
<1> QED
    BY <1>1, <1>2, <1>3, <1>4, ClosedLogEventInv

LEMMA BulkAbortEventInv ==
    ASSUME TypeInv, EventInv, BulkAbort
    PROVE  EventInv'
<1>1. /\ draft' = committed.draft /\ published' = committed.published
      /\ contexts' = <<>> /\ outbox' = <<>> /\ UNCHANGED <<committed, events>>
    BY DEF BulkAbort
<1>2. events' \o outbox' = events
    BY <1>1, TypeInvTables, ConcatEmptySeq
<1>3. Tells(events, VersionsIn(committed.draft), VersionsIn(committed.published),
            Recorded(committed.draft, <<>>))
    BY DEF EventInv
<1>4. DraftsStart(draft', contexts', VersionsIn(draft'))
    BY <1>1 DEF DraftsStart, VersionsIn
<1>5. Tells(events' \o outbox', VersionsIn(draft'), VersionsIn(published'),
            Recorded(draft', contexts'))
    BY <1>1, <1>2, <1>3
<1> QED
    BY <1>1, <1>3, <1>4, <1>5 DEF EventInv

\* A publish starts every entity where it was published before.
LEMMA PublishStarts ==
    ASSUME TypeInv, LogInv, ReplayInv, NEW S, NEW all, NEW a,
           LET log == Len(publishLogs) + 1
           IN  a = CreateSideEffects(versions, PublishedAfter(S, all, log), log, log)
    PROVE  \A e \in Entities :
                StartsFrom(a.recs[e], Len(publishLogs) + 1, VersionOf(a.rows, e),
                           VersionOf(published.rows, e))
<1> DEFINE log == Len(publishLogs) + 1
           b == PublishedAfter(S, all, log)
<1>1. BranchOK(b) /\ log \in Nat /\ \A e \in Entities : ~ InLog(published.recs[e], log)
    BY PublishedAfterStep, ReplayInvTables
<1>2. PICK affected : WithSideEffects(a, b, log, log, affected)
    BY SideEffectsMembers
<1> HIDE DEF log
<1>3. ASSUME NEW e \in Entities
      PROVE  StartsFrom(b.recs[e], log, VersionOf(b.rows, e), VersionOf(published.rows, e))
    <2> DEFINE old == VersionOf(published.rows, e)
               new == VersionOf(draft.rows, e)
               r == Record(log, log, old, new, e \in S, {})
    <2> SUFFICES StartsFrom(b.recs[e], log, VersionOf(b.rows, e), old)
        OBVIOUS
    <2>1. CASE e \in all
        <3>1. b.recs[e] = published.recs[e] \cup {r}
            BY <2>1 DEF PublishedAfter
        <3>2. r.log = log /\ r.old = old
            BY DEF Record
        <3> HIDE DEF b, r, old
        <3> QED
            BY <1>1, <3>1, <3>2 DEF StartsFrom, InLog
    <2>2. CASE e \notin all
        <3>1. b.recs[e] = published.recs[e] /\ b.rows[e] = published.rows[e]
            BY <2>2 DEF PublishedAfter
        <3>2. VersionOf(b.rows, e) = old
            BY <3>1 DEF VersionOf
        <3> HIDE DEF b, old
        <3> QED
            BY <1>1, <3>1, <3>2 DEF StartsFrom, InLog
    <2> QED
        BY <2>1, <2>2
<1> HIDE DEF b
<1>4. ASSUME NEW e \in Entities
      PROVE  StartsFrom(a.recs[e], log, VersionOf(a.rows, e), VersionOf(published.rows, e))
    <2> DEFINE old == VersionOf(published.rows, e)
    <2>1. StartsFrom(b.recs[e], log, VersionOf(b.rows, e), old)
        BY <1>3
    <2> HIDE DEF old
    <2>2. StartsFrom(a.recs[e], log, VersionOf(a.rows, e), old)
        BY <1>1, <1>2, <2>1, SideEffectsStart
    <2> QED
        BY <2>2 DEF old
<1> QED
    BY <1>4 DEF log

LEMMA PublishFromDraftsEventInv ==
    ASSUME TypeInv, TypeInv', LogInv, LogInv', ReplayInv, ReplayInv', EventInv,
           NEW p \in Packages, NEW S \in SUBSET Entities, NEW kind,
           NEW dependencies \in BOOLEAN, PublishFromDrafts(p, S, kind, dependencies)
    PROVE  EventInv'
<1> DEFINE log == Len(publishLogs) + 1
           all == S \cup IF dependencies THEN DependenciesToPublish(S, kind) ELSE {}
           a == published'
           x == ChangeLogEvent("published", a, log)
           before == VersionsIn(published)
           after == VersionsIn(a)
<1>1. /\ a = CreateSideEffects(versions, PublishedAfter(S, all, log), log, log)
      /\ publishLogs' = Append(publishLogs, p)
      /\ UNCHANGED <<draft, contexts>> /\ OnCommit(<<x>>)
    BY DEF PublishFromDrafts
<1>2. log \in Nat
    BY TypeInvTables
<1>3. publishLogs'[log] = p
    BY <1>1, TypeInvTables
<1>4. LogLastIn(a, log, p)
    BY PublishFromDraftsReplayInv
<1>5. BranchOK(a) /\ BranchReplays(a)
    BY DEF TypeInv, TypeOK, DbOK, Db, ReplayInv, DbReplays
<1>6. LogOfPackage(a, log, p)
    <2>1. PublishRecordsLogged(published', publishLogs')
        BY DEF LogInv, DbInv, Db
    <2> QED
        BY <1>3, <2>1 DEF PublishRecordsLogged, LogOfPackage, InLog
<1>7. x \in Event
    BY <1>2, <1>5, ChangeLogEventType
<1> HIDE DEF all
<1>8. \A e \in Entities :
        StartsFrom(a.recs[e], log, VersionOf(a.rows, e), VersionOf(published.rows, e))
    BY <1>1, PublishStarts
<1> HIDE DEF log
<1>9. PICK starts : /\ DraftsStart(draft, contexts, starts)
                    /\ Tells(events \o outbox, starts, before, Recorded(draft, contexts))
    BY DEF EventInv
<1>10. ASSUME NEW e \in Entities
       PROVE  /\ Continues(x, "draft", e, starts[e], starts[e])
              /\ Continues(x, "published", e, before[e], after[e])
    <2>1. Continues(x, "draft", e, starts[e], starts[e])
        BY <1>2, <1>4, <1>5, <1>6, EventContinues
    <2>2. Continues(x, "published", e, VersionOf(published.rows, e), VersionOf(a.rows, e))
        <3> DEFINE old == VersionOf(published.rows, e)
        <3>1. StartsFrom(a.recs[e], log, VersionOf(a.rows, e), old)
            BY <1>8
        <3> HIDE DEF old
        <3>2. Continues(x, "published", e, old, VersionOf(a.rows, e))
            BY <1>2, <1>4, <1>5, <1>6, <3>1, EventContinues
        <3> QED
            BY <3>2 DEF old
    <2> QED
        BY <2>1, <2>2 DEF VersionsIn
<1>11. x.branch = "published"
    BY DEF ChangeLogEvent
<1> DEFINE s == events \o outbox
           seen == Recorded(draft, contexts)
<1>12. s \in Seq(Event) /\ Tells(s, starts, before, seen)
    BY <1>9, TypeInvTables
<1> HIDE DEF x, before, after, s, seen
<1>13. /\ \A e \in Entities :
            /\ Continues(x, "draft", e, starts[e], starts[e])
            /\ Continues(x, "published", e, before[e], after[e])
            /\ e \in seen <=> e \in seen \/ (x.branch = "draft" /\
                                             \E c \in x.changes : c.entity = e)
       /\ x.branch = "draft" => \A c \in x.changes :
            /\ c.entity \in Entities
            /\ c.restored <=> c.old = 0 /\ c.new # 0 /\ c.entity \in seen
    BY <1>10, <1>11
<1>14. Tells(Append(s, x), starts, after, seen)
    BY <1>7, <1>12, <1>13, TellsMore
<1>15. Tells(Append(events \o outbox, x), starts, VersionsIn(published'),
             Recorded(draft', contexts'))
    BY <1>1, <1>14 DEF s, seen, after
<1>16. DraftsStart(draft', contexts', starts)
    BY <1>1, <1>9
<1> QED
    BY <1>1, <1>7, <1>15, <1>16, OnCommitOne

-----------------------------------------------------------------------------
(* The theorem on events.                                                  *)

LEMMA InitEventInv == Init => EventInv
<1> SUFFICES ASSUME Init PROVE EventInv
    OBVIOUS
<1>1. /\ \A e \in Entities : draft.rows[e] = NoRow /\ draft.recs[e] = {}
      /\ published = draft /\ contexts = <<>> /\ committed = Db
      /\ outbox = <<>> /\ events = <<>>
    BY DEF Init
<1>2. committed.draft = draft /\ committed.published = draft
    BY <1>1 DEF Db
<1>3. \A e \in Entities : VersionsIn(draft)[e] = 0 /\ VersionOf(draft.rows, e) = 0
    BY <1>1 DEF VersionsIn, VersionOf
<1>4. Recorded(draft, <<>>) = {}
    BY <1>1 DEF Recorded, ClosedRecords
<1>5. \A branch, e : Says(<<>>, branch, e) = {}
    BY DEF Says
<1>6. Tells(<<>>, VersionsIn(draft), VersionsIn(draft), Recorded(draft, <<>>))
    <2>1. FlagsRestored(<<>>)
        BY DEF FlagsRestored
    <2> QED
        BY <1>3, <1>4, <1>5, <2>1 DEF Tells, Told
<1>7. DraftsStart(draft, contexts, VersionsIn(draft))
    BY <1>1, <1>3 DEF DraftsStart
<1>8. events \o outbox = <<>>
    BY <1>1
<1> QED
    BY <1>1, <1>2, <1>6, <1>7, <1>8 DEF EventInv

LEMMA NextEventInv ==
    ASSUME ~ Reentrant, TypeInv, TypeInv', LogInv, LogInv', ReplayInv, ReplayInv', EventInv,
           [Next]_vars
    PROVE  EventInv'
<1>1. ASSUME NEW p \in Packages, NEW target, DraftsChange(p, target)
      PROVE  EventInv'
    BY <1>1, ChangeInContextEventInv, ChangeInOwnLogEventInv DEF DraftsChange, ChangeDrafts
<1>2. ASSUME NEW p \in Packages, BulkEnter(p)
      PROVE  EventInv'
    BY <1>2, BulkEnterEventInv
<1>3. CASE BulkExit
    BY <1>3, BulkExitEventInv
<1>4. CASE BulkAbort
    BY <1>4, BulkAbortEventInv
<1>5. ASSUME NEW p \in Packages, NEW S \in SUBSET Entities, NEW kind,
             NEW dependencies \in BOOLEAN, PublishFromDrafts(p, S, kind, dependencies)
      PROVE  EventInv'
    BY <1>5, PublishFromDraftsEventInv
<1>6. CASE UNCHANGED vars
    <2>1. UNCHANGED <<draft, published, contexts, committed, outbox, events>>
        BY <1>6 DEF vars
    <2>2. PICK starts : /\ DraftsStart(draft, contexts, starts)
                        /\ Tells(events \o outbox, starts, VersionsIn(published),
                                 Recorded(draft, contexts))
        BY DEF EventInv
    <2>3. /\ DraftsStart(draft', contexts', starts)
          /\ Tells(events' \o outbox', starts, VersionsIn(published'),
                   Recorded(draft', contexts'))
        BY <2>1, <2>2
    <2>4. Tells(events', VersionsIn(committed'.draft), VersionsIn(committed'.published),
                Recorded(committed'.draft, <<>>))
        BY <2>1 DEF EventInv
    <2> QED
        BY <2>3, <2>4 DEF EventInv
<1> QED
    BY <1>1, <1>2, <1>3, <1>4, <1>5, <1>6, StepsAre

\* What the events tell is what a subscriber ends with.
LEMMA TellsReplay ==
    ASSUME TypeInv, EventInv
    PROVE  EventsReplay
<1>1. Tells(events, VersionsIn(committed.draft), VersionsIn(committed.published),
            Recorded(committed.draft, <<>>))
    BY DEF EventInv
<1>2. \A branch, e : Mentions(branch, e) = Says(events, branch, e)
    BY DEF Mentions, Says
<1>3. RestoredWhenSeenBefore
    BY <1>1, <1>2 DEF Tells, FlagsRestored, RestoredWhenSeenBefore
<1>4. ASSUME NEW branch \in {"draft", "published"}, NEW e \in Entities
      PROVE  LET at  == Mentions(branch, e)
                 now == VersionOf(IF branch = "draft" THEN committed.draft.rows
                                  ELSE committed.published.rows, e)
             IN  /\ at = {} => now = 0
                 /\ \A i \in at :
                     LET before == {j \in at : j < i} IN
                     /\ (\A j \in at : j <= i) => ChangeOf(i, e).new = now
                     /\ before = {} => ChangeOf(i, e).old = 0
                     /\ \A j \in before : (\A k \in before : k <= j) =>
                         ChangeOf(i, e).old = ChangeOf(j, e).new
    <2> DEFINE at == Says(events, branch, e)
               now == VersionOf(IF branch = "draft" THEN committed.draft.rows
                                ELSE committed.published.rows, e)
    <2>1. Told(events, branch, e, now)
        BY <1>1 DEF Tells, VersionsIn
    <2>2. \A i \in at : i \in Nat /\ ChangeOf(i, e) \in events[i].changes
                        /\ ChangeOf(i, e).entity = e
        BY DEF Says, ChangeOf
    <2>3. Mentions(branch, e) = at
        BY <1>2
    <2> HIDE DEF now
    <2>4. /\ at = {} => now = 0
          /\ \A i \in at : \A c \in events[i].changes : c.entity = e =>
                /\ (\A j \in at : j <= i) => c.new = now
                /\ (\A j \in at : i <= j) => c.old = 0
                /\ \A j \in at : j < i /\ (\A k \in at : k < i => k <= j) =>
                    \A d \in events[j].changes : d.entity = e => c.old = d.new
        BY <2>1 DEF Told
    <2> HIDE DEF at
    <2>5. ASSUME NEW i \in at
          PROVE  /\ (\A j \in at : j <= i) => ChangeOf(i, e).new = now
                 /\ {j \in at : j < i} = {} => ChangeOf(i, e).old = 0
                 /\ \A j \in {k \in at : k < i} : (\A k \in {m \in at : m < i} : k <= j) =>
                     ChangeOf(i, e).old = ChangeOf(j, e).new
        <3>1. (\A j \in at : j <= i) => ChangeOf(i, e).new = now
            BY <2>2, <2>4
        <3>2. {j \in at : j < i} = {} => ChangeOf(i, e).old = 0
            <4>1. {j \in at : j < i} = {} => \A j \in at : i <= j
                BY <2>2
            <4> QED
                BY <2>2, <2>4, <4>1
        <3>3. \A j \in {k \in at : k < i} : (\A k \in {m \in at : m < i} : k <= j) =>
                ChangeOf(i, e).old = ChangeOf(j, e).new
            BY <2>2, <2>4
        <3> QED
            BY <3>1, <3>2, <3>3
    <2> QED
        BY <2>3, <2>4, <2>5 DEF now
<1> QED
    BY <1>3, <1>4 DEF EventsReplay

\* Where contexts of one package are not nested, a subscriber that applies the
\* events in the order they are sent holds the committed versions: although
\* on_commit defers them to the end of the outermost context, and the changes
\* of a log are collapsed and cancelled until then, no event is missing, early
\* or out of order, and the restored flag agrees with what was sent before.
THEOREM EventsTellTheStory ==
    ASSUME ~ Reentrant
    PROVE  Spec => []EventsReplay
<1>1. Init => EventInv
    BY InitEventInv
<1>2. TypeInv /\ TypeInv' /\ LogInv /\ LogInv' /\ ReplayInv /\ ReplayInv' /\ EventInv
        /\ [Next]_vars => EventInv'
    BY NextEventInv
<1>3. TypeInv /\ EventInv => EventsReplay
    BY TellsReplay
<1> QED
    BY <1>1, <1>2, <1>3, ReplayInvariance, PTL DEF Spec
=============================================================================
