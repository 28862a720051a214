----------------------- MODULE Publishing_digest_proofs ------------------------
(***************************************************************************)
(* The cached dependency digests are fresh on both branches, so comparing  *)
(* the two digests of an entity tells whether it differs below: theorems   *)
(* about module Publishing for every value of its constants, where no      *)
(* context is opened inside one of the same package.                       *)
(***************************************************************************)
EXTENDS Publishing_proofs

-----------------------------------------------------------------------------
(* The recursion of hash_for_log_record reaches its fixpoint.              *)

\* The entities whose record in the log is hashed anew.
InItsLog(b, log, e) == LogRecordOf(b.rows, e) = log /\ InLog(b.recs[e], log)

\* The record of each such entity is of a version it has.
HashesVersions(vs, b, log) ==
    \A e \in Entities : InItsLog(b, log, e) => CurrentRecord(b, e).new \in 0..Len(vs[e])

AgreeBelow(x, y, n) == \A e \in Entities : Level[e] < n => x[e] = y[e]
AgreeElsewhere(x, y, b, log) == \A e \in Entities : ~ InItsLog(b, log, e) => x[e] = y[e]

LEMMA LevelsAre == \A e \in Entities : Level[e] \in Nat /\ 0 <= Level[e] /\ Level[e] < 4
<1>1. \A e \in Entities : Level[e] \in 0..3
    BY ConstantsAssumption
<1> QED
    BY <1>1

\* Dependencies lie lower, in the same package.
LEMMA DependenciesAre ==
    ASSUME NEW vs, OwnDependencies(vs), vs \in [Entities -> Seq(SUBSET Entities)],
           NEW e \in Entities, NEW n \in 0..Len(vs[e])
    PROVE  \A d \in DependenciesOf(vs, e, n) :
                d \in Entities /\ PackageOf[d] = PackageOf[e] /\ Level[d] < Level[e]
<1>1. CASE n = 0
    BY <1>1 DEF DependenciesOf
<1>2. CASE n # 0
    <2>1. n \in 1..Len(vs[e]) /\ vs[e] \in Seq(SUBSET Entities)
        BY <1>2
    <2>2. vs[e][n] \subseteq Entities
        BY <2>1
    <2> QED
        BY <1>2, <2>1, <2>2 DEF DependenciesOf, OwnDependencies
<1> QED
    BY <1>1, <1>2

\* The state of a version depends on the digests of lower entities only.
LEMMA StateOfLower ==
    ASSUME NEW vs, OwnDependencies(vs), vs \in [Entities -> Seq(SUBSET Entities)],
           NEW b, NEW e \in Entities, NEW n \in 0..Len(vs[e]), NEW x, NEW y,
           \A d \in Entities : Level[d] < Level[e] => x[d] = y[d]
    PROVE  DependencyState(vs, b, x, e, n) = DependencyState(vs, b, y, e, n)
<1>1. \A d \in DependenciesOf(vs, e, n) : d \in Entities /\ Level[d] < Level[e]
    BY DependenciesAre
<1>2. \A d \in LiveDependencies(vs, b.rows, e, n) : x[d] = y[d]
    BY <1>1 DEF LiveDependencies
<1> QED
    BY <1>2 DEF DependencyState

\* Each unfolding extends the agreement by one level.
LEMMA RehashAgrees ==
    ASSUME NEW vs, OwnDependencies(vs), vs \in [Entities -> Seq(SUBSET Entities)],
           NEW b, NEW log, HashesVersions(vs, b, log), NEW x, NEW y, NEW n \in Nat,
           AgreeBelow(x, y, n), AgreeElsewhere(x, y, b, log)
    PROVE  AgreeBelow(Rehash(vs, b, log, x), Rehash(vs, b, log, y), n + 1)
<1> SUFFICES ASSUME NEW e \in Entities, Level[e] < n + 1
             PROVE  Rehash(vs, b, log, x)[e] = Rehash(vs, b, log, y)[e]
    BY DEF AgreeBelow
<1>1. CASE InItsLog(b, log, e)
    <2> DEFINE v == CurrentRecord(b, e).new
    <2>1. v \in 0..Len(vs[e])
        BY <1>1 DEF HashesVersions
    <2>2. \A d \in Entities : Level[d] < Level[e] => x[d] = y[d]
        BY LevelsAre DEF AgreeBelow
    <2>3. /\ Rehash(vs, b, log, x)[e] = DependencyState(vs, b, x, e, v)
          /\ Rehash(vs, b, log, y)[e] = DependencyState(vs, b, y, e, v)
        BY <1>1 DEF Rehash, InItsLog
    <2> HIDE DEF v
    <2> QED
        BY <2>1, <2>2, <2>3, StateOfLower
<1>2. CASE ~ InItsLog(b, log, e)
    BY <1>2 DEF Rehash, InItsLog, AgreeElsewhere
<1> QED
    BY <1>1, <1>2

LEMMA RehashElsewhere ==
    ASSUME NEW vs, NEW b, NEW log, NEW x, NEW y, AgreeElsewhere(x, y, b, log)
    PROVE  AgreeElsewhere(Rehash(vs, b, log, x), y, b, log)
BY DEF Rehash, AgreeElsewhere, InItsLog

\* HashDigests is the fixpoint: the digest of a record of the log is its state
\* under these digests, every other is the stored one.
LEMMA HashDigestsFixed ==
    ASSUME NEW vs, OwnDependencies(vs), vs \in [Entities -> Seq(SUBSET Entities)],
           NEW b, NEW log, HashesVersions(vs, b, log)
    PROVE  LET digests == HashDigests(vs, b, log)
           IN  \A e \in Entities :
                digests[e] = IF InItsLog(b, log, e)
                             THEN DependencyState(vs, b, digests, e, CurrentRecord(b, e).new)
                             ELSE StoredDigests(b)[e]
<1> DEFINE R(x) == Rehash(vs, b, log, x)
           s0 == StoredDigests(b)
           s1 == R(s0)
           s2 == R(s1)
           s3 == R(s2)
           s4 == R(s3)
           s5 == R(s4)
<1>1. HashDigests(vs, b, log) = s4
    BY DEF HashDigests
<1>2. \A e \in Entities :
        s5[e] = IF InItsLog(b, log, e)
                THEN DependencyState(vs, b, s4, e, CurrentRecord(b, e).new) ELSE s4[e]
    <2> HIDE DEF s4
    <2> QED
        BY DEF Rehash, InItsLog
<1> HIDE DEF s0
<1>3. \A x, y : AgreeElsewhere(x, y, b, log) => AgreeElsewhere(R(x), y, b, log)
    BY RehashElsewhere
<1>4. \A x, y : \A n \in Nat : AgreeBelow(x, y, n) /\ AgreeElsewhere(x, y, b, log) =>
                            AgreeBelow(R(x), R(y), n + 1)
    BY RehashAgrees
<1>5. \A x, y, z : AgreeElsewhere(x, y, b, log) /\ AgreeElsewhere(z, y, b, log) =>
                   AgreeElsewhere(x, z, b, log)
    BY DEF AgreeElsewhere
<1>6. AgreeElsewhere(s0, s0, b, log)
    BY DEF AgreeElsewhere
<1> HIDE DEF R
<1>7. /\ AgreeElsewhere(s1, s0, b, log) /\ AgreeElsewhere(s2, s0, b, log)
      /\ AgreeElsewhere(s3, s0, b, log) /\ AgreeElsewhere(s4, s0, b, log)
    BY <1>3, <1>6
<1>8. /\ AgreeElsewhere(s0, s1, b, log) /\ AgreeElsewhere(s1, s2, b, log)
      /\ AgreeElsewhere(s2, s3, b, log) /\ AgreeElsewhere(s3, s4, b, log)
    BY <1>5, <1>6, <1>7
<1> HIDE DEF s1, s2, s3, s4, s5
<1>9. AgreeBelow(s0, s1, 0)
    BY LevelsAre DEF AgreeBelow
<1>10. AgreeBelow(s1, s2, 1)
    BY <1>4, <1>8, <1>9 DEF s1, s2
<1>11. AgreeBelow(s2, s3, 2)
    BY <1>4, <1>8, <1>10 DEF s2, s3
<1>12. AgreeBelow(s3, s4, 3)
    BY <1>4, <1>8, <1>11 DEF s3, s4
<1>13. AgreeBelow(s4, s5, 4)
    BY <1>4, <1>8, <1>12 DEF s4, s5
<1>14. \A e \in Entities : s4[e] = s5[e]
    BY <1>13, LevelsAre DEF AgreeBelow
<1>15. \A e \in Entities :
        s4[e] = IF InItsLog(b, log, e)
                THEN DependencyState(vs, b, s4, e, CurrentRecord(b, e).new) ELSE s0[e]
    BY <1>2, <1>7, <1>14 DEF AgreeElsewhere
<1> QED
    BY <1>1, <1>15 DEF s0

-----------------------------------------------------------------------------
(* The digest of an entity is that of its last record.                     *)

LastDigest(recs) == (CHOOSE r \in recs : \A q \in recs : q.pk <= r.pk).digest

LEMMA LastDigestIs ==
    ASSUME NEW recs, \A r \in recs : r.pk \in Nat,
           \A r, q \in recs : r.pk = q.pk => r = q,
           NEW r \in recs, \A q \in recs : q.pk <= r.pk
    PROVE  LastDigest(recs) = r.digest
<1>1. \A x \in recs : (\A q \in recs : q.pk <= x.pk) => x = r
    <2> SUFFICES ASSUME NEW x \in recs, \A q \in recs : q.pk <= x.pk PROVE x = r
        OBVIOUS
    <2>1. x.pk <= r.pk /\ r.pk <= x.pk /\ x.pk \in Nat /\ r.pk \in Nat
        OBVIOUS
    <2>2. x.pk = r.pk
        BY <2>1
    <2> QED
        BY <2>2
<1>2. (CHOOSE x \in recs : \A q \in recs : q.pk <= x.pk) = r
    BY <1>1
<1> QED
    BY <1>2 DEF LastDigest

\* A branch whose rows can be trusted: its records replay and its versions exist.
Consistent(vs, b, n) ==
    /\ BranchOK(b) /\ BranchReplays(b) /\ RowsHaveVersions(vs, b) /\ PkBound(b, n)

\* The record an entity's row points at is its last one and holds its version.
LEMMA CurrentIsLast ==
    ASSUME NEW b, BranchOK(b), BranchReplays(b), NEW n \in Nat, PkBound(b, n),
           NEW e \in Entities, b.recs[e] # {}, b.rows[e] # NoRow
    PROVE  LET r == CurrentRecord(b, e)
           IN  /\ r \in b.recs[e] /\ \A q \in b.recs[e] : q.pk <= r.pk
               /\ r.log = LogRecordOf(b.rows, e) /\ r.new = VersionOf(b.rows, e)
               /\ r.digest = LastDigest(b.recs[e])
<1> DEFINE recs == b.recs[e]
           pks == {r.pk : r \in recs}
           version == VersionOf(b.rows, e)
           rec == LogRecordOf(b.rows, e)
<1>1. Replays(recs, version, rec) /\ \A r \in recs : r.pk \in Nat /\ r.pk <= n
    BY DEF BranchReplays, BranchOK, RecordOK, PkBound
<1>2. b.rows[e].rec = rec
    BY DEF LogRecordOf
<1>3. CurrentRecord(b, e) = RecordIn(recs, rec)
    BY <1>2 DEF CurrentRecord
<1> HIDE DEF recs, version, rec
<1>4. PICK r \in recs : \A q \in recs : q.pk <= r.pk
    <2>1. pks \subseteq Nat /\ pks # {} /\ \A k \in pks : k <= n
        BY <1>1 DEF recs
    <2> HIDE DEF pks
    <2>2. PICK k \in pks : \A j \in pks : j <= k
        BY <2>1, MaxExists
    <2> QED
        BY <2>2 DEF pks
<1>5. rec = r.log /\ version = r.new /\ \A q \in recs : q.log = r.log => q = r
    BY <1>1, <1>4 DEF Replays
<1>6. RecordIn(recs, rec) = r
    BY <1>5 DEF RecordIn
<1>7. LastDigest(recs) = r.digest
    <2>1. \A x, q \in recs : x.pk = q.pk => x = q
        BY <1>1 DEF Replays
    <2> QED
        BY <1>1, <1>4, <2>1, LastDigestIs
<1> QED
    BY <1>3, <1>4, <1>5, <1>6, <1>7 DEF recs, version, rec

\* So is that of a live entity.
LEMMA LiveHasLast ==
    ASSUME NEW b, BranchOK(b), BranchReplays(b), NEW n \in Nat, PkBound(b, n),
           NEW e \in Entities, VersionOf(b.rows, e) # 0
    PROVE  LET r == CurrentRecord(b, e)
           IN  /\ r \in b.recs[e] /\ \A q \in b.recs[e] : q.pk <= r.pk
               /\ r.log = LogRecordOf(b.rows, e) /\ r.new = VersionOf(b.rows, e)
               /\ r.digest = LastDigest(b.recs[e])
<1>1. b.rows[e] # NoRow
    BY DEF VersionOf
<1>2. b.recs[e] # {}
    BY DEF BranchReplays, Replays
<1> QED
    BY <1>1, <1>2, CurrentIsLast

\* The digest of e is its state: the versions and digests of its live dependencies.
FreshAt(vs, ver, dig, e) ==
    ver[e] # 0 =>
        dig[e] = {<<d, ver[d], dig[d]>> :
                    d \in {x \in DependenciesOf(vs, e, ver[e]) : ver[x] # 0}}

\* The digests of the records in closed logs.
LastDigests(b, open) == [e \in Entities |-> LastDigest(ClosedRecords(b.recs[e], open))]

LEMMA AllClosed ==
    ASSUME NEW recs
    PROVE  ClosedRecords(recs, <<>>) = recs
BY DEF ClosedRecords

LEMMA VersionInRange ==
    ASSUME NEW vs, vs \in [Entities -> Seq(SUBSET Entities)],
           NEW b, BranchOK(b), RowsHaveVersions(vs, b), NEW e \in Entities
    PROVE  VersionOf(b.rows, e) \in 0..Len(vs[e])
<1>1. VersionOf(b.rows, e) \in Nat /\ VersionOf(b.rows, e) <= Len(vs[e])
    BY VersionType DEF RowsHaveVersions
<1>2. Len(vs[e]) \in Nat
    OBVIOUS
<1> QED
    BY <1>1, <1>2

\* Every record of a log that a row points at is of a version that exists.
LEMMA LogVersionsExist ==
    ASSUME NEW vs, vs \in [Entities -> Seq(SUBSET Entities)],
           NEW c, NEW n \in Nat, Consistent(vs, c, n), NEW log \in Nat, log > 0
    PROVE  HashesVersions(vs, c, log)
<1> SUFFICES ASSUME NEW e \in Entities, InItsLog(c, log, e)
             PROVE  CurrentRecord(c, e).new \in 0..Len(vs[e])
    BY DEF HashesVersions
<1>1. c.rows[e] # NoRow /\ c.recs[e] # {}
    BY DEF InItsLog, LogRecordOf, InLog
<1>2. CurrentRecord(c, e).new = VersionOf(c.rows, e)
    BY <1>1, CurrentIsLast DEF Consistent
<1> QED
    BY <1>2, VersionInRange DEF Consistent

\* Recomputing the digests of a log leaves no stale one on it.
LEMMA RefreshedDigest ==
    ASSUME NEW vs, OwnDependencies(vs), vs \in [Entities -> Seq(SUBSET Entities)],
           NEW c, NEW n \in Nat, Consistent(vs, c, n), NEW log \in Nat, log > 0,
           NEW d \in Entities, VersionOf(c.rows, d) # 0
    PROVE  LET a == UpdateDependenciesHashDigests(vs, c, log)
           IN  LastDigest(a.recs[d]) = HashDigests(vs, c, log)[d]
<1> DEFINE digests == HashDigests(vs, c, log)
           a == UpdateDependenciesHashDigests(vs, c, log)
           refreshed(r) ==
               IF r.log = log
               THEN Record(r.pk, log, r.old, r.new, r.direct,
                           DependencyState(vs, c, digests, d, r.new))
               ELSE r
           r0 == CurrentRecord(c, d)
           recs == c.recs[d]
           after == a.recs[d]
<1>1. after = {refreshed(r) : r \in recs}
    BY DEF UpdateDependenciesHashDigests
<1>2. /\ r0 \in recs /\ \A q \in recs : q.pk <= r0.pk
      /\ r0.log = LogRecordOf(c.rows, d) /\ r0.new = VersionOf(c.rows, d)
    BY LiveHasLast DEF Consistent
<1>3. /\ \A r : refreshed(r).pk = r.pk
      /\ \A r : r.log = log => refreshed(r).digest = DependencyState(vs, c, digests, d, r.new)
      /\ \A r : r.log # log => refreshed(r).digest = r.digest
    BY DEF Record
<1>4. (\A r, q \in recs : r.pk = q.pk => r = q) /\ \A r \in recs : r.pk \in Nat
    BY DEF Consistent, BranchReplays, Replays, BranchOK, RecordOK
<1>5. HashesVersions(vs, c, log)
    BY LogVersionsExist
<1>6. digests[d] = IF InItsLog(c, log, d)
                   THEN DependencyState(vs, c, digests, d, r0.new)
                   ELSE StoredDigests(c)[d]
    BY <1>5, HashDigestsFixed
<1>7. StoredDigests(c)[d] = r0.digest
    BY <1>2 DEF StoredDigests, InLog
<1>8. InItsLog(c, log, d) <=> r0.log = log
    BY <1>2 DEF InItsLog, InLog
<1> HIDE DEF r0, recs, after, refreshed, digests, a
<1>9. LastDigest(after) = refreshed(r0).digest
    <2> DEFINE x0 == refreshed(r0)
    <2>1. x0 \in after /\ \A x \in after : x.pk <= x0.pk
        BY <1>1, <1>2, <1>3
    <2>2. \A x, y \in after : x.pk = y.pk => x = y
        BY <1>1, <1>3, <1>4
    <2>3. \A x \in after : x.pk \in Nat
        BY <1>1, <1>3, <1>4
    <2> HIDE DEF x0
    <2>4. LastDigest(after) = x0.digest
        BY <2>1, <2>2, <2>3, LastDigestIs
    <2> QED
        BY <2>4 DEF x0
<1>10. LastDigest(after) = digests[d]
    BY <1>3, <1>6, <1>7, <1>8, <1>9
<1> QED
    BY <1>10 DEF after, a, digests

LEMMA HashedAreFresh ==
    ASSUME NEW vs, OwnDependencies(vs), vs \in [Entities -> Seq(SUBSET Entities)],
           NEW c, NEW n \in Nat, Consistent(vs, c, n), NEW log \in Nat, log > 0,
           NEW e \in Entities, InItsLog(c, log, e)
    PROVE  LET a == UpdateDependenciesHashDigests(vs, c, log)
           IN  FreshAt(vs, VersionsIn(a), LastDigests(a, <<>>), e)
<1> DEFINE digests == HashDigests(vs, c, log)
           a == UpdateDependenciesHashDigests(vs, c, log)
           ver == VersionsIn(a)
           dig == LastDigests(a, <<>>)
           deps == DependenciesOf(vs, e, VersionOf(c.rows, e))
<1> SUFFICES ASSUME VersionOf(c.rows, e) # 0
             PROVE  dig[e] = {<<d, ver[d], dig[d]>> : d \in {x \in deps : ver[x] # 0}}
    <2>1. VersionsIn(a)[e] = VersionOf(c.rows, e)
        BY DigestsMembers DEF VersionsIn
    <2> HIDE DEF a
    <2> QED
        BY <2>1 DEF FreshAt, a
<1>1. \A x \in Entities : ver[x] = VersionOf(c.rows, x)
    BY DigestsMembers DEF VersionsIn
<1>2. \A x \in Entities : VersionOf(c.rows, x) # 0 => dig[x] = digests[x]
    <2> SUFFICES ASSUME NEW x \in Entities, VersionOf(c.rows, x) # 0
                 PROVE  dig[x] = digests[x]
        OBVIOUS
    <2>1. LastDigest(a.recs[x]) = digests[x]
        BY RefreshedDigest
    <2>2. dig[x] = LastDigest(a.recs[x])
        BY AllClosed DEF LastDigests
    <2> QED
        BY <2>1, <2>2
<1>3. digests[e] = DependencyState(vs, c, digests, e, VersionOf(c.rows, e))
    <2>1. CurrentRecord(c, e).new = VersionOf(c.rows, e)
        BY LiveHasLast DEF Consistent
    <2>2. HashesVersions(vs, c, log)
        BY LogVersionsExist
    <2> QED
        BY <2>1, <2>2, HashDigestsFixed
<1>4. \A d \in deps : d \in Entities
    BY DependenciesAre, VersionInRange DEF Consistent
<1>5. \A d \in Entities : VersionOf(c.rows, d) # 0 =>
                          CurrentRecord(c, d).new = VersionOf(c.rows, d)
    BY LiveHasLast DEF Consistent
<1> HIDE DEF a, ver, dig, digests
<1>6. DependencyState(vs, c, digests, e, VersionOf(c.rows, e)) =
        {<<d, CurrentRecord(c, d).new, digests[d]>> :
            d \in {x \in deps : VersionOf(c.rows, x) # 0}}
    BY DEF DependencyState, LiveDependencies
<1> HIDE DEF deps
<1>7. {x \in deps : VersionOf(c.rows, x) # 0} = {x \in deps : ver[x] # 0}
    BY <1>1, <1>4
<1>8. \A d \in {x \in deps : ver[x] # 0} :
        CurrentRecord(c, d).new = ver[d] /\ digests[d] = dig[d]
    BY <1>1, <1>2, <1>4, <1>5
<1> QED
    BY <1>2, <1>3, <1>6, <1>7, <1>8

-----------------------------------------------------------------------------
(* Side effects refresh every digest that the changes of a log make stale.  *)

LEMMA AncestorsClosed ==
    ASSUME NEW deps, DOMAIN deps = Entities, NEW S, NEW e \in Entities, NEW d \in deps[e],
           d \in S \/ d \in Ancestors(deps, S)
    PROVE  e \in Ancestors(deps, S)
<1> SUFFICES ASSUME NEW T \in SUBSET DOMAIN deps, AffectedBy(deps, S \cup T) \subseteq T
             PROVE  e \in T
    BY DEF Ancestors
<1>1. d \in S \cup T
    BY DEF Ancestors
<1>2. e \in AffectedBy(deps, S \cup T)
    BY <1>1 DEF AffectedBy
<1> QED
    BY <1>2

LEMMA UnhashedConsistent ==
    ASSUME NEW vs, vs \in [Entities -> Seq(SUBSET Entities)], OwnDependencies(vs),
           NEW b, NEW n \in Nat, Consistent(vs, b, n), NEW log \in Nat, NEW p,
           LogOfPackage(b, log, p), LogLastIn(b, log, p),
           NEW pk \in Nat, log <= pk, pk <= n
    PROVE  LET c == Unhashed(vs, b, log, pk)
           IN  /\ Consistent(vs, c, n)
               /\ \A e \in Entities : VersionOf(c.rows, e) = VersionOf(b.rows, e)
<1> DEFINE c == Unhashed(vs, b, log, pk)
           affected == AffectedByLog(vs, b, log)
<1>1. /\ c.rows = [e \in Entities |->
                    IF e \in affected
                    THEN [version |-> VersionOf(b.rows, e), rec |-> log] ELSE b.rows[e]]
      /\ c.recs = [e \in Entities |->
                    IF e \in affected /\ ~ InLog(b.recs[e], log)
                    THEN b.recs[e] \cup {SideRecord(b, e, log, pk)} ELSE b.recs[e]]
    BY DEF Unhashed
<1>2. BranchReplays(c)
    <2>1. \A e \in AffectedByLog(vs, b, log) : CanAdd(b.recs[e], log, pk)
        BY SideEffectsCanAdd DEF Consistent
    <2> QED
        BY <2>1, UnhashedReplays DEF Consistent
<1> HIDE DEF c, affected
<1>3. ASSUME NEW e \in Entities
      PROVE  /\ VersionOf(c.rows, e) = VersionOf(b.rows, e)
             /\ c.rows[e] \in Row \cup {NoRow}
             /\ \A r \in c.recs[e] : RecordOK(r) /\ r.pk <= n
    <2> DEFINE version == VersionOf(b.rows, e)
    <2>1. version \in Nat /\ b.rows[e] \in Row \cup {NoRow}
        BY VersionType DEF Consistent, BranchOK
    <2>2. \A r \in b.recs[e] : RecordOK(r) /\ r.pk <= n
        BY DEF Consistent, BranchOK, PkBound
    <2>3. LET x == SideRecord(b, e, log, pk) IN RecordOK(x) /\ x.pk <= n
        BY <2>1 DEF SideRecord, Record, RecordOK
    <2>4. \A r \in c.recs[e] : RecordOK(r) /\ r.pk <= n
        BY <1>1, <2>2, <2>3
    <2>5. CASE e \in affected
        <3>1. c.rows[e] = [version |-> version, rec |-> log]
            BY <1>1, <2>5
        <3>2. c.rows[e] \in Row
            BY <2>1, <3>1 DEF Row
        <3> HIDE DEF version
        <3>3. VersionOf(c.rows, e) = version
            BY <2>1, <3>1, RowValues
        <3> QED
            BY <2>4, <3>2, <3>3 DEF version
    <2>6. CASE e \notin affected
        <3>1. c.rows[e] = b.rows[e]
            BY <1>1, <2>6
        <3> QED
            BY <2>1, <2>4, <3>1 DEF VersionOf
    <2> QED
        BY <2>5, <2>6
<1>4. BranchOK(c) /\ PkBound(c, n)
    <2>1. DOMAIN c.rows = Entities /\ DOMAIN c.recs = Entities
          /\ c.rows = [e \in Entities |-> c.rows[e]]
        BY <1>1
    <2>2. c.rows \in [Entities -> Row \cup {NoRow}]
        BY <1>3, <2>1
    <2> QED
        BY <1>3, <2>1, <2>2 DEF BranchOK, PkBound
<1>5. RowsHaveVersions(vs, c)
    BY <1>3 DEF Consistent, RowsHaveVersions
<1> QED
    BY <1>2, <1>3, <1>4, <1>5 DEF Consistent, c

\* After the side effects of a log each digest is fresh, or neither its entity
\* nor a dependency has a record in the log.
LEMMA SideEffectsRefresh ==
    ASSUME NEW vs, vs \in [Entities -> Seq(SUBSET Entities)], OwnDependencies(vs),
           NEW b, NEW n \in Nat, Consistent(vs, b, n), NEW log \in Nat, log > 0, NEW p,
           LogOfPackage(b, log, p), LogLastIn(b, log, p),
           NEW pk \in Nat, log <= pk, pk <= n,
           NEW a, a = CreateSideEffects(vs, b, log, pk), NEW e \in Entities
    PROVE  \/ FreshAt(vs, VersionsIn(a), LastDigests(a, <<>>), e)
           \/ \A x \in {e} \cup DependenciesOf(vs, e, VersionOf(a.rows, e)) :
                ~ InLog(a.recs[x], log)
<1> DEFINE c == Unhashed(vs, b, log, pk)
           changed == {x \in Entities : InLog(b.recs[x], log)}
           deps == CurrentDependencies(vs, b.rows)
           affected == AffectedByLog(vs, b, log)
<1>1. Consistent(vs, c, n) /\ \A x \in Entities : VersionOf(c.rows, x) = VersionOf(b.rows, x)
    BY UnhashedConsistent
<1>2. a = UpdateDependenciesHashDigests(vs, c, log)
    BY HashedSideEffects
<1>3. a.rows = c.rows /\ \A x \in Entities : InLog(a.recs[x], log) <=> InLog(c.recs[x], log)
    <2>1. /\ a.rows = c.rows
          /\ \A x \in Entities :
                /\ \A q \in a.recs[x] : \E r \in c.recs[x] : SameRecord(q, r)
                /\ \A r \in c.recs[x] : \E q \in a.recs[x] : SameRecord(q, r)
        BY <1>2, DigestsMembers
    <2> HIDE DEF c
    <2>2. ASSUME NEW x \in Entities
          PROVE  InLog(a.recs[x], log) <=> InLog(c.recs[x], log)
        <3>1. \A q \in a.recs[x] : \E r \in c.recs[x] : q.log = r.log
            BY <2>1 DEF SameRecord
        <3>2. \A r \in c.recs[x] : \E q \in a.recs[x] : q.log = r.log
            BY <2>1 DEF SameRecord
        <3> QED
            BY <3>1, <3>2 DEF InLog
    <2> QED
        BY <2>1, <2>2
<1>4. BranchOK(a) /\ BranchReplays(a) /\ LogLastIn(a, log, p) /\ LogOfPackage(a, log, p)
    <2>1. BranchOK(a)
        BY SideEffectsKeepType DEF Consistent
    <2>2. BranchReplays(a) /\ LogLastIn(a, log, p)
        BY SideEffectsInLastLog DEF Consistent
    <2>3. LogOfPackage(a, log, p)
        BY SideEffectsStep DEF Consistent
    <2> QED
        BY <2>1, <2>2, <2>3
<1>5. CASE InLog(a.recs[e], log)
    <2>1. LogRecordOf(a.rows, e) = log
        BY <1>4, <1>5, LastLogCaptures DEF LogOfPackage
    <2>2. InItsLog(c, log, e)
        BY <1>3, <1>5, <2>1 DEF InItsLog
    <2> HIDE DEF c
    <2> QED
        BY <1>1, <1>2, <2>2, HashedAreFresh
<1>6. CASE ~ InLog(a.recs[e], log)
    <2> SUFFICES ASSUME NEW d \in DependenciesOf(vs, e, VersionOf(a.rows, e)),
                        InLog(a.recs[d], log)
                 PROVE  FALSE
        BY <1>6
    <2>1. d \in deps[e] /\ DOMAIN deps = Entities
        BY <1>1, <1>3 DEF CurrentDependencies
    <2>2. d \in Entities
        BY <2>1, CurrentDependenciesOwn DEF Consistent
    <2>3. affected = Ancestors(deps, changed)
        BY DEF AffectedByLog
    <2>4. \A x \in Entities : InLog(c.recs[x], log) <=> x \in changed \/ x \in affected
        <3> SUFFICES ASSUME NEW x \in Entities
                     PROVE  InLog(c.recs[x], log) <=> x \in changed \/ x \in affected
            OBVIOUS
        <3> DEFINE r == SideRecord(b, x, log, pk)
        <3>1. c.recs[x] = IF x \in affected /\ ~ InLog(b.recs[x], log)
                          THEN b.recs[x] \cup {r} ELSE b.recs[x]
            BY DEF Unhashed
        <3>2. r.log = log
            BY DEF SideRecord, Record
        <3> HIDE DEF c, r, affected
        <3> QED
            BY <3>1, <3>2 DEF InLog
    <2>5. d \in changed \/ d \in Ancestors(deps, changed)
        BY <1>3, <2>2, <2>3, <2>4
    <2> HIDE DEF c, changed, deps, affected
    <2>6. e \in Ancestors(deps, changed)
        BY <2>1, <2>5, AncestorsClosed
    <2> QED
        BY <1>3, <1>6, <2>3, <2>4, <2>6
<1> QED
    BY <1>5, <1>6

-----------------------------------------------------------------------------
(* The inductive invariant.                                                *)

\* Every entity's version exists and its digest is fresh.
FreshVersion(vs, ver, dig, e) == ver[e] \in 0..Len(vs[e]) /\ FreshAt(vs, ver, dig, e)
Fresh(vs, ver, dig) == \A e \in Entities : FreshVersion(vs, ver, dig, e)

FreshBranch(vs, b) == Fresh(vs, VersionsIn(b), LastDigests(b, <<>>))

\* Both branches are fresh but for the drafts of packages with an open context:
\* those are fresh as they were when it was entered.
DigestInv ==
    /\ FreshBranch(versions, published)
    /\ FreshBranch(committed.versions, committed.published)
    /\ FreshBranch(committed.versions, committed.draft)
    /\ \E starts : /\ DraftsStart(draft, contexts, starts)
                   /\ Fresh(versions, starts, LastDigests(draft, contexts))

\* The versions of e in vs are its first ones in more.
KeepsVersions(vs, more, e) ==
    /\ Len(vs[e]) \in Nat /\ Len(more[e]) \in Nat /\ Len(vs[e]) <= Len(more[e])
    /\ \A n \in 1..Len(vs[e]) : more[e][n] = vs[e][n]

LEMMA VersionsKept ==
    ASSUME TypeInv, NEW vs, MoreVersions(vs)
    PROVE  \A e \in Entities : KeepsVersions(versions, vs, e)
<1> SUFFICES ASSUME NEW e \in Entities
             PROVE  KeepsVersions(versions, vs, e)
    OBVIOUS
<1>1. Len(versions[e]) \in Nat /\ Len(vs[e]) \in Nat
    BY TypeInvTables DEF MoreVersions
<1> QED
    BY <1>1 DEF MoreVersions, KeepsVersions

\* Freshness depends on the versions and digests of an entity and its
\* dependencies alone, and new versions do not disturb it.
LEMMA FreshSame ==
    ASSUME NEW vs, NEW more, NEW e \in Entities, KeepsVersions(vs, more, e),
           NEW ver, NEW dig, FreshVersion(vs, ver, dig, e), NEW ver2, NEW dig2,
           \A x \in {e} \cup DependenciesOf(vs, e, ver[e]) : ver2[x] = ver[x] /\ dig2[x] = dig[x]
    PROVE  FreshVersion(more, ver2, dig2, e)
<1> USE DEF FreshVersion
<1>1. ver2[e] = ver[e] /\ dig2[e] = dig[e]
    OBVIOUS
<1>2. ver2[e] \in 0..Len(more[e])
    BY <1>1 DEF KeepsVersions
<1> SUFFICES ASSUME ver[e] # 0
             PROVE  FreshAt(more, ver2, dig2, e)
    BY <1>1, <1>2 DEF FreshAt
<1> DEFINE deps == DependenciesOf(vs, e, ver[e])
<1>3. ver[e] \in 1..Len(vs[e])
    BY DEF KeepsVersions
<1>4. DependenciesOf(more, e, ver2[e]) = deps
    BY <1>1, <1>3 DEF DependenciesOf, KeepsVersions
<1>5. dig[e] = {<<d, ver[d], dig[d]>> : d \in {x \in deps : ver[x] # 0}}
    BY DEF FreshAt
<1>6. \A x \in deps : ver2[x] = ver[x] /\ dig2[x] = dig[x]
    OBVIOUS
<1> HIDE DEF deps
<1>7. {x \in deps : ver[x] # 0} = {x \in deps : ver2[x] # 0}
    BY <1>6
<1>8. \A d \in {x \in deps : ver2[x] # 0} : ver2[d] = ver[d] /\ dig2[d] = dig[d]
    BY <1>6
<1>9. dig2[e] = {<<d, ver2[d], dig2[d]>> : d \in {x \in deps : ver2[x] # 0}}
    BY <1>1, <1>5, <1>7, <1>8
<1> QED
    BY <1>4, <1>9 DEF FreshAt

LEMMA FreshKept ==
    ASSUME NEW vs, OwnDependencies(vs), vs \in [Entities -> Seq(SUBSET Entities)],
           NEW more, \A e \in Entities : KeepsVersions(vs, more, e),
           NEW ver, NEW dig, Fresh(vs, ver, dig), NEW ver2, NEW dig2,
           \A e \in Entities : ver2[e] = ver[e] /\ dig2[e] = dig[e]
    PROVE  Fresh(more, ver2, dig2)
<1> SUFFICES ASSUME NEW e \in Entities
             PROVE  FreshVersion(more, ver2, dig2, e)
    BY DEF Fresh
<1>1. FreshVersion(vs, ver, dig, e)
    BY DEF Fresh
<1>2. \A x \in {e} \cup DependenciesOf(vs, e, ver[e]) : x \in Entities
    BY <1>1, DependenciesAre DEF FreshVersion
<1>3. \A x \in {e} \cup DependenciesOf(vs, e, ver[e]) : ver2[x] = ver[x] /\ dig2[x] = dig[x]
    BY <1>2
<1>4. KeepsVersions(vs, more, e)
    OBVIOUS
<1> QED
    BY <1>1, <1>3, <1>4, FreshSame

\* Outside any context the drafts start from themselves.
LEMMA FreshDrafts ==
    ASSUME NEW vs, OwnDependencies(vs), vs \in [Entities -> Seq(SUBSET Entities)],
           NEW b, NEW starts, DraftsStart(b, <<>>, starts),
           Fresh(vs, starts, LastDigests(b, <<>>))
    PROVE  FreshBranch(vs, b)
<1>1. \A e \in Entities : VersionsIn(b)[e] = starts[e]
    BY DEF DraftsStart, VersionsIn
<1> DEFINE ver == VersionsIn(b)
           dig == LastDigests(b, <<>>)
<1>2. \A e \in Entities : KeepsVersions(vs, vs, e)
    <2>1. \A e \in Entities : Len(vs[e]) \in Nat
        OBVIOUS
    <2> QED
        BY <2>1 DEF KeepsVersions
<1>3. Fresh(vs, starts, dig)
    OBVIOUS
<1> HIDE DEF ver, dig
<1>4. Fresh(vs, ver, dig)
    BY <1>1, <1>2, <1>3, FreshKept DEF ver
<1> QED
    BY <1>4 DEF FreshBranch, ver, dig

LEMMA OnCommitDigestInv ==
    ASSUME TypeInv', LogInv', DigestInv, NEW new, OnCommit(new),
           FreshBranch(versions', published'), NEW starts,
           DraftsStart(draft', contexts', starts),
           Fresh(versions', starts, LastDigests(draft', contexts'))
    PROVE  DigestInv'
<1>1. CASE contexts' = <<>>
    <2>1. committed' = Db'
        BY <1>1 DEF OnCommit
    <2>2. /\ committed'.versions = versions' /\ committed'.draft = draft'
          /\ committed'.published = published'
        BY <2>1 DEF Db
    <2>3. OwnDependencies(versions') /\ versions' \in [Entities -> Seq(SUBSET Entities)]
        BY DEF LogInv, DbInv, TypeInv, TypeOK, DbOK, Db
    <2>4. FreshBranch(versions', draft')
        BY <1>1, <2>3, FreshDrafts
    <2> QED
        BY <2>2, <2>4 DEF DigestInv
<1>2. CASE contexts' # <<>>
    BY <1>2 DEF OnCommit, DigestInv
<1> QED
    BY <1>1, <1>2

LEMMA PublishedStaysFresh ==
    ASSUME TypeInv, LogInv, DigestInv, MoreVersions(versions'), UNCHANGED published
    PROVE  FreshBranch(versions', published')
<1> DEFINE ver == VersionsIn(published)
           dig == LastDigests(published, <<>>)
<1>1. /\ OwnDependencies(versions) /\ versions \in [Entities -> Seq(SUBSET Entities)]
      /\ \A e \in Entities : KeepsVersions(versions, versions', e)
    BY LogInvTables, TypeInvTables, VersionsKept
<1>2. Fresh(versions, ver, dig)
    BY DEF DigestInv, FreshBranch
<1> HIDE DEF ver, dig
<1>3. Fresh(versions', ver, dig)
    BY <1>1, <1>2, FreshKept
<1> QED
    BY <1>3 DEF FreshBranch, ver, dig

LEMMA ChangeInContextDigestInv ==
    ASSUME TypeInv, TypeInv', LogInv, LogInv', ReplayInv, DigestInv, MoreVersions(versions'),
           NEW p, NEW target, IsTargetOf(target, p, versions'), ChangeInContext(p, target)
    PROVE  DigestInv'
<1>1. /\ OwnDependencies(versions) /\ versions \in [Entities -> Seq(SUBSET Entities)]
      /\ \A e \in Entities : KeepsVersions(versions, versions', e)
    BY LogInvTables, TypeInvTables, VersionsKept
<1>2. UNCHANGED published /\ OnCommit(<<>>)
    BY DEF ChangeInContext
<1>3. FreshBranch(versions', published')
    BY <1>2, PublishedStaysFresh
<1>4. PICK starts : /\ DraftsStart(draft, contexts, starts)
                    /\ Fresh(versions, starts, LastDigests(draft, contexts))
    BY DEF DigestInv
<1>5. DraftsStart(draft', contexts', starts)
    BY <1>4, ChangeInContextStarts
<1>6. Fresh(versions', starts, LastDigests(draft', contexts'))
    <2> DEFINE dig == LastDigests(draft, contexts)
               dig2 == LastDigests(draft', contexts')
    <2>1. \A e \in Entities : dig2[e] = dig[e]
        BY ChangeInContextStarts DEF LastDigests
    <2>2. Fresh(versions, starts, dig)
        BY <1>4
    <2> HIDE DEF dig, dig2
    <2>3. Fresh(versions', starts, dig2)
        BY <1>1, <2>1, <2>2, FreshKept
    <2> QED
        BY <2>3 DEF dig2
<1> QED
    BY <1>2, <1>3, <1>5, <1>6, OnCommitDigestInv

\* The step that closes a log of package p: the digests of the package are
\* fresh for the versions its drafts now have.
LEMMA ClosedLogFresh ==
    ASSUME TypeInv, LogInv, NEW vs, MoreVersions(vs), NEW starts,
           Fresh(versions, starts, LastDigests(draft, contexts)),
           NEW b, NEW n \in Nat, Consistent(vs, b, n), NEW log \in Nat, log > 0, NEW p,
           LogOfPackage(b, log, p), LogLastIn(b, log, p),
           NEW pk \in Nat, log <= pk, pk <= n,
           NEW a, a = CreateSideEffects(vs, b, log, pk), NEW open,
           Closes(a, log, p, open, starts)
    PROVE  Fresh(vs, StartsAfter(a, p, starts), LastDigests(a, open))
<1> DEFINE next == StartsAfter(a, p, starts)
           old == LastDigests(draft, contexts)
           new == LastDigests(a, open)
           now == LastDigests(a, <<>>)
           ver == VersionsIn(a)
<1> SUFFICES ASSUME NEW e \in Entities
             PROVE  FreshVersion(vs, next, new, e)
    BY DEF Fresh
<1>1. /\ vs \in [Entities -> Seq(SUBSET Entities)] /\ OwnDependencies(vs)
      /\ versions \in [Entities -> Seq(SUBSET Entities)] /\ OwnDependencies(versions)
    BY TypeInvTables, LogInvTables DEF MoreVersions
<1>2. BranchOK(a) /\ RowsHaveVersions(vs, a)
    BY <1>1, SideEffectsKeepType, SideEffectsStep DEF Consistent
<1>3. KeepsVersions(versions, vs, e)
    BY VersionsKept
<1>4. KeepsVersions(vs, vs, e)
    <2>1. Len(vs[e]) \in Nat
        BY <1>1
    <2> QED
        BY <2>1 DEF KeepsVersions
<1>5. FreshVersion(versions, starts, old, e)
    BY DEF Fresh
<1>6. \A x \in {e} \cup DependenciesOf(versions, e, starts[e]) :
        x \in Entities /\ PackageOf[x] = PackageOf[e]
    BY <1>1, <1>5, DependenciesAre DEF FreshVersion
<1>7. ver[e] \in 0..Len(vs[e])
    BY <1>1, <1>2, VersionInRange DEF VersionsIn
<1>8. \A x \in {e} \cup DependenciesOf(vs, e, ver[e]) :
        x \in Entities /\ PackageOf[x] = PackageOf[e]
    <2> DEFINE v == ver[e]
    <2>1. v \in 0..Len(vs[e])
        BY <1>7
    <2> HIDE DEF v
    <2>2. \A x \in {e} \cup DependenciesOf(vs, e, v) :
            x \in Entities /\ PackageOf[x] = PackageOf[e]
        BY <1>1, <2>1, DependenciesAre
    <2> QED
        BY <2>2 DEF v
<1>9. \A x \in Entities : PackageOf[x] = p => next[x] = ver[x] /\ new[x] = now[x]
    <2> SUFFICES ASSUME NEW x \in Entities, PackageOf[x] = p
                 PROVE  next[x] = ver[x] /\ new[x] = now[x]
        OBVIOUS
    <2>1. ClosedRecords(a.recs[x], open) = a.recs[x]
        BY ClosedLogRecords
    <2>2. ClosedRecords(a.recs[x], <<>>) = a.recs[x]
        BY AllClosed
    <2> QED
        BY <2>1, <2>2 DEF StartsAfter, VersionsIn, LastDigests
<1>10. CASE PackageOf[e] # p
    <2>1. \A x \in {e} \cup DependenciesOf(versions, e, starts[e]) :
            next[x] = starts[x] /\ new[x] = old[x]
        <3> SUFFICES ASSUME NEW x \in Entities, PackageOf[x] # p
                     PROVE  next[x] = starts[x] /\ new[x] = old[x]
            BY <1>6, <1>10
        <3>1. ClosedRecords(a.recs[x], open) = ClosedRecords(draft.recs[x], contexts)
            BY ClosedLogRecords
        <3> QED
            BY <3>1 DEF StartsAfter, LastDigests
    <2> HIDE DEF next, new, old
    <2> QED
        BY <1>3, <1>5, <2>1, FreshSame
<1>11. CASE PackageOf[e] = p
    <2>1. CASE FreshAt(vs, ver, now, e)
        <3>1. FreshVersion(vs, ver, now, e)
            BY <1>7, <2>1 DEF FreshVersion
        <3>2. \A x \in {e} \cup DependenciesOf(vs, e, ver[e]) :
                next[x] = ver[x] /\ new[x] = now[x]
            BY <1>8, <1>9, <1>11
        <3> HIDE DEF next, new, ver, now
        <3> QED
            BY <1>4, <3>1, <3>2, FreshSame
    <2>2. CASE \A x \in {e} \cup DependenciesOf(vs, e, VersionOf(a.rows, e)) :
                    ~ InLog(a.recs[x], log)
        <3>1. ASSUME NEW x \in Entities, PackageOf[x] = p, ~ InLog(a.recs[x], log)
              PROVE  next[x] = starts[x] /\ new[x] = old[x]
            <4>1. ~ InLog(draft.recs[x], log) /\ VersionOf(a.rows, x) = starts[x]
                BY <3>1 DEF Closes, StartsFrom
            <4>2. a.recs[x] = draft.recs[x]
                <5>1. \A r \in a.recs[x] : r.log # log
                    BY <3>1 DEF InLog
                <5>2. \A r \in draft.recs[x] : r.log # log
                    BY <4>1 DEF InLog
                <5>3. \A r : r.log # log => (r \in a.recs[x] <=> r \in draft.recs[x])
                    BY DEF Closes, OnlyLog
                <5> DEFINE after == a.recs[x]
                           before == draft.recs[x]
                <5>4. \A r : r \in after <=> r \in before
                    BY <5>1, <5>2, <5>3
                <5> HIDE DEF after, before
                <5>5. after = before
                    BY <5>4
                <5> QED
                    BY <5>5 DEF after, before
            <4>3. ClosedRecords(draft.recs[x], contexts) = draft.recs[x]
                BY <3>1, <4>1, ClosedLogRecords
            <4>4. ClosedRecords(a.recs[x], open) = a.recs[x]
                BY <3>1, ClosedLogRecords
            <4> QED
                BY <3>1, <4>1, <4>2, <4>3, <4>4 DEF StartsAfter, LastDigests
        <3>2. starts[e] = VersionOf(a.rows, e)
            BY <1>11, <2>2 DEF Closes, StartsFrom
        <3>3. DependenciesOf(vs, e, VersionOf(a.rows, e)) =
                DependenciesOf(versions, e, starts[e])
            BY <1>3, <1>5, <3>2 DEF KeepsVersions, FreshVersion, DependenciesOf
        <3>4. \A x \in {e} \cup DependenciesOf(versions, e, starts[e]) :
                next[x] = starts[x] /\ new[x] = old[x]
            BY <1>6, <1>11, <2>2, <3>1, <3>3
        <3> HIDE DEF next, new, old
        <3> QED
            BY <1>3, <1>5, <3>4, FreshSame
    <2>3. \/ FreshAt(vs, ver, now, e)
          \/ \A x \in {e} \cup DependenciesOf(vs, e, VersionOf(a.rows, e)) :
                ~ InLog(a.recs[x], log)
        BY <1>1, SideEffectsRefresh
    <2> QED
        BY <2>1, <2>2, <2>3
<1> QED
    BY <1>10, <1>11

LEMMA ClosedLogDigestInv ==
    ASSUME TypeInv, TypeInv', LogInv, LogInv', DigestInv, MoreVersions(versions'),
           NEW starts, DraftsStart(draft, contexts, starts),
           Fresh(versions, starts, LastDigests(draft, contexts)),
           NEW b, NEW n \in Nat, Consistent(versions', b, n),
           NEW log \in Nat, log > 0, NEW p,
           LogOfPackage(b, log, p), LogLastIn(b, log, p),
           NEW pk \in Nat, log <= pk, pk <= n,
           draft' = CreateSideEffects(versions', b, log, pk),
           Closes(draft', log, p, contexts', starts),
           UNCHANGED published, NEW new, OnCommit(new)
    PROVE  DigestInv'
<1> DEFINE next == StartsAfter(draft', p, starts)
<1>1. DraftsStart(draft', contexts', next)
    BY ClosedLogStarts
<1>2. Fresh(versions', next, LastDigests(draft', contexts'))
    BY ClosedLogFresh
<1>3. FreshBranch(versions', published')
    BY PublishedStaysFresh
<1> HIDE DEF next
<1> QED
    BY <1>1, <1>2, <1>3, OnCommitDigestInv

LEMMA ChangeInOwnLogDigestInv ==
    ASSUME TypeInv, TypeInv', LogInv, LogInv', ReplayInv, DigestInv, MoreVersions(versions'),
           NEW p, NEW target, IsTargetOf(target, p, versions'),
           ChangeInOwnLog(versions', p, target)
    PROVE  DigestInv'
<1> DEFINE log == serial + 1
           b == SetVersions(target, log, log)
           x == ChangeLogEvent("draft", draft', log)
<1>1. /\ draft' = CreateSideEffects(versions', b, log, log)
      /\ OnCommit(<<x>>) /\ UNCHANGED published
    BY DEF ChangeInOwnLog
<1>2. OwnLogChange(b, log, p, versions') /\ log \in Nat
    BY ChangeOpensLog
<1>3. log > 0 /\ log <= log
    BY <1>2, TypeInvTables
<1>4. PICK starts : /\ DraftsStart(draft, contexts, starts)
                    /\ Fresh(versions, starts, LastDigests(draft, contexts))
    BY DEF DigestInv
<1>5. Closes(draft', log, p, contexts', starts)
    BY <1>4, ChangeInOwnLogCloses
<1> HIDE DEF log, b
<1>6. /\ Consistent(versions', b, log) /\ LogOfPackage(b, log, p) /\ LogLastIn(b, log, p)
    BY <1>2 DEF OwnLogChange, Consistent
<1> QED
    BY <1>1, <1>2, <1>3, <1>4, <1>5, <1>6, ClosedLogDigestInv

LEMMA BulkExitDigestInv ==
    ASSUME TypeInv, TypeInv', LogInv, LogInv', ReplayInv, DigestInv, BulkExit
    PROVE  DigestInv'
<1> DEFINE last == Len(contexts)
           l0 == contexts[last]
           id == l0.id
           p == l0.package
           n == serial'
           x == ChangeLogEvent("draft", draft', id)
<1>1. /\ contexts # <<>> /\ n = serial + 1
      /\ draft' = CreateSideEffects(versions, draft, id, n)
      /\ OnCommit(<<x>>) /\ UNCHANGED <<versions, published>>
    BY DEF BulkExit
<1>2. serial \in Nat /\ n \in Nat /\ serial <= n /\ last \in 1..Len(contexts)
    BY <1>1, TypeInvTables
<1> HIDE DEF last, n
<1>3. l0 \in Log /\ l0 \in draftLogs /\ l0.id <= serial /\ l0.id > 0
    BY <1>2, TypeInvTables, LogInvTables, ReplayInvTables
    DEF ContextsInv, LogsIdentified, OpenLogsInv
<1>4. LogLastIn(draft, id, p)
    BY <1>2, ReplayInvTables DEF OpenLogsInv
<1>5. PICK starts : /\ DraftsStart(draft, contexts, starts)
                    /\ Fresh(versions, starts, LastDigests(draft, contexts))
    BY DEF DigestInv
<1>6. Closes(draft', id, p, contexts', starts)
    BY <1>5, BulkExitCloses DEF last
<1> HIDE DEF l0
<1>7. id \in Nat /\ id > 0 /\ id <= n /\ [id |-> id, package |-> p] \in draftLogs
    BY <1>2, <1>3 DEF Log
<1> HIDE DEF id, p
<1>8. LogOfPackage(draft, id, p)
    BY <1>7, LogInvTables, LogHasOnePackage
<1>9. Consistent(versions, draft, n)
    BY <1>2, TypeInvTables, LogInvTables, ReplayInvTables, PkBoundGrows DEF Consistent
<1>10. MoreVersions(versions')
    BY <1>1, UnchangedVersions
<1>11. versions' = versions
    BY <1>1
<1>12. Consistent(versions', draft, n) /\ draft' = CreateSideEffects(versions', draft, id, n)
    BY <1>1, <1>9, <1>11
<1> QED
    BY <1>1, <1>2, <1>4, <1>5, <1>6, <1>7, <1>8, <1>10, <1>12, ClosedLogDigestInv

LEMMA BulkEnterDigestInv ==
    ASSUME ~ Reentrant, TypeInv, LogInv, ReplayInv, DigestInv, NEW p \in Packages, BulkEnter(p)
    PROVE  DigestInv'
<1>1. UNCHANGED <<versions, draft, published, committed>>
    BY DEF BulkEnter
<1>2. PICK starts : /\ DraftsStart(draft, contexts, starts)
                    /\ Fresh(versions, starts, LastDigests(draft, contexts))
    BY DEF DigestInv
<1>3. DraftsStart(draft, contexts', starts)
    BY <1>2, BulkEnterStarts
<1>4. LastDigests(draft, contexts') = LastDigests(draft, contexts)
    BY BulkEnterStarts DEF LastDigests
<1> QED
    BY <1>1, <1>2, <1>3, <1>4 DEF DigestInv

LEMMA BulkAbortDigestInv ==
    ASSUME DigestInv, BulkAbort
    PROVE  DigestInv'
<1> DEFINE starts == VersionsIn(committed.draft)
<1>1. /\ versions' = committed.versions /\ draft' = committed.draft
      /\ published' = committed.published /\ contexts' = <<>> /\ committed' = committed
    BY DEF BulkAbort
<1>2. DraftsStart(committed.draft, <<>>, starts)
    BY DEF DraftsStart, VersionsIn
<1>3. Fresh(committed.versions, starts, LastDigests(committed.draft, <<>>))
    BY DEF DigestInv, FreshBranch
<1> HIDE DEF starts
<1>4. DraftsStart(draft', contexts', starts) /\ Fresh(versions', starts, LastDigests(draft', contexts'))
    BY <1>1, <1>2, <1>3
<1> QED
    BY <1>1, <1>4 DEF DigestInv

\* A publish refreshes the digests of what it publishes and of everything that
\* depends on it; the other rows and their dependencies are as they were.
LEMMA PublishedFresh ==
    ASSUME TypeInv, LogInv, ReplayInv, DigestInv, NEW S \in SUBSET Entities, NEW all, NEW p,
           \A e \in all : PackageOf[e] = p, NEW a,
           LET log == Len(publishLogs) + 1
           IN  a = CreateSideEffects(versions, PublishedAfter(S, all, log), log, log)
    PROVE  FreshBranch(versions, a)
<1> DEFINE log == Len(publishLogs) + 1
           b == PublishedAfter(S, all, log)
           ver == VersionsIn(published)
           dig == LastDigests(published, <<>>)
           ver2 == VersionsIn(a)
           dig2 == LastDigests(a, <<>>)
<1>1. /\ Consistent(versions, b, log) /\ log \in Nat
      /\ \A e \in Entities : LogLast(b.recs[e], log)
      /\ \A e \in Entities : ~ InLog(published.recs[e], log)
    BY PublishedAfterStep, ReplayInvTables DEF Consistent
<1>2. a = CreateSideEffects(versions, b, log, log)
    OBVIOUS
<1>3. log > 0 /\ log <= log
    BY TypeInvTables
<1>4. \A e \in Entities :
        StartsFrom(a.recs[e], log, VersionOf(a.rows, e), VersionOf(published.rows, e))
    BY PublishStarts
<1>5. \A e \in Entities :
        b.recs[e] = IF e \in all
                    THEN published.recs[e] \cup
                         {Record(log, log, VersionOf(published.rows, e),
                                 VersionOf(draft.rows, e), e \in S, {})}
                    ELSE published.recs[e]
    BY DEF PublishedAfter
<1> HIDE DEF log, b
<1>6. ASSUME NEW e \in Entities
      PROVE  \A r : r.log # log => (r \in b.recs[e] <=> r \in published.recs[e])
    <2> DEFINE x == Record(log, log, VersionOf(published.rows, e),
                           VersionOf(draft.rows, e), e \in S, {})
               before == published.recs[e]
    <2>1. b.recs[e] = IF e \in all THEN before \cup {x} ELSE before
        BY <1>5
    <2>2. x.log = log
        BY DEF Record
    <2> HIDE DEF x, before
    <2>3. \A r : r.log # log => (r \in b.recs[e] <=> r \in before)
        BY <2>1, <2>2
    <2> QED
        BY <2>3 DEF before
<1>7. LogOfPackage(b, log, p) /\ LogLastIn(b, log, p)
    <2>1. \A e \in Entities : InLog(b.recs[e], log) => e \in all
        BY <1>1, <1>5
    <2> QED
        BY <1>1, <2>1 DEF LogOfPackage, LogLastIn
<1>8. OnlyLog(a, published, log)
    <2>1. PICK affected : WithSideEffects(a, b, log, log, affected)
        BY <1>2, SideEffectsMembers
    <2> QED
        BY <1>6, <2>1 DEF OnlyLog, WithSideEffects
<1>9. ASSUME NEW x \in Entities, ~ InLog(a.recs[x], log)
      PROVE  ver2[x] = ver[x] /\ dig2[x] = dig[x]
    <2> DEFINE after == a.recs[x]
               before == published.recs[x]
    <2>1. \A r \in after : r.log # log
        BY <1>9 DEF InLog
    <2>2. \A r \in before : r.log # log
        BY <1>1 DEF InLog
    <2>3. \A r : r.log # log => (r \in after <=> r \in before)
        BY <1>8 DEF OnlyLog
    <2>4. VersionOf(a.rows, x) = VersionOf(published.rows, x)
        BY <1>4, <1>9 DEF StartsFrom
    <2> HIDE DEF after, before
    <2>5. after = before
        BY <2>1, <2>2, <2>3
    <2> QED
        BY <2>4, <2>5 DEF after, before, VersionsIn, LastDigests
<1>10. /\ versions \in [Entities -> Seq(SUBSET Entities)] /\ OwnDependencies(versions)
       /\ \A e \in Entities : Len(versions[e]) \in Nat
    BY TypeInvTables, LogInvTables
<1>11. BranchOK(a) /\ RowsHaveVersions(versions, a)
    BY <1>1, <1>2, <1>7, <1>10, SideEffectsKeepType, SideEffectsStep DEF Consistent
<1> SUFFICES ASSUME NEW e \in Entities
             PROVE  FreshVersion(versions, ver2, dig2, e)
    BY DEF FreshBranch, Fresh
<1>12. FreshVersion(versions, ver, dig, e)
    BY DEF DigestInv, FreshBranch, Fresh
<1>13. ver2[e] \in 0..Len(versions[e])
    BY <1>10, <1>11, VersionInRange DEF VersionsIn
<1>14. CASE FreshAt(versions, ver2, dig2, e)
    BY <1>13, <1>14 DEF FreshVersion
<1>15. CASE \A x \in {e} \cup DependenciesOf(versions, e, VersionOf(a.rows, e)) :
                ~ InLog(a.recs[x], log)
    <2>1. ver2[e] = ver[e] /\ ver2[e] = VersionOf(a.rows, e)
        BY <1>9, <1>15 DEF VersionsIn
    <2>2. \A x \in DependenciesOf(versions, e, ver[e]) : x \in Entities
        <3> HIDE DEF ver
        <3> QED
            BY <1>10, <1>12, DependenciesAre DEF FreshVersion
    <2>3. \A x \in {e} \cup DependenciesOf(versions, e, ver[e]) :
            ver2[x] = ver[x] /\ dig2[x] = dig[x]
        BY <1>9, <1>15, <2>1, <2>2
    <2>4. KeepsVersions(versions, versions, e)
        BY <1>10 DEF KeepsVersions
    <2> HIDE DEF ver, ver2, dig, dig2
    <2> QED
        BY <1>12, <2>3, <2>4, FreshSame
<1>16. \/ FreshAt(versions, ver2, dig2, e)
       \/ \A x \in {e} \cup DependenciesOf(versions, e, VersionOf(a.rows, e)) :
                ~ InLog(a.recs[x], log)
    BY <1>1, <1>2, <1>3, <1>7, <1>10, SideEffectsRefresh
<1> QED
    BY <1>14, <1>15, <1>16

LEMMA PublishFromDraftsDigestInv ==
    ASSUME TypeInv, TypeInv', LogInv, LogInv', ReplayInv, DigestInv,
           NEW p \in Packages, NEW S \in SUBSET Entities, NEW kind,
           NEW dependencies \in BOOLEAN, PublishFromDrafts(p, S, kind, dependencies)
    PROVE  DigestInv'
<1> DEFINE log == Len(publishLogs) + 1
           all == S \cup IF dependencies THEN DependenciesToPublish(S, kind) ELSE {}
           x == ChangeLogEvent("published", published', log)
<1>1. /\ published' = CreateSideEffects(versions, PublishedAfter(S, all, log), log, log)
      /\ UNCHANGED <<versions, draft, contexts>> /\ OnCommit(<<x>>)
      /\ \A e \in S : PackageOf[e] = p
    BY DEF PublishFromDrafts
<1>2. \A e \in all : PackageOf[e] = p
    BY <1>1, DependenciesToPublishOwnPackage
<1> HIDE DEF all
<1>3. FreshBranch(versions, published')
    BY <1>1, <1>2, PublishedFresh
<1>4. PICK starts : /\ DraftsStart(draft, contexts, starts)
                    /\ Fresh(versions, starts, LastDigests(draft, contexts))
    BY DEF DigestInv
<1>5. /\ FreshBranch(versions', published')
      /\ DraftsStart(draft', contexts', starts)
      /\ Fresh(versions', starts, LastDigests(draft', contexts'))
    BY <1>1, <1>3, <1>4
<1> QED
    BY <1>1, <1>5, OnCommitDigestInv

LEMMA InitDigestInv == Init => DigestInv
<1> SUFFICES ASSUME Init PROVE DigestInv
    OBVIOUS
<1>1. /\ \A e \in Entities : draft.rows[e] = NoRow
      /\ versions = [e \in Entities |-> <<>>]
      /\ published = draft /\ contexts = <<>> /\ committed = Db
    BY DEF Init
<1>2. \A e \in Entities : VersionsIn(draft)[e] = 0
    BY <1>1 DEF VersionsIn, VersionOf
<1>3. FreshBranch(versions, draft)
    BY <1>1, <1>2 DEF FreshBranch, Fresh, FreshVersion, FreshAt
<1>4. DraftsStart(draft, contexts, VersionsIn(draft))
    BY <1>1 DEF DraftsStart, VersionsIn
<1>5. committed.draft = draft /\ committed.published = draft /\ committed.versions = versions
    BY <1>1 DEF Db
<1>6. Fresh(versions, VersionsIn(draft), LastDigests(draft, contexts))
    BY <1>1, <1>3 DEF FreshBranch
<1> QED
    BY <1>1, <1>3, <1>4, <1>5, <1>6 DEF DigestInv

LEMMA NextDigestInv ==
    ASSUME ~ Reentrant, TypeInv, TypeInv', LogInv, LogInv', ReplayInv, DigestInv, [Next]_vars
    PROVE  DigestInv'
<1>1. ASSUME NEW p \in Packages, NEW target, DraftsChange(p, target)
      PROVE  DigestInv'
    BY <1>1, ChangeInContextDigestInv, ChangeInOwnLogDigestInv DEF DraftsChange, ChangeDrafts
<1>2. ASSUME NEW p \in Packages, BulkEnter(p)
      PROVE  DigestInv'
    BY <1>2, BulkEnterDigestInv
<1>3. CASE BulkExit
    BY <1>3, BulkExitDigestInv
<1>4. CASE BulkAbort
    BY <1>4, BulkAbortDigestInv
<1>5. ASSUME NEW p \in Packages, NEW S \in SUBSET Entities, NEW kind,
             NEW dependencies \in BOOLEAN, PublishFromDrafts(p, S, kind, dependencies)
      PROVE  DigestInv'
    BY <1>5, PublishFromDraftsDigestInv
<1>6. CASE UNCHANGED vars
    <2>1. UNCHANGED <<versions, draft, published, contexts, committed>>
        BY <1>6 DEF vars
    <2>2. PICK starts : /\ DraftsStart(draft, contexts, starts)
                        /\ Fresh(versions, starts, LastDigests(draft, contexts))
        BY DEF DigestInv
    <2>3. DraftsStart(draft', contexts', starts) /\ Fresh(versions', starts, LastDigests(draft', contexts'))
        BY <2>1, <2>2
    <2> QED
        BY <2>1, <2>3 DEF DigestInv
<1> QED
    BY <1>1, <1>2, <1>3, <1>4, <1>5, <1>6, StepsAre

LEMMA DigestInvariance ==
    ASSUME ~ Reentrant
    PROVE  Spec => [](TypeInv /\ LogInv /\ ReplayInv /\ DigestInv)
<1>1. Init => DigestInv
    BY InitDigestInv
<1>2. TypeInv /\ TypeInv' /\ LogInv /\ LogInv' /\ ReplayInv /\ DigestInv /\ [Next]_vars
        => DigestInv'
    BY NextDigestInv
<1> QED
    BY <1>1, <1>2, ReplayInvariance, PTL DEF Spec

-----------------------------------------------------------------------------
(* The theorem on digests.                                                 *)

\* The rows, records and digests of both branches, between contexts.
DigestTables(b) ==
    /\ BranchOK(b) /\ BranchReplays(b) /\ RowsHaveVersions(versions, b)
    /\ FreshBranch(versions, b)
    /\ \E n \in Nat : PkBound(b, n)

LEMMA DigestInvTables ==
    ASSUME TypeInv, LogInv, ReplayInv, DigestInv
    PROVE  DigestTables(published) /\ (Quiescent => DigestTables(draft))
<1>1. DigestTables(published)
    <2>1. Len(publishLogs) \in Nat
        BY TypeInvTables
    <2> QED
        BY <2>1, TypeInvTables, LogInvTables, ReplayInvTables DEF DigestTables, DigestInv
<1>2. ASSUME Quiescent
      PROVE  DigestTables(draft)
    <2>1. PICK starts : /\ DraftsStart(draft, contexts, starts)
                        /\ Fresh(versions, starts, LastDigests(draft, contexts))
        BY DEF DigestInv
    <2>2. FreshBranch(versions, draft)
        BY <1>2, <2>1, FreshDrafts, TypeInvTables, LogInvTables DEF Quiescent
    <2> QED
        BY <2>2, TypeInvTables, LogInvTables, ReplayInvTables DEF DigestTables
<1> QED
    BY <1>1, <1>2

LEMMA CurrentDigest ==
    ASSUME NEW b, DigestTables(b), NEW e \in Entities, VersionOf(b.rows, e) # 0
    PROVE  CurrentRecord(b, e).digest = LastDigests(b, <<>>)[e]
<1>1. CurrentRecord(b, e).digest = LastDigest(b.recs[e])
    BY LiveHasLast DEF DigestTables
<1> QED
    BY <1>1, AllClosed DEF LastDigests

LEMMA FreshBranchIsFresh ==
    ASSUME TypeInv, LogInv, NEW b, DigestTables(b)
    PROVE  FreshIn(b)
<1> DEFINE ver == VersionsIn(b)
           dig == LastDigests(b, <<>>)
<1> SUFFICES ASSUME NEW e \in Entities, VersionOf(b.rows, e) # 0
             PROVE  CurrentRecord(b, e).digest =
                        {<<d, VersionOf(b.rows, d), CurrentRecord(b, d).digest>> :
                            d \in LiveDependencies(versions, b.rows, e, VersionOf(b.rows, e))}
    BY DEF FreshIn
<1> DEFINE deps == DependenciesOf(versions, e, VersionOf(b.rows, e))
           live == {x \in deps : VersionOf(b.rows, x) # 0}
<1>1. FreshVersion(versions, ver, dig, e)
    BY DEF DigestTables, FreshBranch, Fresh
<1>2. \A x \in Entities : ver[x] = VersionOf(b.rows, x)
    BY DEF VersionsIn
<1>3. \A x \in Entities : VersionOf(b.rows, x) # 0 => CurrentRecord(b, x).digest = dig[x]
    BY CurrentDigest
<1> HIDE DEF ver, dig
<1>4. \A d \in deps : d \in Entities
    BY <1>1, <1>2, DependenciesAre, TypeInvTables, LogInvTables DEF FreshVersion
<1>5. dig[e] = {<<d, ver[d], dig[d]>> : d \in {x \in deps : ver[x] # 0}}
    BY <1>1, <1>2 DEF FreshVersion, FreshAt
<1> HIDE DEF deps
<1>6. {x \in deps : ver[x] # 0} = live
    BY <1>2, <1>4
<1>7. \A d \in live : ver[d] = VersionOf(b.rows, d) /\ dig[d] = CurrentRecord(b, d).digest
    BY <1>2, <1>3, <1>4
<1>8. live = LiveDependencies(versions, b.rows, e, VersionOf(b.rows, e))
    BY DEF LiveDependencies, deps
<1> HIDE DEF live
<1>9. dig[e] = {<<d, VersionOf(b.rows, d), CurrentRecord(b, d).digest>> : d \in live}
    BY <1>5, <1>6, <1>7
<1> QED
    BY <1>3, <1>8, <1>9

\* Where contexts of one package are not nested, every cached digest is what
\* the versions and digests of the dependencies give now, on the published
\* branch always and on the draft branch between contexts: however a dependency
\* was changed, deleted, restored, reset or published, and whatever was undone.
THEOREM NoStaleDigest ==
    ASSUME ~ Reentrant
    PROVE  Spec => []DigestsFresh
<1>1. TypeInv /\ LogInv /\ ReplayInv /\ DigestInv => DigestsFresh
    BY DigestInvTables, FreshBranchIsFresh DEF DigestsFresh
<1> QED
    BY <1>1, DigestInvariance, PTL

-----------------------------------------------------------------------------
(* Equal digests and equal trees.                                          *)

LEMMA DescendantsClosed ==
    ASSUME NEW deps, DOMAIN deps = Entities, \A x \in Entities : deps[x] \subseteq Entities,
           NEW S, NEW x \in Entities, x \in S \/ x \in Descendants(deps, S)
    PROVE  deps[x] \subseteq Descendants(deps, S)
<1> SUFFICES ASSUME NEW d \in deps[x], NEW T \in SUBSET DOMAIN deps,
                    (UNION {deps[u] : u \in S \cup T}) \subseteq T
             PROVE  d \in T
    BY DEF Descendants
<1>1. x \in S \cup T
    BY DEF Descendants
<1> QED
    BY <1>1

LEMMA DescendantsLeast ==
    ASSUME NEW deps, DOMAIN deps = Entities, NEW S, NEW W \in SUBSET Entities,
           \A x \in S \cup W : deps[x] \subseteq W
    PROVE  Descendants(deps, S) \subseteq W
<1>1. (UNION {deps[u] : u \in S \cup W}) \subseteq W
    OBVIOUS
<1> QED
    BY <1>1 DEF Descendants

\* The dependencies of the versions ver, and what a reader of them sees below e.
Dependencies(vs, ver) == [e \in Entities |-> DependenciesOf(vs, e, ver[e])]
Below(vs, ver, e) == {e} \cup Descendants(Dependencies(vs, ver), {e})
TreeOf(vs, ver, e) == {<<d, ver[d]>> : d \in {x \in Below(vs, ver, e) : ver[x] # 0}}

\* Everything a reader of ver sees below e is the same in ver2.
ReadAlike(vs, ver, ver2, e) ==
    \A x \in Below(vs, ver, e) : ver[x] # 0 => ver2[x] = ver[x]

\* Versions whose dependencies are entities of a lower level.
Layered(vs, ver) ==
    \A e \in Entities : \A d \in DependenciesOf(vs, e, ver[e]) :
        d \in Entities /\ Level[d] < Level[e]

LEMMA BelowEntities ==
    ASSUME NEW vs, NEW ver, NEW e \in Entities
    PROVE  Below(vs, ver, e) \subseteq Entities
BY DEF Below, Descendants, Dependencies

LEMMA BelowClosed ==
    ASSUME NEW vs, NEW ver, Layered(vs, ver), NEW e \in Entities,
           NEW x \in Below(vs, ver, e), NEW d \in DependenciesOf(vs, x, ver[x])
    PROVE  d \in Below(vs, ver, e)
<1> DEFINE deps == Dependencies(vs, ver)
<1>1. x \in Entities
    BY BelowEntities
<1>2. DOMAIN deps = Entities /\ \A u \in Entities : deps[u] = DependenciesOf(vs, u, ver[u])
    BY DEF Dependencies
<1> HIDE DEF deps
<1>3. \A u \in Entities : deps[u] \subseteq Entities
    BY <1>2 DEF Layered
<1>4. x \in {e} \/ x \in Descendants(deps, {e})
    BY DEF Below, deps
<1>5. deps[x] \subseteq Descendants(deps, {e})
    BY <1>1, <1>2, <1>3, <1>4, DescendantsClosed
<1> QED
    BY <1>1, <1>2, <1>5 DEF Below, deps

LEMMA BelowLeast ==
    ASSUME NEW vs, NEW ver, NEW e \in Entities, NEW W \in SUBSET Entities, e \in W,
           \A x \in W : DependenciesOf(vs, x, ver[x]) \subseteq W
    PROVE  Below(vs, ver, e) \subseteq W
<1> DEFINE deps == Dependencies(vs, ver)
<1>1. DOMAIN deps = Entities /\ \A u \in Entities : deps[u] = DependenciesOf(vs, u, ver[u])
    BY DEF Dependencies
<1> HIDE DEF deps
<1>2. \A x \in {e} \cup W : deps[x] \subseteq W
    BY <1>1
<1>3. Descendants(deps, {e}) \subseteq W
    BY <1>1, <1>2, DescendantsLeast
<1> QED
    BY <1>3 DEF Below, deps

\* What ver2 holds unchanged it also reaches.
LEMMA AlikeReaches ==
    ASSUME NEW vs, NEW ver, NEW ver2, Layered(vs, ver), Layered(vs, ver2),
           NEW e \in Entities, ReadAlike(vs, ver, ver2, e)
    PROVE  Below(vs, ver, e) \subseteq Below(vs, ver2, e)
<1> DEFINE W == Below(vs, ver, e) \cap Below(vs, ver2, e)
<1>1. W \in SUBSET Entities /\ e \in W
    BY BelowEntities DEF Below
<1>2. ASSUME NEW x \in W, NEW d \in DependenciesOf(vs, x, ver[x])
      PROVE  d \in W
    <2>1. x \in Below(vs, ver, e) /\ x \in Below(vs, ver2, e)
        OBVIOUS
    <2> HIDE DEF W
    <2>2. ver[x] # 0
        BY <1>2 DEF DependenciesOf
    <2>3. ver2[x] = ver[x]
        BY <2>1, <2>2 DEF ReadAlike
    <2>4. d \in Below(vs, ver, e)
        BY <1>2, <2>1, BelowClosed
    <2>5. d \in Below(vs, ver2, e)
        BY <1>2, <2>1, <2>3, BelowClosed
    <2> QED
        BY <2>4, <2>5 DEF W
<1>3. Below(vs, ver, e) \subseteq W
    <2>1. \A x \in W : DependenciesOf(vs, x, ver[x]) \subseteq W
        BY <1>2
    <2> HIDE DEF W
    <2> QED
        BY <1>1, <2>1, BelowLeast
<1> QED
    BY <1>3

LEMMA TreesAlike ==
    ASSUME NEW vs, NEW ver, NEW ver2, Layered(vs, ver), Layered(vs, ver2), NEW e \in Entities
    PROVE  TreeOf(vs, ver, e) \subseteq TreeOf(vs, ver2, e) <=> ReadAlike(vs, ver, ver2, e)
<1>1. ASSUME TreeOf(vs, ver, e) \subseteq TreeOf(vs, ver2, e)
      PROVE  ReadAlike(vs, ver, ver2, e)
    <2> SUFFICES ASSUME NEW x \in Below(vs, ver, e), ver[x] # 0 PROVE ver2[x] = ver[x]
        BY DEF ReadAlike
    <2>1. <<x, ver[x]>> \in TreeOf(vs, ver2, e)
        BY <1>1 DEF TreeOf
    <2> QED
        BY <2>1 DEF TreeOf
<1>2. ASSUME ReadAlike(vs, ver, ver2, e)
      PROVE  TreeOf(vs, ver, e) \subseteq TreeOf(vs, ver2, e)
    <2> SUFFICES ASSUME NEW x \in Below(vs, ver, e), ver[x] # 0
                 PROVE  <<x, ver[x]>> \in TreeOf(vs, ver2, e)
        BY DEF TreeOf
    <2>1. x \in Below(vs, ver2, e)
        BY <1>2, AlikeReaches
    <2>2. ver2[x] = ver[x]
        BY <1>2 DEF ReadAlike
    <2> QED
        BY <2>1, <2>2 DEF TreeOf
<1> QED
    BY <1>1, <1>2

LEMMA AlikeBelow ==
    ASSUME NEW vs, NEW ver, NEW ver2, Layered(vs, ver), NEW e \in Entities,
           ReadAlike(vs, ver, ver2, e), NEW d \in DependenciesOf(vs, e, ver[e])
    PROVE  ReadAlike(vs, ver, ver2, d)
<1> DEFINE W == Below(vs, ver, e)
<1>1. W \in SUBSET Entities /\ e \in W
    BY BelowEntities DEF Below
<1>2. d \in W /\ d \in Entities
    BY <1>1, BelowClosed
<1>3. \A x \in W : DependenciesOf(vs, x, ver[x]) \subseteq W
    BY BelowClosed
<1>4. Below(vs, ver, d) \subseteq W
    <2> HIDE DEF W
    <2> QED
        BY <1>1, <1>2, <1>3, BelowLeast
<1> QED
    BY <1>4 DEF ReadAlike

\* Equal digests: nothing below differs.
LEMMA SameDigestReadsAlike ==
    ASSUME NEW vs, NEW ver, NEW ver2, NEW dig, NEW dig2,
           Layered(vs, ver), Fresh(vs, ver, dig), Fresh(vs, ver2, dig2),
           NEW e \in Entities, ver2[e] = ver[e], dig2[e] = dig[e]
    PROVE  ReadAlike(vs, ver, ver2, e)
<1> DEFINE same(x) == ver2[x] = ver[x] /\ dig2[x] = dig[x]
           W == {x \in Entities : ver[x] # 0 => same(x)}
<1>1. W \in SUBSET Entities /\ e \in W
    OBVIOUS
<1>2. ASSUME NEW x \in W, NEW d \in DependenciesOf(vs, x, ver[x])
      PROVE  d \in W
    <2> DEFINE deps == DependenciesOf(vs, x, ver[x])
               state == {<<y, ver[y], dig[y]>> : y \in {z \in deps : ver[z] # 0}}
               state2 == {<<y, ver2[y], dig2[y]>> : y \in {z \in deps : ver2[z] # 0}}
    <2>1. ver[x] # 0
        BY <1>2 DEF DependenciesOf
    <2>2. x \in Entities /\ same(x) /\ d \in Entities
        BY <1>2, <2>1 DEF Layered
    <2>3. dig[x] = state
        BY <2>1, <2>2 DEF Fresh, FreshVersion, FreshAt
    <2>4. dig2[x] = state2
        BY <2>1, <2>2 DEF Fresh, FreshVersion, FreshAt
    <2>5. ASSUME ver[d] # 0
          PROVE  same(d)
        <3>1. <<d, ver[d], dig[d]>> \in state
            BY <1>2, <2>5
        <3>2. <<d, ver[d], dig[d]>> \in state2
            BY <2>2, <2>3, <2>4, <3>1
        <3> QED
            BY <3>2
    <2> QED
        BY <2>2, <2>5
<1>3. Below(vs, ver, e) \subseteq W
    <2>1. \A x \in W : DependenciesOf(vs, x, ver[x]) \subseteq W
        BY <1>2
    <2> HIDE DEF W
    <2> QED
        BY <1>1, <2>1, BelowLeast
<1> QED
    BY <1>3 DEF ReadAlike

\* Nothing differs below an entity of a level lower than n: equal digests.
DigestsAgreeTo(n, vs, ver, ver2, dig, dig2) ==
    \A e \in Entities :
        /\ Level[e] < n /\ ver[e] # 0 /\ ver2[e] = ver[e]
        /\ ReadAlike(vs, ver, ver2, e) /\ ReadAlike(vs, ver2, ver, e)
        => dig2[e] = dig[e]

LEMMA DigestsAgreeStep ==
    ASSUME NEW vs, NEW ver, NEW ver2, NEW dig, NEW dig2, Layered(vs, ver), Layered(vs, ver2),
           Fresh(vs, ver, dig), Fresh(vs, ver2, dig2),
           NEW n \in Nat, DigestsAgreeTo(n, vs, ver, ver2, dig, dig2)
    PROVE  DigestsAgreeTo(n + 1, vs, ver, ver2, dig, dig2)
<1> SUFFICES ASSUME NEW e \in Entities, Level[e] < n + 1, ver[e] # 0, ver2[e] = ver[e],
                    ReadAlike(vs, ver, ver2, e), ReadAlike(vs, ver2, ver, e)
             PROVE  dig2[e] = dig[e]
    BY DEF DigestsAgreeTo
<1> DEFINE deps == DependenciesOf(vs, e, ver[e])
           live == {x \in deps : ver[x] # 0}
           live2 == {x \in deps : ver2[x] # 0}
<1>1. dig[e] = {<<d, ver[d], dig[d]>> : d \in live}
    BY DEF Fresh, FreshVersion, FreshAt
<1>2. dig2[e] = {<<d, ver2[d], dig2[d]>> : d \in live2}
    BY DEF Fresh, FreshVersion, FreshAt
<1>3. \A d \in deps : d \in Entities /\ Level[d] < Level[e]
    BY DEF Layered
<1>4. \A d \in deps : d \in Below(vs, ver, e) /\ d \in Below(vs, ver2, e)
    <2>1. e \in Below(vs, ver, e) /\ e \in Below(vs, ver2, e)
        BY DEF Below
    <2> QED
        BY <2>1, BelowClosed
<1>5. \A d \in deps : (ver[d] # 0 \/ ver2[d] # 0) => ver2[d] = ver[d]
    BY <1>4 DEF ReadAlike
<1>6. \A d \in live : dig2[d] = dig[d]
    <2> SUFFICES ASSUME NEW d \in deps, ver[d] # 0 PROVE dig2[d] = dig[d]
        OBVIOUS
    <2>1. Level[d] < n /\ d \in Entities /\ ver2[d] = ver[d]
        BY <1>3, <1>5, LevelsAre
    <2>2. d \in DependenciesOf(vs, e, ver2[e])
        OBVIOUS
    <2> HIDE DEF deps
    <2>3. ReadAlike(vs, ver, ver2, d) /\ ReadAlike(vs, ver2, ver, d)
        BY <2>2, AlikeBelow DEF deps
    <2> QED
        BY <2>1, <2>3 DEF DigestsAgreeTo
<1> HIDE DEF deps
<1>7. live = live2
    BY <1>5
<1>8. \A d \in live : ver2[d] = ver[d]
    BY <1>5
<1> HIDE DEF live, live2
<1> QED
    BY <1>1, <1>2, <1>6, <1>7, <1>8

LEMMA DigestsAgree ==
    ASSUME NEW vs, NEW ver, NEW ver2, NEW dig, NEW dig2, Layered(vs, ver), Layered(vs, ver2),
           Fresh(vs, ver, dig), Fresh(vs, ver2, dig2),
           NEW e \in Entities, ver[e] # 0, ver2[e] = ver[e]
    PROVE  dig2[e] = dig[e] <=> TreeOf(vs, ver, e) = TreeOf(vs, ver2, e)
<1> DEFINE To(n) == DigestsAgreeTo(n, vs, ver, ver2, dig, dig2)
<1>1. To(0)
    BY LevelsAre DEF DigestsAgreeTo
<1>2. \A n \in Nat : To(n) => To(n + 1)
    BY DigestsAgreeStep
<1> HIDE DEF To
<1>3. To(1)
    BY <1>1, <1>2
<1>4. To(2)
    BY <1>2, <1>3
<1>5. To(3)
    BY <1>2, <1>4
<1>6. To(4)
    BY <1>2, <1>5
<1>7. (ReadAlike(vs, ver, ver2, e) /\ ReadAlike(vs, ver2, ver, e)) => dig2[e] = dig[e]
    BY <1>6, LevelsAre DEF To, DigestsAgreeTo
<1>8. ASSUME dig2[e] = dig[e]
      PROVE  ReadAlike(vs, ver, ver2, e) /\ ReadAlike(vs, ver2, ver, e)
    <2>1. ReadAlike(vs, ver, ver2, e)
        BY <1>8, SameDigestReadsAlike
    <2>2. ReadAlike(vs, ver2, ver, e)
        BY <1>8, SameDigestReadsAlike
    <2> QED
        BY <2>1, <2>2
<1>9. /\ TreeOf(vs, ver, e) \subseteq TreeOf(vs, ver2, e) <=> ReadAlike(vs, ver, ver2, e)
      /\ TreeOf(vs, ver2, e) \subseteq TreeOf(vs, ver, e) <=> ReadAlike(vs, ver2, ver, e)
    BY TreesAlike
<1> QED
    BY <1>7, <1>8, <1>9

\* The tree of a branch, in its versions.
LEMMA TreeOfBranch ==
    ASSUME NEW b, NEW e \in Entities
    PROVE  Tree(b.rows, e) = TreeOf(versions, VersionsIn(b), e)
<1> DEFINE ver == VersionsIn(b)
           below == {e} \cup Descendants(CurrentDependencies(versions, b.rows), {e})
<1>1. \A x \in Entities : ver[x] = VersionOf(b.rows, x)
    BY DEF VersionsIn
<1>2. Dependencies(versions, ver) = CurrentDependencies(versions, b.rows)
    BY <1>1 DEF Dependencies, CurrentDependencies
<1> HIDE DEF ver
<1>3. below = Below(versions, ver, e) /\ \A x \in below : x \in Entities
    <2>1. below = Below(versions, ver, e)
        BY <1>2 DEF Below
    <2> QED
        BY <2>1, BelowEntities
<1>4. Tree(b.rows, e) = {<<d, VersionOf(b.rows, d)>> : d \in {x \in below : VersionOf(b.rows, x) # 0}}
    BY DEF Tree
<1>5. TreeOf(versions, ver, e) = {<<d, ver[d]>> : d \in {x \in below : ver[x] # 0}}
    BY <1>3 DEF TreeOf
<1> HIDE DEF below
<1>6. {x \in below : VersionOf(b.rows, x) # 0} = {x \in below : ver[x] # 0}
    BY <1>1, <1>3
<1> QED
    BY <1>1, <1>3, <1>4, <1>5, <1>6 DEF ver

LEMMA BranchLayered ==
    ASSUME TypeInv, LogInv, NEW b, BranchOK(b), RowsHaveVersions(versions, b)
    PROVE  Layered(versions, VersionsIn(b))
<1> DEFINE ver == VersionsIn(b)
<1>1. \A e \in Entities : ver[e] \in 0..Len(versions[e])
    BY VersionInRange, TypeInvTables DEF VersionsIn
<1> HIDE DEF ver
<1>2. Layered(versions, ver)
    BY <1>1, DependenciesAre, TypeInvTables, LogInvTables DEF Layered
<1> QED
    BY <1>2 DEF ver

\* Two branches: an entity at the same version has the same digest on both
\* exactly when the same content is read below it on both.
LEMMA DigestsCompare ==
    ASSUME TypeInv, LogInv, NEW b, NEW c, DigestTables(b), DigestTables(c), NEW e \in Entities,
           VersionOf(b.rows, e) # 0, VersionOf(b.rows, e) = VersionOf(c.rows, e)
    PROVE  (CurrentRecord(b, e).digest = CurrentRecord(c, e).digest)
            <=> (Tree(b.rows, e) = Tree(c.rows, e))
<1> DEFINE ver == VersionsIn(b)
           dig == LastDigests(b, <<>>)
           ver2 == VersionsIn(c)
           dig2 == LastDigests(c, <<>>)
<1>1. CurrentRecord(b, e).digest = dig[e] /\ CurrentRecord(c, e).digest = dig2[e]
    BY CurrentDigest
<1>2. Tree(b.rows, e) = TreeOf(versions, ver, e) /\ Tree(c.rows, e) = TreeOf(versions, ver2, e)
    BY TreeOfBranch
<1>3. Layered(versions, ver) /\ Layered(versions, ver2)
    BY BranchLayered DEF DigestTables
<1>4. Fresh(versions, ver, dig) /\ Fresh(versions, ver2, dig2)
    BY DEF DigestTables, FreshBranch
<1>5. ver[e] # 0 /\ ver2[e] = ver[e]
    BY DEF VersionsIn
<1> HIDE DEF ver, ver2, dig, dig2
<1>6. dig2[e] = dig[e] <=> TreeOf(versions, ver, e) = TreeOf(versions, ver2, e)
    BY <1>3, <1>4, <1>5, DigestsAgree
<1> QED
    BY <1>1, <1>2, <1>6

\* Where contexts of one package are not nested, comparing the draft and the
\* published digest of an entity (contains_unpublished_changes) finds exactly
\* the differences a reader would find below it, at any distance.
THEOREM UnpublishedChangesFound ==
    ASSUME ~ Reentrant
    PROVE  Spec => []UnpublishedChangesDetected
<1>1. TypeInv /\ LogInv /\ ReplayInv /\ DigestInv => UnpublishedChangesDetected
    BY DigestInvTables, DigestsCompare DEF UnpublishedChangesDetected
<1> QED
    BY <1>1, DigestInvariance, PTL

-----------------------------------------------------------------------------
(* What a publish with its dependencies, and a reset, leave different.     *)

\* Without a draft there is no version and nothing published.
DraftedFirst(db) ==
    \A e \in Entities : db.draft.rows[e] = NoRow =>
        db.versions[e] = <<>> /\ VersionOf(db.published.rows, e) = 0

DraftedInv == DraftedFirst(Db) /\ DraftedFirst(committed)

LEMMA SideEffectsKeepRows ==
    ASSUME NEW vs, NEW b, BranchOK(b), NEW log \in Nat, NEW pk, NEW e \in Entities
    PROVE  LET a == CreateSideEffects(vs, b, log, pk)
           IN  /\ VersionOf(a.rows, e) = VersionOf(b.rows, e)
               /\ a.rows[e] = NoRow => b.rows[e] = NoRow
<1> DEFINE a == CreateSideEffects(vs, b, log, pk)
           version == VersionOf(b.rows, e)
<1>1. PICK affected : WithSideEffects(a, b, log, pk, affected)
    BY SideEffectsMembers
<1>2. version \in Nat
    BY VersionType
<1>3. a.rows[e] = IF e \in affected THEN [version |-> version, rec |-> log] ELSE b.rows[e]
    BY <1>1 DEF WithSideEffects
<1> HIDE DEF a
<1>4. CASE e \in affected
    <2>1. a.rows[e] = [version |-> version, rec |-> log]
        BY <1>3, <1>4
    <2>2. a.rows[e] \in Row
        BY <1>2, <2>1 DEF Row
    <2> HIDE DEF version
    <2>3. VersionOf(a.rows, e) = version
        BY <1>2, <2>1, RowValues
    <2> QED
        BY <2>2, <2>3, ConstantsAssumption DEF a, version
<1>5. CASE e \notin affected
    BY <1>3, <1>5 DEF VersionOf, a
<1> QED
    BY <1>4, <1>5

LEMMA SetVersionsKeepRows ==
    ASSUME BranchOK(draft), NEW n \in Nat, PkBound(draft, n),
           NEW target, IsTarget(target), NEW log \in Nat, NEW pk \in Nat, pk <= n,
           NEW e \in Entities, SetVersions(target, log, pk).rows[e] = NoRow
    PROVE  draft.rows[e] = NoRow /\ e \notin DOMAIN target
<1> DEFINE b == SetVersions(target, log, pk)
           rec == LogRecordAfter(b.recs[e], log)
<1>1. b.rows[e] = IF e \in DOMAIN target /\ VersionOf(draft.rows, e) # target[e]
                  THEN [version |-> target[e], rec |-> rec]
                  ELSE IF e \in DOMAIN target /\ draft.rows[e] = NoRow
                  THEN [version |-> 0, rec |-> 0]
                  ELSE draft.rows[e]
    BY DEF SetVersions
<1>2. BranchOK(b) /\ PkBound(b, n)
    BY SetVersionsKeepBranch
<1> HIDE DEF b
<1>3. rec \in Nat
    <2> DEFINE recs == b.recs[e]
    <2>1. \A r \in recs : RecordOK(r) /\ r.pk <= n
        BY <1>2 DEF BranchOK, PkBound
    <2> HIDE DEF recs
    <2>2. LogRecordAfter(recs, log) \in Nat
        BY <2>1, LogRecordAfterType
    <2> QED
        BY <2>2 DEF recs
<1> HIDE DEF rec
<1>4. ASSUME e \in DOMAIN target, VersionOf(draft.rows, e) # target[e]
      PROVE  b.rows[e] \in Row
    BY <1>1, <1>3, <1>4 DEF IsTarget, Row
<1>5. [version |-> 0, rec |-> 0] \in Row
    BY DEF Row
<1>6. b.rows[e] = NoRow
    BY DEF b
<1> QED
    BY <1>1, <1>4, <1>5, <1>6, ConstantsAssumption

LEMMA OnCommitDraftedInv ==
    ASSUME DraftedInv, DraftedFirst(Db)', NEW new, OnCommit(new)
    PROVE  DraftedInv'
<1>1. CASE contexts' = <<>>
    BY <1>1 DEF OnCommit, DraftedInv
<1>2. CASE contexts' # <<>>
    BY <1>2 DEF OnCommit, DraftedInv
<1> QED
    BY <1>1, <1>2

LEMMA ChangeDraftsDraftedInv ==
    ASSUME TypeInv, LogInv, ReplayInv, DraftedInv, NEW p, NEW target, DraftsChange(p, target)
    PROVE  DraftedInv'
<1>1. IsTarget(target) /\ IsTargetOf(target, p, versions') /\ MoreVersions(versions')
    BY DEF DraftsChange, IsTargetOf
<1> SUFFICES /\ UNCHANGED published /\ \E new : OnCommit(new)
             /\ \A e \in Entities : draft'.rows[e] = NoRow =>
                    draft.rows[e] = NoRow /\ e \notin DOMAIN target
    BY OnCommitDraftedInv DEF DraftsChange, DraftedInv, DraftedFirst, Db
<1>2. CASE ChangeInContext(p, target)
    <2>1. /\ draft' = SetVersions(target, ActiveLog(p), serial)
          /\ UNCHANGED published /\ OnCommit(<<>>)
        BY <1>2 DEF ChangeInContext
    <2>2. ActiveLog(p) \in Nat
        BY ActiveLogType
    <2>3. serial \in Nat /\ serial <= serial
        BY TypeInvTables
    <2> QED
        BY <1>1, <2>1, <2>2, <2>3, TypeInvTables, SetVersionsKeepRows
<1>3. CASE ChangeInOwnLog(versions', p, target)
    <2> DEFINE log == serial + 1
               b == SetVersions(target, log, log)
    <2>1. /\ draft' = CreateSideEffects(versions', b, log, log) /\ UNCHANGED published
          /\ OnCommit(<<ChangeLogEvent("draft", draft', log)>>)
        BY <1>3 DEF ChangeInOwnLog
    <2>2. log \in Nat /\ log <= log /\ PkBound(draft, log)
        BY TypeInvTables, PkBoundGrows
    <2>3. BranchOK(b)
        BY <1>1, ChangeOpensLog DEF OwnLogChange
    <2> HIDE DEF log
    <2>4. \A e \in Entities : draft'.rows[e] = NoRow => b.rows[e] = NoRow
        BY <2>1, <2>2, <2>3, SideEffectsKeepRows
    <2>5. \A e \in Entities : b.rows[e] = NoRow =>
            draft.rows[e] = NoRow /\ e \notin DOMAIN target
        BY <1>1, <2>2, TypeInvTables, SetVersionsKeepRows
    <2> QED
        BY <2>1, <2>4, <2>5
<1> QED
    BY <1>2, <1>3 DEF DraftsChange, ChangeDrafts

\* The versions a publish leaves on the published branch.
LEMMA PublishedVersions ==
    ASSUME TypeInv, LogInv, ReplayInv, NEW S, NEW all, NEW a,
           LET log == Len(publishLogs) + 1
           IN  a = CreateSideEffects(versions, PublishedAfter(S, all, log), log, log),
           NEW e \in Entities
    PROVE  VersionOf(a.rows, e) = IF e \in all THEN VersionOf(draft.rows, e)
                                  ELSE VersionOf(published.rows, e)
<1> DEFINE log == Len(publishLogs) + 1
           b == PublishedAfter(S, all, log)
           version == VersionOf(draft.rows, e)
<1>1. BranchOK(b) /\ log \in Nat
    BY PublishedAfterStep, ReplayInvTables
<1>2. b.rows[e] = IF e \in all THEN [version |-> version, rec |-> log] ELSE published.rows[e]
    BY DEF PublishedAfter
<1>3. version \in Nat
    BY TypeInvTables, VersionType
<1> HIDE DEF log, b
<1>4. VersionOf(a.rows, e) = VersionOf(b.rows, e)
    BY <1>1, SideEffectsKeepRows DEF log, b
<1>5. CASE e \in all
    <2> HIDE DEF version
    <2>1. VersionOf(b.rows, e) = version
        BY <1>1, <1>2, <1>3, <1>5, RowValues
    <2> QED
        BY <1>4, <1>5, <2>1 DEF version
<1>6. CASE e \notin all
    BY <1>2, <1>4, <1>6 DEF VersionOf
<1> QED
    BY <1>5, <1>6

LEMMA PublishFromDraftsDraftedInv ==
    ASSUME TypeInv, LogInv, ReplayInv, DraftedInv, NEW p, NEW S, NEW kind,
           NEW dependencies, PublishFromDrafts(p, S, kind, dependencies)
    PROVE  DraftedInv'
<1> DEFINE log == Len(publishLogs) + 1
           all == S \cup IF dependencies THEN DependenciesToPublish(S, kind) ELSE {}
<1>1. /\ published' = CreateSideEffects(versions, PublishedAfter(S, all, log), log, log)
      /\ UNCHANGED <<versions, draft>>
      /\ OnCommit(<<ChangeLogEvent("published", published', log)>>)
    BY DEF PublishFromDrafts
<1> HIDE DEF all
<1>2. \A e \in Entities :
        VersionOf(published'.rows, e) = IF e \in all THEN VersionOf(draft.rows, e)
                                        ELSE VersionOf(published.rows, e)
    BY <1>1, PublishedVersions
<1>3. \A e \in Entities : draft.rows[e] = NoRow =>
        /\ VersionOf(draft.rows, e) = 0 /\ VersionOf(published.rows, e) = 0
        /\ versions[e] = <<>>
    BY DEF DraftedInv, DraftedFirst, Db, VersionOf
<1>4. DraftedFirst(Db)'
    BY <1>1, <1>2, <1>3 DEF DraftedFirst, Db
<1> QED
    BY <1>1, <1>4, OnCommitDraftedInv

LEMMA NextDraftedInv ==
    ASSUME TypeInv, TypeInv', LogInv, ReplayInv, DraftedInv, [Next]_vars
    PROVE  DraftedInv'
<1>1. ASSUME NEW p \in Packages, NEW target, DraftsChange(p, target)
      PROVE  DraftedInv'
    BY <1>1, ChangeDraftsDraftedInv
<1>2. ASSUME NEW p \in Packages, BulkEnter(p)
      PROVE  DraftedInv'
    BY <1>2 DEF BulkEnter, DraftedInv, DraftedFirst, Db
<1>3. CASE BulkExit
    <2> DEFINE l0 == contexts[Len(contexts)]
    <2>1. /\ draft' = CreateSideEffects(versions, draft, l0.id, serial')
          /\ UNCHANGED <<versions, published>>
          /\ OnCommit(<<ChangeLogEvent("draft", draft', l0.id)>>)
          /\ contexts # <<>>
        BY <1>3 DEF BulkExit
    <2>2. l0 \in Log
        BY <2>1, TypeInvTables
    <2> HIDE DEF l0
    <2>3. l0.id \in Nat
        BY <2>2 DEF Log
    <2>4. \A e \in Entities : draft'.rows[e] = NoRow => draft.rows[e] = NoRow
        BY <2>1, <2>3, TypeInvTables, SideEffectsKeepRows
    <2>5. DraftedFirst(Db)'
        BY <2>1, <2>4 DEF DraftedInv, DraftedFirst, Db
    <2> QED
        BY <2>1, <2>5, OnCommitDraftedInv
<1>4. CASE BulkAbort
    BY <1>4 DEF BulkAbort, DraftedInv, DraftedFirst, Db
<1>5. ASSUME NEW p \in Packages, NEW S \in SUBSET Entities, NEW kind,
             NEW dependencies \in BOOLEAN, PublishFromDrafts(p, S, kind, dependencies)
      PROVE  DraftedInv'
    BY <1>5, PublishFromDraftsDraftedInv
<1>6. CASE UNCHANGED vars
    BY <1>6 DEF vars, DraftedInv, DraftedFirst, Db
<1> QED
    BY <1>1, <1>2, <1>3, <1>4, <1>5, <1>6, StepsAre

LEMMA DraftedInvariance ==
    ASSUME ~ Reentrant
    PROVE  Spec => []DraftedInv
<1>1. Init => DraftedInv
    BY DEF Init, DraftedInv, DraftedFirst, Db, VersionOf
<1>2. TypeInv /\ TypeInv' /\ LogInv /\ ReplayInv /\ DraftedInv /\ [Next]_vars => DraftedInv'
    BY NextDraftedInv
<1> QED
    BY <1>1, <1>2, ReplayInvariance, PTL DEF Spec

LEMMA SameBelow ==
    ASSUME NEW vs, NEW ver, NEW ver2, Layered(vs, ver), Layered(vs, ver2), NEW e \in Entities,
           \A x \in Below(vs, ver, e) : ver2[x] = ver[x]
    PROVE  TreeOf(vs, ver, e) = TreeOf(vs, ver2, e)
<1> DEFINE W == Below(vs, ver, e)
<1>1. W \in SUBSET Entities /\ e \in W
    BY BelowEntities DEF Below
<1>2. \A x \in W : DependenciesOf(vs, x, ver2[x]) \subseteq W
    BY BelowClosed
<1>3. Below(vs, ver2, e) \subseteq W
    <2> HIDE DEF W
    <2> QED
        BY <1>1, <1>2, BelowLeast
<1>4. ReadAlike(vs, ver, ver2, e) /\ ReadAlike(vs, ver2, ver, e)
    BY <1>3 DEF ReadAlike
<1>5. TreeOf(vs, ver, e) \subseteq TreeOf(vs, ver2, e)
    BY <1>4, TreesAlike
<1>6. TreeOf(vs, ver2, e) \subseteq TreeOf(vs, ver, e)
    BY <1>4, TreesAlike
<1> QED
    BY <1>5, <1>6

\* Branches that hold the same versions from e down show the same tree.
LEMMA SameTree ==
    ASSUME TypeInv, LogInv, NEW b, BranchOK(b), RowsHaveVersions(versions, b),
           NEW c, BranchOK(c), RowsHaveVersions(versions, c), NEW e \in Entities,
           NEW W \in SUBSET Entities, e \in W,
           \A x \in W : CurrentDependencies(versions, b.rows)[x] \subseteq W,
           \A x \in W : VersionOf(c.rows, x) = VersionOf(b.rows, x)
    PROVE  Tree(b.rows, e) = Tree(c.rows, e)
<1> DEFINE ver == VersionsIn(b)
           ver2 == VersionsIn(c)
<1>1. Layered(versions, ver) /\ Layered(versions, ver2)
    BY BranchLayered
<1>2. \A x \in W : DependenciesOf(versions, x, ver[x]) \subseteq W
    BY DEF CurrentDependencies, VersionsIn
<1>3. \A x \in W : ver2[x] = ver[x]
    BY DEF VersionsIn
<1> HIDE DEF ver, ver2
<1>4. Below(versions, ver, e) \subseteq W
    BY <1>2, BelowLeast
<1>5. TreeOf(versions, ver, e) = TreeOf(versions, ver2, e)
    BY <1>1, <1>3, <1>4, SameBelow
<1> QED
    BY <1>5, TreeOfBranch DEF ver, ver2

\* A publish of S with its dependencies: below S both branches hold the same.
LEMMA PublishedBelow ==
    ASSUME "unpublished" \notin QuerysetKinds, TypeInv, TypeInv', LogInv, LogInv',
           ReplayInv, DraftedInv, NEW p, NEW S \in SUBSET Entities, NEW kind \in QuerysetKinds,
           PublishFromDrafts(p, S, kind, TRUE), NEW e \in S
    PROVE  Tree(draft.rows, e)' = Tree(published.rows, e)'
<1> DEFINE log == Len(publishLogs) + 1
           all == S \cup DependenciesToPublish(S, kind)
           deps == CurrentDependencies(versions, draft.rows)
           W == S \cup Descendants(deps, S)
           a == published'
<1>1. /\ a = CreateSideEffects(versions, PublishedAfter(S, all, log), log, log)
      /\ UNCHANGED <<versions, draft>>
    BY DEF PublishFromDrafts
<1>2. DependenciesToPublish(S, kind) = {d \in Descendants(deps, S) : Unpublished(d)}
    BY DEF DependenciesToPublish
<1>3. DOMAIN deps = Entities /\ \A x \in Entities : deps[x] \subseteq Entities
    BY CurrentDependenciesOwn, TypeInvTables, LogInvTables
<1>4. W \in SUBSET Entities /\ e \in W
    BY <1>3 DEF Descendants
<1>5. \A x \in W : deps[x] \subseteq W
    <2> HIDE DEF deps
    <2> QED
        BY <1>3, <1>4, DescendantsClosed
<1> HIDE DEF all
<1>6. \A x \in Entities : VersionOf(a.rows, x) = IF x \in all THEN VersionOf(draft.rows, x)
                                                 ELSE VersionOf(published.rows, x)
    BY <1>1, PublishedVersions
<1>7. ASSUME NEW x \in W
      PROVE  VersionOf(a.rows, x) = VersionOf(draft.rows, x)
    <2>1. x \in Entities
        BY <1>4
    <2>2. CASE x \in all
        BY <1>6, <2>1, <2>2
    <2>3. CASE x \notin all
        <3>1. ~ Unpublished(x)
            BY <1>2, <2>3 DEF all
        <3>2. VersionOf(draft.rows, x) = VersionOf(published.rows, x)
            <4>1. CASE draft.rows[x] = NoRow
                BY <2>1, <4>1 DEF DraftedInv, DraftedFirst, Db, VersionOf
            <4>2. CASE draft.rows[x] # NoRow
                BY <3>1, <4>2 DEF Unpublished
            <4> QED
                BY <4>1, <4>2
        <3> QED
            BY <1>6, <2>1, <2>3, <3>2
    <2> QED
        BY <2>2, <2>3
<1>8. BranchOK(a) /\ RowsHaveVersions(versions, a)
    <2>1. BranchOK(a) /\ RowsHaveVersions(versions', a)
        BY DEF TypeInv, TypeOK, DbOK, LogInv, DbInv, Db
    <2> QED
        BY <1>1, <2>1
<1> HIDE DEF a, W
<1>9. Tree(draft.rows, e) = Tree(a.rows, e)
    BY <1>4, <1>5, <1>7, <1>8, TypeInvTables, LogInvTables, SameTree
<1>10. Tree(draft.rows, e)' = Tree(draft.rows, e)
    BY <1>1 DEF Tree
<1>11. Tree(published.rows, e)' = Tree(a.rows, e)
    BY <1>1 DEF Tree, a
<1> QED
    BY <1>9, <1>10, <1>11

\* Where the caller's queryset does not itself filter on unpublished changes, a
\* publish that includes dependencies leaves nothing below the requested
\* entities that authors see and learners do not, at any distance.
THEOREM PublishReachesDependencies ==
    ASSUME ~ Reentrant, "unpublished" \notin QuerysetKinds
    PROVE  Spec => PublishIncludesDependencies
<1>1. ASSUME TypeInv, TypeInv', LogInv, LogInv', ReplayInv, DraftedInv
      PROVE  [publishLogs' # publishLogs =>
                \A p \in Packages, S \in Selections, kind \in QuerysetKinds :
                    PublishFromDrafts(p, S, kind, TRUE) =>
                        (\A e \in S : Tree(draft.rows, e) = Tree(published.rows, e))']_vars
    <2> SUFFICES ASSUME NEW p \in Packages, NEW S \in Selections, NEW kind \in QuerysetKinds,
                        PublishFromDrafts(p, S, kind, TRUE), NEW e \in S
                 PROVE  Tree(draft.rows, e)' = Tree(published.rows, e)'
        OBVIOUS
    <2>1. S \in SUBSET Entities
        BY DEF Selections
    <2> QED
        BY <1>1, <2>1, PublishedBelow
<1>2. TypeInv /\ TypeInv' /\ LogInv /\ LogInv' /\ ReplayInv /\ DraftedInv =>
        [publishLogs' # publishLogs =>
            \A p \in Packages, S \in Selections, kind \in QuerysetKinds :
                PublishFromDrafts(p, S, kind, TRUE) =>
                    (\A e \in S : Tree(draft.rows, e) = Tree(published.rows, e))']_vars
    BY <1>1
<1> QED
    BY <1>2, ReplayInvariance, DraftedInvariance, PTL DEF Spec, PublishIncludesDependencies

\* A reset of package p outside any context: both branches hold the same
\* version of every entity of p.
LEMMA ResetVersions ==
    ASSUME TypeInv, TypeInv', LogInv, ReplayInv, DraftedInv, NEW p \in Packages,
           ResetDraftsToPublished(p), NEW e \in Entities, PackageOf[e] = p
    PROVE  VersionOf(draft'.rows, e) = VersionOf(published.rows, e)
<1> DEFINE differing == {x \in Entities : PackageOf[x] = p /\ Unpublished(x)}
           target == [x \in differing |-> VersionOf(published.rows, x)]
<1>1. DraftsChange(p, target)
    BY ResetDraftsChangesDrafts
<1>2. IsTarget(target) /\ IsTargetOf(target, p, versions') /\ MoreVersions(versions')
    BY <1>1 DEF DraftsChange, IsTargetOf
<1>3. VersionOf(published.rows, e) = IF e \in DOMAIN target THEN target[e]
                                     ELSE VersionOf(draft.rows, e)
    <2>1. CASE e \in differing
        BY <2>1
    <2>2. CASE e \notin differing
        <3>1. CASE draft.rows[e] = NoRow
            BY <2>2, <3>1 DEF DraftedInv, DraftedFirst, Db, VersionOf
        <3>2. CASE draft.rows[e] # NoRow
            BY <2>2, <3>2 DEF Unpublished
        <3> QED
            BY <2>2, <3>1, <3>2
    <2> QED
        BY <2>1, <2>2
<1> HIDE DEF target
<1>4. CASE ChangeInContext(p, target)
    <2>1. draft' = SetVersions(target, ActiveLog(p), serial)
        BY <1>4 DEF ChangeInContext
    <2>2. ActiveLog(p) \in Nat /\ serial \in Nat /\ serial <= serial
        BY ActiveLogType, TypeInvTables
    <2>3. VersionOf(draft'.rows, e) = IF e \in DOMAIN target THEN target[e]
                                      ELSE VersionOf(draft.rows, e)
        BY <1>2, <2>1, <2>2, TypeInvTables, SetVersionsMembers
    <2> QED
        BY <1>3, <2>3
<1>5. CASE ChangeInOwnLog(versions', p, target)
    <2> DEFINE log == serial + 1
               b == SetVersions(target, log, log)
    <2>1. draft' = CreateSideEffects(versions', b, log, log)
        BY <1>5 DEF ChangeInOwnLog
    <2>2. log \in Nat /\ log <= log /\ PkBound(draft, log)
        BY TypeInvTables, PkBoundGrows
    <2>3. BranchOK(b)
        BY <1>2, ChangeOpensLog DEF OwnLogChange
    <2> HIDE DEF log
    <2>4. VersionOf(b.rows, e) = IF e \in DOMAIN target THEN target[e]
                                 ELSE VersionOf(draft.rows, e)
        BY <1>2, <2>2, TypeInvTables, SetVersionsMembers
    <2>5. VersionOf(draft'.rows, e) = VersionOf(b.rows, e)
        BY <2>1, <2>2, <2>3, SideEffectsKeepRows
    <2> QED
        BY <1>3, <2>4, <2>5
<1> QED
    BY <1>1, <1>4, <1>5 DEF DraftsChange, ChangeDrafts

\* Nothing a package's entities depend on leaves the package.
LEMMA DependenciesStay ==
    ASSUME NEW vs, vs \in [Entities -> Seq(SUBSET Entities)], OwnDependencies(vs),
           NEW b, BranchOK(b), RowsHaveVersions(vs, b), NEW p
    PROVE  \A x \in {y \in Entities : PackageOf[y] = p} :
               CurrentDependencies(vs, b.rows)[x] \subseteq {y \in Entities : PackageOf[y] = p}
<1>1. \A x \in Entities : \A d \in CurrentDependencies(vs, b.rows)[x] :
          d \in Entities /\ PackageOf[d] = PackageOf[x]
    BY CurrentDependenciesOwn
<1> QED
    BY <1>1

LEMMA ResetDigests ==
    ASSUME TypeInv, TypeInv', LogInv, LogInv', ReplayInv, ReplayInv', DigestInv, DigestInv',
           DraftedInv, NEW p \in Packages, Quiescent, ResetDraftsToPublished(p),
           NEW e \in Entities, PackageOf[e] = p, VersionOf(draft'.rows, e) # 0
    PROVE  CurrentRecord(draft', e).digest = CurrentRecord(published, e).digest
<1> DEFINE W == {x \in Entities : PackageOf[x] = p}
           a == draft'
<1>1. UNCHANGED <<versions, published, contexts>>
    BY DEF ResetDraftsToPublished, ChangeDrafts, ChangeInContext, ChangeInOwnLog
<1>2. \A x \in W : VersionOf(a.rows, x) = VersionOf(published.rows, x)
    BY ResetVersions
<1>3. DigestTables(published)
    BY DigestInvTables
<1>4. DigestTables(a)
    <2>1. contexts' = <<>>
        BY <1>1 DEF Quiescent
    <2>2. PICK starts : /\ DraftsStart(draft', contexts', starts)
                        /\ Fresh(versions', starts, LastDigests(draft', contexts'))
        BY DEF DigestInv
    <2>3. FreshBranch(versions, a)
        BY <1>1, <2>1, <2>2, FreshDrafts, TypeInvTables, LogInvTables
    <2>4. BranchOK(a) /\ PkBound(a, serial') /\ serial' \in Nat
        BY DEF TypeInv, TypeOK, DbOK, Db
    <2>5. BranchReplays(a) /\ RowsHaveVersions(versions', a)
        BY DEF ReplayInv, DbReplays, LogInv, DbInv, Db
    <2> QED
        BY <1>1, <2>3, <2>4, <2>5 DEF DigestTables
<1> HIDE DEF a
<1>5. BranchOK(a) /\ RowsHaveVersions(versions, a)
    BY <1>4 DEF DigestTables
<1>6. \A x \in W : CurrentDependencies(versions, a.rows)[x] \subseteq W
    <2>1. versions \in [Entities -> Seq(SUBSET Entities)] /\ OwnDependencies(versions)
        BY TypeInvTables, LogInvTables
    <2> QED
        BY <1>5, <2>1, DependenciesStay
<1>7. W \in SUBSET Entities /\ e \in W
    OBVIOUS
<1> HIDE DEF W
<1>8. Tree(a.rows, e) = Tree(published.rows, e)
    BY <1>2, <1>5, <1>6, <1>7, TypeInvTables, LogInvTables, SameTree
<1>9. VersionOf(a.rows, e) # 0 /\ VersionOf(a.rows, e) = VersionOf(published.rows, e)
    BY <1>2, <1>7 DEF a
<1>10. CurrentRecord(a, e).digest = CurrentRecord(published, e).digest
    BY <1>3, <1>4, <1>8, <1>9, DigestsCompare
<1> QED
    BY <1>10 DEF a

\* Where contexts of one package are not nested, discarding the changes of a
\* package leaves no difference in it, and no entity whose digests still say
\* that something below it is unpublished.
THEOREM ResetDiscardsEverything ==
    ASSUME ~ Reentrant
    PROVE  Spec => ResetLeavesNothingUnpublished
<1>1. TypeInv /\ TypeInv' /\ LogInv /\ LogInv' /\ ReplayInv /\ ReplayInv'
        /\ DigestInv /\ DigestInv' /\ DraftedInv =>
        [\A p \in Packages : Quiescent /\ ResetDraftsToPublished(p) =>
            \A e \in Entities : PackageOf[e] = p /\ draft'.rows[e] # NoRow =>
                /\ VersionOf(draft'.rows, e) = VersionOf(published.rows, e)
                /\ VersionOf(draft'.rows, e) # 0 =>
                    CurrentRecord(draft', e).digest = CurrentRecord(published, e).digest]_vars
    BY ResetVersions, ResetDigests
<1> QED
    BY <1>1, DigestInvariance, DraftedInvariance, PTL DEF Spec, ResetLeavesNothingUnpublished
=============================================================================
