--------------------------- MODULE Containers_proofs ---------------------------
(***************************************************************************)
(* Containers implements Publishing, its entity lists and publishing's     *)
(* versions stay in step, containers without unpublished changes read the  *)
(* same on both branches, what was published stays as it was, the          *)
(* histories of an entity lead to its draft and to its publishes, queries  *)
(* that ask the same thing agree, and the data migrations of module        *)
(* ContentUpgrade restore what the program keeps up to date, for every     *)
(* value of the constants.                                                 *)
(***************************************************************************)
EXTENDS ContentUpgrade, Publishing_digest_proofs, FiniteSetTheorems, FunctionTheorems

-----------------------------------------------------------------------------
(* The inductive invariant, about lists ls, versions vs and the versions cv *)
(* that a rollback goes back to.                                           *)

VersionsTyped(vs) == vs \in [Entities -> Seq(SUBSET Entities)]
ListsTyped(ls) == ls \in [Containers -> Seq(Seq(EntityListRow))]

\* Every version of a container has a list, which names its dependencies.
ListsOf(ls, vs) ==
    \A c \in Containers :
        /\ Len(ls[c]) = Len(vs[c])
        /\ \A k \in 1..Len(vs[c]) : vs[c][k] = UnpinnedChildren(ls[c][k])

\* The lists of versions in vs pin versions in vs.
PinsWithin(ls, vs) ==
    \A c \in Containers : \A k \in 1..Len(vs[c]) :
        \A r \in RowsOf(ls[c][k]) : r.pin <= Len(vs[r.entity])

IsPrefixOf(cv, vs) ==
    \A e \in Entities :
        /\ Len(cv[e]) <= Len(vs[e])
        /\ \A k \in 1..Len(cv[e]) : cv[e][k] = vs[e][k]

InStep(ls, vs, cv) ==
    /\ VersionsTyped(vs) /\ VersionsTyped(cv) /\ ListsTyped(ls)
    /\ ListsOf(ls, vs)
    /\ IsPrefixOf(cv, vs)
    /\ PinsWithin(ls, vs)
    /\ PinsWithin(ls, cv)

ListInv == InStep(lists, versions, committed.versions)

-----------------------------------------------------------------------------
(* Facts about lists and steps.                                            *)

LEMMA ListedAreEntities ==
    ASSUME NEW list \in Seq(EntityListRow)
    PROVE  /\ UnpinnedChildren(list) \subseteq Entities
           /\ \A r \in RowsOf(list) : r.entity \in Entities /\ r.pin \in Nat
<1>1. \A r \in RowsOf(list) : r \in EntityListRow
    BY DEF RowsOf
<1> QED
    BY <1>1 DEF UnpinnedChildren, EntityListRow

LEMMA ContainersAreEntities == Containers \subseteq Entities
    BY DEF Containers

\* A commit keeps the versions there are.
LEMMA InStepAfterCommit ==
    ASSUME NEW ls, NEW vs, NEW cv, InStep(ls, vs, cv)
    PROVE  InStep(ls, vs, vs)
    BY DEF InStep, VersionsTyped, IsPrefixOf

\* A new version of an entity without children.
LEMMA InStepAfterComponent ==
    ASSUME NEW ls, NEW vs, NEW cv, InStep(ls, vs, cv), NEW e \in Entities \ Containers
    PROVE  InStep(ls, [vs EXCEPT ![e] = Append(@, {})], cv)
<1> DEFINE ws == [vs EXCEPT ![e] = Append(@, {})]
<1>1. VersionsTyped(ws)
    BY DEF InStep, VersionsTyped
<1>2. /\ \A x \in Entities : Len(vs[x]) \in Nat /\ Len(ws[x]) >= Len(vs[x])
      /\ \A x \in Entities : \A k \in 1..Len(vs[x]) : ws[x][k] = vs[x][k]
      /\ \A c \in Containers : ws[c] = vs[c]
    BY ContainersAreEntities DEF InStep, VersionsTyped
<1> HIDE DEF ws
<1>3. ListsOf(ls, ws)
    BY <1>2 DEF InStep, ListsOf
<1>4. IsPrefixOf(cv, ws)
    BY <1>1, <1>2 DEF InStep, IsPrefixOf, VersionsTyped
<1>5. PinsWithin(ls, ws)
    <2>1. SUFFICES ASSUME NEW c \in Containers, NEW k \in 1..Len(vs[c]),
                          NEW r \in RowsOf(ls[c][k])
                   PROVE  r.pin <= Len(ws[r.entity])
        BY <1>2 DEF PinsWithin
    <2>2. ls[c][k] \in Seq(EntityListRow)
        BY DEF InStep, ListsTyped, ListsOf
    <2>3. r.entity \in Entities /\ r.pin \in Nat
        BY <2>2, ListedAreEntities
    <2>4. r.pin <= Len(vs[r.entity])
        BY DEF InStep, PinsWithin
    <2>5. Len(ws[r.entity]) \in Nat
        BY <1>1, <2>3 DEF VersionsTyped
    <2> QED
        BY <1>2, <2>3, <2>4, <2>5
<1> QED
    BY <1>1, <1>3, <1>4, <1>5 DEF InStep, ws

\* A new version of a container, with a list whose pins exist.
LEMMA InStepAfterContainer ==
    ASSUME NEW ls, NEW vs, NEW cv, InStep(ls, vs, cv), NEW c \in Containers,
           NEW list \in Seq(EntityListRow),
           \A r \in RowsOf(list) : r.pin <= Len(vs[r.entity])
    PROVE  InStep([ls EXCEPT ![c] = Append(@, list)],
                  [vs EXCEPT ![c] = Append(@, UnpinnedChildren(list))], cv)
<1> DEFINE ws == [vs EXCEPT ![c] = Append(@, UnpinnedChildren(list))]
           ms == [ls EXCEPT ![c] = Append(@, list)]
<1>0. c \in Entities /\ UnpinnedChildren(list) \in SUBSET Entities
    BY ContainersAreEntities, ListedAreEntities
<1>1. VersionsTyped(ws) /\ ListsTyped(ms)
    BY <1>0 DEF InStep, VersionsTyped, ListsTyped
<1>2. /\ \A x \in Entities : Len(vs[x]) \in Nat /\ Len(ws[x]) >= Len(vs[x])
      /\ \A x \in Entities : \A k \in 1..Len(vs[x]) : ws[x][k] = vs[x][k]
      /\ \A x \in Containers : x # c => ws[x] = vs[x] /\ ms[x] = ls[x]
      /\ \A x \in Containers : \A k \in 1..Len(vs[x]) : ms[x][k] = ls[x][k]
    BY <1>0, ContainersAreEntities DEF InStep, VersionsTyped, ListsTyped, ListsOf
<1>3. /\ Len(ws[c]) = Len(vs[c]) + 1 /\ Len(ms[c]) = Len(vs[c]) + 1
      /\ ws[c][Len(vs[c]) + 1] = UnpinnedChildren(list)
      /\ ms[c][Len(vs[c]) + 1] = list
    BY <1>0 DEF InStep, VersionsTyped, ListsTyped, ListsOf
<1> HIDE DEF ws, ms
<1>4. \A k \in 1..Len(ws[c]) : k \in 1..Len(vs[c]) \/ k = Len(vs[c]) + 1
    BY <1>0, <1>2, <1>3
<1>5. ListsOf(ms, ws)
    <2>1. SUFFICES ASSUME NEW x \in Containers
                   PROVE  /\ Len(ms[x]) = Len(ws[x])
                          /\ \A k \in 1..Len(ws[x]) : ws[x][k] = UnpinnedChildren(ms[x][k])
        BY DEF ListsOf
    <2>2. CASE x = c
        BY <1>0, <1>2, <1>3, <1>4, <2>2 DEF InStep, ListsOf
    <2>3. CASE x # c
        BY <1>2, <2>3 DEF InStep, ListsOf
    <2> QED
        BY <2>2, <2>3
<1>6. IsPrefixOf(cv, ws)
    BY <1>1, <1>2 DEF InStep, IsPrefixOf, VersionsTyped
<1>7. ASSUME NEW r, r.entity \in Entities, r.pin \in Nat, r.pin <= Len(vs[r.entity])
      PROVE  r.pin <= Len(ws[r.entity])
    <2>1. Len(ws[r.entity]) \in Nat
        BY <1>1, <1>7 DEF VersionsTyped
    <2> QED
        BY <1>2, <1>7, <2>1
<1>8. PinsWithin(ms, ws)
    <2>1. SUFFICES ASSUME NEW x \in Containers, NEW k \in 1..Len(ws[x]),
                          NEW r \in RowsOf(ms[x][k])
                   PROVE  r.pin <= Len(ws[r.entity])
        BY DEF PinsWithin
    <2>2. CASE x = c /\ k = Len(vs[c]) + 1
        BY <1>3, <1>7, <2>2, ListedAreEntities
    <2>3. CASE k \in 1..Len(vs[x])
        <3>1. ms[x][k] = ls[x][k] /\ ls[x][k] \in Seq(EntityListRow)
            BY <1>2, <2>3 DEF InStep, ListsTyped, ListsOf
        <3>2. r.pin <= Len(vs[r.entity])
            BY <2>3, <3>1 DEF InStep, PinsWithin
        <3> QED
            BY <1>7, <3>1, <3>2, ListedAreEntities
    <2> QED
        BY <1>2, <1>4, <2>2, <2>3
<1>9. PinsWithin(ms, cv)
    <2>1. SUFFICES ASSUME NEW x \in Containers, NEW k \in 1..Len(cv[x])
                   PROVE  ms[x][k] = ls[x][k]
        BY DEF PinsWithin, InStep
    <2>2. k \in 1..Len(vs[x])
        BY <1>2, ContainersAreEntities DEF InStep, IsPrefixOf, VersionsTyped
    <2> QED
        BY <1>2, <2>2
<1> QED
    BY <1>1, <1>5, <1>6, <1>8, <1>9 DEF InStep, ws, ms

\* A rollback to the versions cv.
LEMMA InStepAfterRollback ==
    ASSUME NEW ls, NEW vs, NEW cv, InStep(ls, vs, cv)
    PROVE  InStep([c \in Containers |-> SubSeq(ls[c], 1, Len(cv[c]))], cv, cv)
<1> DEFINE ms == [c \in Containers |-> SubSeq(ls[c], 1, Len(cv[c]))]
<1>1. ASSUME NEW c \in Containers
      PROVE  /\ ms[c] \in Seq(Seq(EntityListRow))
             /\ Len(ms[c]) = Len(cv[c])
             /\ \A k \in 1..Len(cv[c]) : k \in 1..Len(vs[c]) /\ ms[c][k] = ls[c][k]
    <2>1. ls[c] \in Seq(Seq(EntityListRow)) /\ Len(cv[c]) \in Nat /\ Len(vs[c]) \in Nat
        BY ContainersAreEntities DEF InStep, ListsTyped, VersionsTyped
    <2>2. Len(cv[c]) <= Len(ls[c]) /\ Len(ls[c]) = Len(vs[c])
        BY ContainersAreEntities DEF InStep, ListsOf, IsPrefixOf
    <2> QED
        BY <2>1, <2>2
<1>2. DOMAIN ms = Containers
    OBVIOUS
<1>3. ms = [c \in Containers |-> ms[c]]
    OBVIOUS
<1> HIDE DEF ms
<1>4. ListsTyped(ms)
    BY <1>1, <1>3 DEF ListsTyped
<1>5. ListsOf(ms, cv)
    BY <1>1, ContainersAreEntities DEF ListsOf, InStep, IsPrefixOf
<1>6. PinsWithin(ms, cv)
    BY <1>1 DEF PinsWithin, InStep
<1>7. IsPrefixOf(cv, cv)
    BY DEF IsPrefixOf, InStep, VersionsTyped
<1> QED
    BY <1>4, <1>5, <1>6, <1>7 DEF InStep, ms

\* The dependencies of a new container version are among those DependencySets
\* gives publishing for the container.
LEMMA AllowedDependencies ==
    ASSUME NEW c \in Containers, NEW list, NewContainerVersion(c, list)
    PROVE  UnpinnedChildren(list) \in DependencySets[c]
<1>1. list \in Seq(EntityListRow) /\ CreateVersion(c, UnpinnedChildren(list))
    BY DEF NewContainerVersion
<1>2. \A d \in UnpinnedChildren(list) :
        d \in Entities /\ PackageOf[d] = PackageOf[c] /\ Level[d] < Level[c]
    BY <1>1, ListedAreEntities DEF CreateVersion
<1> QED
    BY <1>2, ContainersAssumption DEF Containers

\* After OnCommit other connections see the tables or what they saw before.
LEMMA OnCommitVersions ==
    ASSUME NEW new, OnCommit(new)
    PROVE  \/ committed'.versions = versions'
           \/ committed' = committed
    BY DEF OnCommit, Db

LEMMA ChangeDraftsVersions ==
    ASSUME NEW vs, NEW p, NEW target, ChangeDrafts(vs, p, target)
    PROVE  \/ committed'.versions = versions'
           \/ committed' = committed
<1>1. CASE ChangeInContext(p, target)
    BY <1>1, OnCommitVersions DEF ChangeInContext
<1>2. CASE ChangeInOwnLog(vs, p, target)
    BY <1>2, OnCommitVersions DEF ChangeInOwnLog
<1> QED
    BY <1>1, <1>2 DEF ChangeDrafts

\* A step of publishing other than the creation of a version and a rollback
\* keeps the versions, and commits all of them or none.
LeavesVersions ==
    /\ versions' = versions
    /\ committed'.versions = versions \/ committed' = committed

LEMMA PublishingStepVersions ==
    ASSUME PublishingStep
    PROVE  \/ LeavesVersions
           \/ \E e \in Entities \ Containers : CreateVersion(e, {})
<1>1. ASSUME NEW e \in Entities, NEW n, SetDraftVersion(e, n)
      PROVE  LeavesVersions
    BY <1>1, ChangeDraftsVersions DEF SetDraftVersion, LeavesVersions
<1>2. ASSUME NEW e \in Entities, SoftDeleteDraft(e)
      PROVE  LeavesVersions
    BY <1>2, ChangeDraftsVersions DEF SoftDeleteDraft, LeavesVersions
<1>3. ASSUME NEW p \in Packages, ResetDraftsToPublished(p)
      PROVE  LeavesVersions
    BY <1>3, ChangeDraftsVersions DEF ResetDraftsToPublished, LeavesVersions
<1>4. ASSUME NEW p \in Packages, BulkEnter(p)
      PROVE  LeavesVersions
    BY <1>4 DEF BulkEnter, LeavesVersions
<1>5. ASSUME BulkExit
      PROVE  LeavesVersions
    BY <1>5, OnCommitVersions DEF BulkExit, LeavesVersions
<1>6. ASSUME NEW p, NEW S, NEW kind, NEW deps, PublishFromDrafts(p, S, kind, deps)
      PROVE  LeavesVersions
    BY <1>6, OnCommitVersions DEF PublishFromDrafts, LeavesVersions
<1>7. ASSUME NEW p \in Packages, PublishAllDrafts(p)
      PROVE  LeavesVersions
    BY <1>6, <1>7 DEF PublishAllDrafts
<1> QED
    BY <1>1, <1>2, <1>3, <1>4, <1>5, <1>6, <1>7 DEF PublishingStep

-----------------------------------------------------------------------------
(* Every step is a step of Publishing or changes nothing of it.            *)

LEMMA StepImplements ==
    ASSUME CNext
    PROVE  Next
<1>1. ASSUME NEW c \in Containers, NEW list, NewContainerVersion(c, list)
      PROVE  Next
    <2>1. UnpinnedChildren(list) \in DependencySets[c] /\ c \in Entities
        BY <1>1, AllowedDependencies DEF Containers
    <2> QED
        BY <1>1, <2>1 DEF NewContainerVersion, Next
<1>2. CASE \E c \in Containers : \E input \in ListInputs[c], action \in ListActions :
                CreateContainerVersion(c, input, action)
    BY <1>1, <1>2 DEF CreateContainerVersion
<1>3. CASE \E c \in Containers : ChangeContainerMetadata(c)
    BY <1>1, <1>3 DEF ChangeContainerMetadata
<1>4. CASE AbortContainers
    BY <1>4 DEF AbortContainers, Next
<1>5. CASE PublishingStep /\ UNCHANGED lists
    <2>1. \A e \in Entities : {} \in DependencySets[e]
        BY ContainersAssumption
    <2> QED
        BY <1>5, <2>1 DEF PublishingStep, Next
<1> QED
    BY <1>2, <1>3, <1>4, <1>5 DEF CNext

-----------------------------------------------------------------------------
(* Invariance.                                                             *)

LEMMA InitListInv == CInit => ListInv
<1> SUFFICES ASSUME CInit PROVE ListInv
    OBVIOUS
<1>1. /\ versions = [e \in Entities |-> <<>>] /\ committed.versions = versions
      /\ lists = [c \in Containers |-> <<>>]
    BY DEF CInit, Init, Db
<1>2. VersionsTyped(versions) /\ ListsTyped(lists)
    BY <1>1 DEF VersionsTyped, ListsTyped
<1>3. \A e \in Entities : Len(versions[e]) = 0
    BY <1>1
<1>4. \A c \in Containers : Len(lists[c]) = 0
    BY <1>1
<1> QED
    BY <1>1, <1>2, <1>3, <1>4, ContainersAreEntities
       DEF ListInv, InStep, ListsOf, PinsWithin, IsPrefixOf

\* The two outcomes of OnCommit for the versions that a rollback goes back to.
LEMMA ListInvAfter ==
    ASSUME InStep(lists', versions', committed.versions),
           committed'.versions = versions' \/ committed' = committed
    PROVE  ListInv'
    BY InStepAfterCommit DEF ListInv

LEMMA NewContainerVersionListInv ==
    ASSUME ListInv, NEW c \in Containers, NEW list, NewContainerVersion(c, list)
    PROVE  ListInv'
<1>1. /\ list \in Seq(EntityListRow)
      /\ \A r \in RowsOf(list) : r.pin <= Len(versions[r.entity])
      /\ lists' = [lists EXCEPT ![c] = Append(@, list)]
      /\ CreateVersion(c, UnpinnedChildren(list))
    BY DEF NewContainerVersion
<1>2. /\ versions' = [versions EXCEPT ![c] = Append(@, UnpinnedChildren(list))]
      /\ committed'.versions = versions' \/ committed' = committed
    BY <1>1, ChangeDraftsVersions DEF CreateVersion
<1>3. InStep(lists', versions', committed.versions)
    BY <1>1, <1>2, InStepAfterContainer DEF ListInv
<1> QED
    BY <1>2, <1>3, ListInvAfter

LEMMA NextListInv == ListInv /\ [CNext]_cvars => ListInv'
<1> SUFFICES ASSUME ListInv, [CNext]_cvars PROVE ListInv'
    OBVIOUS
<1>1. CASE \E c \in Containers : \E input \in ListInputs[c], action \in ListActions :
                CreateContainerVersion(c, input, action)
    BY <1>1, NewContainerVersionListInv DEF CreateContainerVersion
<1>2. CASE \E c \in Containers : ChangeContainerMetadata(c)
    BY <1>2, NewContainerVersionListInv DEF ChangeContainerMetadata
<1>3. CASE AbortContainers
    <2>1. /\ versions' = committed.versions /\ committed' = committed
          /\ lists' = [c \in Containers |-> SubSeq(lists[c], 1, Len(committed.versions[c]))]
        BY <1>3 DEF AbortContainers, BulkAbort
    <2> QED
        BY <2>1, InStepAfterRollback DEF ListInv
<1>4. CASE PublishingStep /\ UNCHANGED lists
    <2>1. CASE LeavesVersions
        BY <1>4, <2>1, ListInvAfter DEF LeavesVersions, ListInv
    <2>2. ASSUME NEW e \in Entities \ Containers, CreateVersion(e, {})
          PROVE  ListInv'
        <3>1. /\ versions' = [versions EXCEPT ![e] = Append(@, {})]
              /\ committed'.versions = versions' \/ committed' = committed
            BY <2>2, ChangeDraftsVersions DEF CreateVersion
        <3>2. InStep(lists', versions', committed.versions)
            BY <1>4, <3>1, InStepAfterComponent DEF ListInv
        <3> QED
            BY <3>1, <3>2, ListInvAfter
    <2> QED
        BY <1>4, <2>1, <2>2, PublishingStepVersions
<1>5. CASE UNCHANGED cvars
    BY <1>5 DEF ListInv, cvars, vars
<1> QED
    BY <1>1, <1>2, <1>3, <1>4, <1>5 DEF CNext

-----------------------------------------------------------------------------
(* Theorems.                                                               *)

\* Containers implements Publishing: it changes publishing's tables only the
\* way publishing's operations do, so every theorem about Spec holds of it.
THEOREM ContainersImplementPublishing == CSpec => ImplementsPublishing
<1>1. CInit => Init
    BY DEF CInit
<1>2. [CNext]_cvars => [Next]_vars
    BY StepImplements DEF cvars, vars
<1> QED
    BY <1>1, <1>2, PTL DEF CSpec, ImplementsPublishing, Spec

\* Entity lists and publishing's versions stay in step: each version of a
\* container has one list, its dependencies are the list's unpinned children,
\* and no pin outlives the version it points at.
THEOREM ListsAndVersions == CSpec => []ListsMatchVersions
<1>1. ListInv => ListsMatchVersions
    <2> SUFFICES ASSUME ListInv PROVE ListsMatchVersions
        OBVIOUS
    <2>1. \A c \in Containers : DOMAIN lists[c] = 1..Len(versions[c])
        BY DEF ListInv, InStep, ListsOf, ListsTyped
    <2> QED
        BY <2>1 DEF ListInv, InStep, ListsOf, ListsTyped, PinsWithin, ListsMatchVersions
<1> QED
    BY <1>1, InitListInv, NextListInv, PTL DEF CSpec

-----------------------------------------------------------------------------
(* Containers without unpublished changes read alike on both branches.     *)

\* The children a list yields depend on the versions of its unpinned rows only.
LEMMA EntriesSame ==
    ASSUME NEW list, NEW cur, NEW cur2, \A e \in UnpinnedChildren(list) : cur[e] = cur2[e]
    PROVE  EntriesOf(list, cur) = EntriesOf(list, cur2)
<1> DEFINE Entry(r) == [entity |-> r.entity, pinned |-> r.pin # 0,
                        version |-> IF r.pin # 0 THEN r.pin ELSE cur[r.entity]]
           Entry2(r) == [entity |-> r.entity, pinned |-> r.pin # 0,
                         version |-> IF r.pin # 0 THEN r.pin ELSE cur2[r.entity]]
<1>1. \A i \in DOMAIN list : Entry(list[i]) = Entry2(list[i])
    <2> SUFFICES ASSUME NEW i \in DOMAIN list
                 PROVE  Entry(list[i]) = Entry2(list[i])
        OBVIOUS
    <2>1. list[i].pin = 0 => list[i].entity \in UnpinnedChildren(list)
        BY DEF UnpinnedChildren, RowsOf
    <2> QED
        BY <2>1
<1>2. [i \in DOMAIN list |-> Entry(list[i])] = [i \in DOMAIN list |-> Entry2(list[i])]
    BY <1>1
<1> QED
    BY <1>2, Zenon DEF EntriesOf

\* Below a container that reads alike, every container has the children it has
\* on the other branch.
LEMMA ChildrenReadAlike ==
    ASSUME ListInv, NEW ver, NEW ver2, Layered(versions, ver), Layered(versions, ver2),
           NEW c \in Entities, ReadAlike(versions, ver, ver2, c), ReadAlike(versions, ver2, ver, c),
           NEW x \in Containers, x \in Below(versions, ver, c),
           ver[x] \in 1..Len(versions[x])
    PROVE  \A e \in UnpinnedChildren(lists[x][ver[x]]) : ver[e] = ver2[e]
<1> SUFFICES ASSUME NEW e \in UnpinnedChildren(lists[x][ver[x]])
             PROVE  ver[e] = ver2[e]
    OBVIOUS
<1>1. x \in Entities /\ ver[x] # 0
    BY ContainersAreEntities DEF ListInv, InStep, VersionsTyped
<1>2. e \in DependenciesOf(versions, x, ver[x])
    BY <1>1 DEF DependenciesOf, ListInv, InStep, ListsOf
<1>3. e \in Below(versions, ver, c)
    BY <1>2, BelowClosed
<1>4. e \in Below(versions, ver2, c)
    BY <1>3, AlikeReaches
<1> QED
    BY <1>3, <1>4 DEF ReadAlike

\* Where contexts of one package are not nested and contains_unpublished_changes
\* says no, the draft and the published branch give the same children of the
\* container and of every container below it.
THEOREM UnchangedReadAlike ==
    ASSUME ~ Reentrant
    PROVE  CSpec => []UnchangedContainersReadAlike
<1>1. TypeInv /\ LogInv /\ ReplayInv /\ DigestInv /\ ListInv => UnchangedContainersReadAlike
    <2> SUFFICES ASSUME TypeInv, LogInv, ReplayInv, DigestInv, ListInv, Quiescent,
                        NEW c \in Containers, VersionOf(draft.rows, c) # 0,
                        ~ ContainsUnpublishedChanges(c),
                        NEW x \in Containers \cap ({c} \cup
                            Descendants(CurrentDependencies(versions, draft.rows), {c})),
                        VersionOf(draft.rows, x) # 0
                 PROVE  /\ VersionOf(published.rows, x) = VersionOf(draft.rows, x)
                        /\ EntitiesInContainer(published.rows, x)
                            = EntitiesInContainer(draft.rows, x)
        BY DEF UnchangedContainersReadAlike
    <2> DEFINE ver == VersionsIn(draft)
               ver2 == VersionsIn(published)
               cur == [e \in Entities |-> VersionOf(draft.rows, e)]
               cur2 == [e \in Entities |-> VersionOf(published.rows, e)]
    <2>1. c \in Entities /\ x \in Entities /\ x \in Containers
        BY ContainersAreEntities
    <2>2. DigestTables(draft) /\ DigestTables(published)
        BY DigestInvTables
    <2>3. /\ VersionOf(draft.rows, c) = VersionOf(published.rows, c)
          /\ CurrentRecord(draft, c).digest = CurrentRecord(published, c).digest
        BY DEF ContainsUnpublishedChanges, HasUnpublishedChanges
    <2>4. Tree(draft.rows, c) = Tree(published.rows, c)
        BY <2>1, <2>2, <2>3, DigestsCompare
    <2>5. TreeOf(versions, ver, c) = TreeOf(versions, ver2, c)
        BY <2>1, <2>4, TreeOfBranch
    <2>6. Layered(versions, ver) /\ Layered(versions, ver2)
        BY <2>2, BranchLayered DEF DigestTables
    <2>7. cur = ver /\ cur2 = ver2
        BY DEF VersionsIn
    <2>8. x \in Below(versions, ver, c)
        <3>1. Dependencies(versions, ver) = CurrentDependencies(versions, draft.rows)
            BY DEF Dependencies, CurrentDependencies, VersionsIn
        <3> HIDE DEF ver
        <3> QED
            BY <3>1 DEF Below
    <2>9. ver[x] = VersionOf(draft.rows, x) /\ ver2[x] = VersionOf(published.rows, x)
        BY <2>1 DEF VersionsIn
    <2>10. ver[x] \in 1..Len(versions[x])
        <3>1. ver[x] \in 0..Len(versions[x])
            BY <2>1, <2>2, <2>9, VersionInRange, TypeInvTables DEF DigestTables
        <3> QED
            BY <2>9, <3>1
    <2> HIDE DEF ver, ver2, cur, cur2
    <2>11. ReadAlike(versions, ver, ver2, c) /\ ReadAlike(versions, ver2, ver, c)
        BY <2>1, <2>5, <2>6, TreesAlike
    <2>12. ver2[x] = ver[x]
        BY <2>8, <2>9, <2>11 DEF ReadAlike
    <2>13. \A e \in UnpinnedChildren(lists[x][ver[x]]) : ver[e] = ver2[e]
        BY <2>1, <2>6, <2>8, <2>10, <2>11, ChildrenReadAlike
    <2>14. EntriesOf(lists[x][ver[x]], cur) = EntriesOf(lists[x][ver[x]], cur2)
        BY <2>7, <2>13, EntriesSame
    <2> QED
        BY <2>9, <2>12, <2>14 DEF EntitiesInContainer, ListOf, cur, cur2
<1>2. CSpec => []ListInv
    BY InitListInv, NextListInv, PTL DEF CSpec
<1>3. CSpec => [](TypeInv /\ LogInv /\ ReplayInv /\ DigestInv)
    BY ContainersImplementPublishing, DigestInvariance, PTL DEF ImplementsPublishing
<1> QED
    BY <1>1, <1>2, <1>3, PTL

-----------------------------------------------------------------------------
(* Snapshots of the published branch.                                      *)

\* The publish records of branch b replay, are created with their log, and
\* publish versions there are.
PublishTables(vs, b) ==
    /\ BranchReplays(b)
    /\ \A e \in Entities : \A r \in b.recs[e] : r.pk = r.log /\ r.new <= Len(vs[e])

\* The records of the first n publishes.
UpTo(b, e, n) == {r \in b.recs[e] : r.log <= n}
SameUpTo(b, c, n) == \A e \in Entities : UpTo(b, e, n) = UpTo(c, e, n)

\* The publishes of the open transaction come after the committed ones.
SnapshotInv ==
    /\ PublishTables(versions, published)
    /\ PublishTables(committed.versions, committed.published)
    /\ Len(committed.publishLogs) <= Len(publishLogs)
    /\ SameUpTo(published, committed.published, Len(committed.publishLogs))

\* A step leaves the records of committed publishes as they are.
KeepsPublishes == SameUpTo(published', published, Len(committed.publishLogs))

\* The end of an operation that adds to the publishes.
LEMMA OnCommitSnapshotInv ==
    ASSUME TypeInv', SnapshotInv, PublishTables(versions', published'),
           Len(publishLogs) <= Len(publishLogs'), KeepsPublishes,
           Len(publishLogs) \in Nat, Len(committed.publishLogs) \in Nat,
           NEW new, OnCommit(new)
    PROVE  SnapshotInv'
<1>1. Len(publishLogs') \in Nat
    BY DEF TypeInv, TypeOK, DbOK, Db
<1>2. CASE contexts' = <<>>
    <2>1. committed' = Db'
        BY <1>2 DEF OnCommit
    <2> QED
        BY <1>1, <2>1 DEF SnapshotInv, Db, SameUpTo, UpTo, PublishTables, BranchReplays
<1>3. CASE contexts' # <<>>
    <2>1. committed' = committed
        BY <1>3 DEF OnCommit
    <2>2. SameUpTo(published', committed.published, Len(committed.publishLogs))
        BY DEF SnapshotInv, KeepsPublishes, SameUpTo
    <2>3. Len(committed.publishLogs) <= Len(publishLogs')
        BY <1>1 DEF SnapshotInv
    <2> QED
        BY <2>1, <2>2, <2>3 DEF SnapshotInv, SameUpTo, UpTo, PublishTables, BranchReplays
<1> QED
    BY <1>2, <1>3

\* The tables a publish adds records to.
LEMMA PublishFromDraftsTables ==
    ASSUME TypeInv, LogInv, SnapshotInv,
           NEW p \in Packages, NEW S \in SUBSET Entities, NEW kind, NEW dependencies \in BOOLEAN,
           PublishFromDrafts(p, S, kind, dependencies)
    PROVE  PublishTables(versions', published') /\ KeepsPublishes
<1> DEFINE log == Len(publishLogs) + 1
           all == S \cup IF dependencies THEN DependenciesToPublish(S, kind) ELSE {}
           b == PublishedAfter(S, all, log)
           a == CreateSideEffects(versions, b, log, log)
<1>0. /\ Len(publishLogs) \in Nat /\ Len(committed.publishLogs) \in Nat
      /\ log \in Nat /\ log > Len(committed.publishLogs)
    <2>1. Len(publishLogs) \in Nat
        BY TypeInvTables
    <2>2. Len(committed.publishLogs) \in Nat
        BY DEF TypeInv, TypeOK, DbOK
    <2> QED
        BY <2>1, <2>2 DEF SnapshotInv
<1>1. published' = a /\ versions' = versions
    BY DEF PublishFromDrafts
<1>2. BranchReplays(published) /\ PkBound(published, Len(publishLogs))
    BY LogInvTables DEF SnapshotInv, PublishTables, PkBound, PublishRecordsLogged
<1>3. BranchReplays(published')
    BY <1>2, PublishFromDraftsReplays
<1> HIDE DEF all
<1>4. BranchOK(b) /\ RowsHaveVersions(versions, b)
    BY <1>2, PublishedAfterStep
<1>5. \A e \in Entities : \A x \in b.recs[e] :
        \/ x \in published.recs[e]
        \/ x.pk = log /\ x.log = log /\ x.new = VersionOf(draft.rows, e)
    BY DEF PublishedAfter, Record
<1>6. \A e \in Entities : published.recs[e] \subseteq b.recs[e]
    BY DEF PublishedAfter
<1> HIDE DEF b, log
<1>7. \A e \in Entities : \A x \in b.recs[e] : x.pk = x.log /\ x.new <= Len(versions[e])
    BY <1>5, LogInvTables DEF SnapshotInv, PublishTables, RowsHaveVersions
<1>8. PICK affected : WithSideEffects(a, b, log, log, affected)
    BY SideEffectsMembers
<1> HIDE DEF a
<1>9. ASSUME NEW e \in Entities
      PROVE  \A x \in a.recs[e] : x.pk = x.log /\ x.new <= Len(versions[e])
    BY <1>4, <1>7, <1>8 DEF WithSideEffects, SameRecord, RowsHaveVersions
<1>10. ASSUME NEW e \in Entities
       PROVE  UpTo(a, e, Len(committed.publishLogs))
                = UpTo(published, e, Len(committed.publishLogs))
    <2>1. \A x : x.log # log => (x \in a.recs[e] <=> x \in published.recs[e])
        BY <1>5, <1>6, <1>8 DEF WithSideEffects
    <2>2. \A x : x.log <= Len(committed.publishLogs) => x.log # log
        BY <1>0
    <2> QED
        BY <2>1, <2>2 DEF UpTo
<1> QED
    BY <1>1, <1>3, <1>9, <1>10 DEF PublishTables, KeepsPublishes, SameUpTo

LEMMA InitSnapshotInv == Init => SnapshotInv
<1> SUFFICES ASSUME Init PROVE SnapshotInv
    OBVIOUS
<1>1. /\ committed = Db /\ publishLogs = <<>>
      /\ \A e \in Entities : published.recs[e] = {} /\ VersionOf(published.rows, e) = 0
    BY DEF Init, VersionOf
<1> QED
    BY <1>1 DEF SnapshotInv, Db, SameUpTo, PublishTables, BranchReplays, Replays

LEMMA NextSnapshotInv ==
    TypeInv /\ TypeInv' /\ LogInv /\ SnapshotInv /\ [Next]_vars => SnapshotInv' /\ KeepsPublishes
<1> SUFFICES ASSUME TypeInv, TypeInv', LogInv, SnapshotInv, [Next]_vars
             PROVE  SnapshotInv' /\ KeepsPublishes
    OBVIOUS
<1>0. Len(publishLogs) \in Nat /\ Len(committed.publishLogs) \in Nat
    BY DEF TypeInv, TypeOK, DbOK, Db
<1>1. ASSUME published' = published
      PROVE  KeepsPublishes
    BY <1>1 DEF KeepsPublishes, SameUpTo
<1>2. ASSUME NEW p \in Packages, NEW target, DraftsChange(p, target)
      PROVE  SnapshotInv' /\ KeepsPublishes
    <2>1. /\ published' = published /\ publishLogs' = publishLogs
          /\ \E new : OnCommit(new)
        BY <1>2 DEF DraftsChange, ChangeDrafts, ChangeInContext, ChangeInOwnLog
    <2>2. PublishTables(versions', published')
        <3>1. ASSUME NEW e \in Entities, NEW r \in published.recs[e]
              PROVE  r.new <= Len(versions'[e])
            <4>1. r.new \in Nat /\ Len(versions[e]) \in Nat
                BY TypeInvTables DEF BranchOK, RecordOK
            <4>2. Len(versions'[e]) \in Nat /\ Len(versions[e]) <= Len(versions'[e])
                BY <1>2 DEF DraftsChange, MoreVersions
            <4> QED
                BY <4>1, <4>2 DEF SnapshotInv, PublishTables
        <3> QED
            BY <2>1, <3>1 DEF SnapshotInv, PublishTables
    <2> QED
        BY <1>0, <1>1, <2>1, <2>2, OnCommitSnapshotInv
<1>3. ASSUME NEW p \in Packages, BulkEnter(p)
      PROVE  SnapshotInv' /\ KeepsPublishes
    <2>1. UNCHANGED <<versions, published, publishLogs, committed>>
        BY <1>3 DEF BulkEnter
    <2> QED
        BY <1>1, <2>1 DEF SnapshotInv
<1>4. CASE BulkExit
    <2>1. /\ UNCHANGED <<versions, published, publishLogs>>
          /\ \E new : OnCommit(new)
        BY <1>4 DEF BulkExit
    <2>2. PublishTables(versions', published')
        BY <2>1 DEF SnapshotInv
    <2> QED
        BY <1>0, <1>1, <2>1, <2>2, OnCommitSnapshotInv
<1>5. CASE BulkAbort
    <2>1. /\ versions' = committed.versions /\ published' = committed.published
          /\ publishLogs' = committed.publishLogs /\ committed' = committed
        BY <1>5 DEF BulkAbort
    <2> QED
        BY <1>0, <2>1 DEF SnapshotInv, KeepsPublishes, SameUpTo
<1>6. ASSUME NEW p \in Packages, NEW S \in SUBSET Entities, NEW kind,
             NEW dependencies \in BOOLEAN, PublishFromDrafts(p, S, kind, dependencies)
      PROVE  SnapshotInv' /\ KeepsPublishes
    <2>1. PublishTables(versions', published') /\ KeepsPublishes
        BY <1>6, PublishFromDraftsTables
    <2>2. publishLogs' = Append(publishLogs, p) /\ \E new : OnCommit(new)
        BY <1>6 DEF PublishFromDrafts
    <2>3. Len(publishLogs) <= Len(publishLogs')
        BY <1>0, <2>2, TypeInvTables
    <2> QED
        BY <1>0, <2>1, <2>2, <2>3, OnCommitSnapshotInv
<1>7. CASE UNCHANGED vars
    <2>1. UNCHANGED <<versions, published, publishLogs, committed>>
        BY <1>7 DEF vars
    <2> QED
        BY <1>1, <2>1 DEF SnapshotInv
<1> QED
    BY <1>2, <1>3, <1>4, <1>5, <1>6, <1>7, StepsAre

\* The record that get_published_version_as_of finds.
LEMMA PublishedAsOfRecord ==
    ASSUME TypeInv, NEW e \in Entities, NEW log \in Nat, UpTo(published, e, log) # {}
    PROVE  \E r \in UpTo(published, e, log) :
                /\ \A q \in UpTo(published, e, log) : q.log <= r.log
                /\ PublishedAsOf(e, log) = r.new
<1> DEFINE recs == UpTo(published, e, log)
           ids == {r.log : r \in recs}
           last == CHOOSE r \in recs : \A q \in recs : q.log <= r.log
<1>1. \A r \in recs : r.log \in Nat /\ r.log <= log
    BY TypeInvTables DEF UpTo, BranchOK, RecordOK
<1>2. PublishedAsOf(e, log) = last.new
    BY DEF PublishedAsOf, UpTo
<1> HIDE DEF recs
<1>3. ids \subseteq Nat /\ ids # {} /\ \A n \in ids : n <= log
    BY <1>1 DEF recs
<1>4. PICK n \in ids : \A m \in ids : m <= n
    BY <1>3, MaxExists
<1>5. \E r \in recs : \A q \in recs : q.log <= r.log
    BY <1>4
<1>6. last \in recs /\ \A q \in recs : q.log <= last.log
    BY <1>5
<1> HIDE DEF last
<1> QED
    BY <1>2, <1>6 DEF recs

\* As of the latest publish, it finds what is published.
LEMMA LatestPublish ==
    ASSUME TypeInv, LogInv, SnapshotInv, NEW e \in Entities
    PROVE  PublishedAsOf(e, Len(publishLogs)) = VersionOf(published.rows, e)
<1> DEFINE log == Len(publishLogs)
           recs == published.recs[e]
<1>1. log \in Nat
    BY TypeInvTables
<1>2. \A r \in recs : r.pk = r.log /\ r.log <= log
    BY LogInvTables DEF PublishRecordsLogged, SnapshotInv, PublishTables
<1>3. UpTo(published, e, log) = recs
    BY <1>2 DEF UpTo
<1>4. Replays(recs, VersionOf(published.rows, e), LogRecordOf(published.rows, e))
    BY DEF SnapshotInv, PublishTables, BranchReplays
<1> HIDE DEF log
<1>5. CASE recs = {}
    BY <1>3, <1>4, <1>5 DEF Replays, PublishedAsOf, UpTo, log
<1>6. CASE recs # {}
    <2>1. PICK r \in recs : /\ \A q \in recs : q.log <= r.log
                            /\ PublishedAsOf(e, log) = r.new
        BY <1>1, <1>3, <1>6, PublishedAsOfRecord
    <2>2. \A q \in recs : q.pk <= r.pk
        BY <1>2, <2>1
    <2> QED
        BY <1>4, <2>1, <2>2 DEF Replays, log
<1> QED
    BY <1>5, <1>6 DEF log

\* As of a committed publish, it finds the same before and after a step, and a
\* version that a rollback keeps.
LEMMA SnapshotVersionStays ==
    ASSUME TypeInv, TypeInv', LogInv, SnapshotInv, KeepsPublishes,
           NEW e \in Entities, NEW log \in 1..Len(committed.publishLogs)
    PROVE  /\ PublishedAsOf(e, log)' = PublishedAsOf(e, log)
           /\ PublishedAsOf(e, log) # 0 =>
                PublishedAsOf(e, log) \in 1..Len(committed.versions[e])
<1>1. /\ Len(committed.publishLogs) \in Nat /\ log \in Nat /\ log <= Len(committed.publishLogs)
      /\ BranchOK(published') /\ BranchOK(published) /\ BranchOK(committed.published)
      /\ Len(committed.versions[e]) \in Nat
    <2>1. DbOK(committed) /\ DbOK(Db)'
        BY DEF TypeInv, TypeOK
    <2>2. BranchOK(published') /\ BranchOK(published)
        BY <2>1, TypeInvTables DEF DbOK, Db
    <2>3. /\ Len(committed.publishLogs) \in Nat /\ BranchOK(committed.published)
          /\ Len(committed.versions[e]) \in Nat
        BY <2>1 DEF DbOK
    <2> QED
        BY <2>2, <2>3
<1>2. ASSUME NEW b, NEW c, BranchOK(b), BranchOK(c),
             SameUpTo(b, c, Len(committed.publishLogs))
      PROVE  UpTo(b, e, log) = UpTo(c, e, log)
    <2>1. UpTo(b, e, Len(committed.publishLogs)) = UpTo(c, e, Len(committed.publishLogs))
        BY <1>2 DEF SameUpTo
    <2>2. \A r : r \in b.recs[e] \/ r \in c.recs[e] => r.log \in Nat
        BY <1>2 DEF BranchOK, RecordOK
    <2>3. \A r : r.log \in Nat /\ r.log <= log => r.log <= Len(committed.publishLogs)
        BY <1>1
    <2> QED
        BY <2>1, <2>2, <2>3 DEF UpTo
<1>3. UpTo(published', e, log) = UpTo(published, e, log)
    BY <1>1, <1>2 DEF KeepsPublishes
<1>4. UpTo(published, e, log) = UpTo(committed.published, e, log)
    BY <1>1, <1>2 DEF SnapshotInv
<1>5. PublishedAsOf(e, log)' = PublishedAsOf(e, log)
    <2>1. PublishedAsOf(e, log) =
            IF UpTo(published, e, log) = {} THEN 0
            ELSE (CHOOSE r \in UpTo(published, e, log) :
                    \A q \in UpTo(published, e, log) : q.log <= r.log).new
        BY DEF PublishedAsOf, UpTo
    <2>2. PublishedAsOf(e, log)' =
            IF UpTo(published', e, log) = {} THEN 0
            ELSE (CHOOSE r \in UpTo(published', e, log) :
                    \A q \in UpTo(published', e, log) : q.log <= r.log).new
        BY DEF PublishedAsOf, UpTo
    <2> QED
        BY <1>3, <2>1, <2>2
<1>6. ASSUME PublishedAsOf(e, log) # 0
      PROVE  PublishedAsOf(e, log) \in 1..Len(committed.versions[e])
    <2>1. UpTo(published, e, log) # {}
        BY <1>6 DEF PublishedAsOf, UpTo
    <2>2. PICK r \in UpTo(published, e, log) : PublishedAsOf(e, log) = r.new
        BY <1>1, <2>1, PublishedAsOfRecord
    <2>3. r \in committed.published.recs[e]
        BY <1>4, <2>2 DEF UpTo
    <2>4. r.new \in Nat /\ r.new <= Len(committed.versions[e])
        BY <1>1, <2>3 DEF SnapshotInv, PublishTables, BranchOK, RecordOK
    <2> QED
        BY <1>1, <1>6, <2>2, <2>4
<1> QED
    BY <1>5, <1>6

\* The lists of committed versions stay.
LEMMA CommittedListsStay ==
    ASSUME ListInv, [CNext]_cvars, NEW c \in Containers, NEW k \in 1..Len(committed.versions[c])
    PROVE  lists'[c][k] = lists[c][k]
<1>1. /\ lists \in [Containers -> Seq(Seq(EntityListRow))]
      /\ Len(committed.versions[c]) \in Nat
      /\ Len(committed.versions[c]) <= Len(lists[c]) /\ k \in 1..Len(lists[c])
    BY ContainersAreEntities
    DEF ListInv, InStep, ListsTyped, VersionsTyped, ListsOf, IsPrefixOf
<1>2. ASSUME NEW d \in Containers, NEW list, NewContainerVersion(d, list)
      PROVE  lists'[c][k] = lists[c][k]
    <2>1. lists' = [lists EXCEPT ![d] = Append(@, list)] /\ list \in Seq(EntityListRow)
        BY <1>2 DEF NewContainerVersion
    <2> QED
        BY <1>1, <2>1
<1>3. CASE \E d \in Containers : \E input \in ListInputs[d], action \in ListActions :
                CreateContainerVersion(d, input, action)
    BY <1>2, <1>3 DEF CreateContainerVersion
<1>4. CASE \E d \in Containers : ChangeContainerMetadata(d)
    BY <1>2, <1>4 DEF ChangeContainerMetadata
<1>5. CASE AbortContainers
    <2>1. lists' = [d \in Containers |-> SubSeq(lists[d], 1, Len(committed.versions[d]))]
        BY <1>5 DEF AbortContainers, BulkAbort
    <2> QED
        BY <1>1, <2>1
<1>6. CASE UNCHANGED lists
    BY <1>6
<1> QED
    BY <1>3, <1>4, <1>5, <1>6 DEF CNext, cvars

\* However contexts are nested, the snapshot as of the latest publish is what
\* is published, and the snapshot as of a committed publish never changes.
THEOREM SnapshotsNeverChange == CSpec => SnapshotsStayTrue
<1>1. TypeInv /\ LogInv /\ SnapshotInv => SnapshotIsPublished
    <2> SUFFICES ASSUME TypeInv, LogInv, SnapshotInv, NEW c \in Containers
                 PROVE  LET snapshot == EntitiesInContainerAsOf(c, Len(publishLogs)) IN
                        /\ snapshot[1] = VersionOf(published.rows, c)
                        /\ Readable(published.rows, c) =>
                            snapshot[2] = EntitiesInContainer(published.rows, c)
        BY DEF SnapshotIsPublished
    <2> DEFINE log == Len(publishLogs)
               cur == [e \in Entities |-> PublishedAsOf(e, log)]
               cur2 == [e \in Entities |-> VersionOf(published.rows, e)]
               version == PublishedAsOf(c, log)
               entries == IF version = 0 THEN <<>> ELSE EntriesOf(lists[c][version], cur)
    <2>1. EntitiesInContainerAsOf(c, log) = <<version, entries>>
        BY DEF EntitiesInContainerAsOf
    <2>2. cur = cur2 /\ version = VersionOf(published.rows, c)
        BY LatestPublish, ContainersAreEntities
    <2> HIDE DEF log, cur, version
    <2>3. ASSUME Readable(published.rows, c)
          PROVE  entries = EntitiesInContainer(published.rows, c)
        BY <2>2, <2>3 DEF Readable, EntitiesInContainer, ListOf
    <2> HIDE DEF entries
    <2> QED
        BY <2>1, <2>2, <2>3 DEF log
<1>2. TypeInv /\ TypeInv' /\ LogInv /\ ListInv /\ SnapshotInv /\ [CNext]_cvars
        => [\A c \in Containers : \A log \in 1..Len(committed.publishLogs) :
                EntitiesInContainerAsOf(c, log)' = EntitiesInContainerAsOf(c, log)]_cvars
    <2> SUFFICES ASSUME TypeInv, TypeInv', LogInv, ListInv, SnapshotInv, [CNext]_cvars,
                        NEW c \in Containers, NEW log \in 1..Len(committed.publishLogs)
                 PROVE  EntitiesInContainerAsOf(c, log)' = EntitiesInContainerAsOf(c, log)
        OBVIOUS
    <2> DEFINE cur == [e \in Entities |-> PublishedAsOf(e, log)]
               version == PublishedAsOf(c, log)
    <2>1. [Next]_vars
        BY StepImplements DEF cvars, vars
    <2>2. KeepsPublishes
        BY <2>1, NextSnapshotInv
    <2>3. \A e \in Entities : PublishedAsOf(e, log)' = PublishedAsOf(e, log)
        BY <2>2, SnapshotVersionStays
    <2>4. cur' = cur /\ version' = version
        BY <2>3, ContainersAreEntities
    <2>5. version # 0 => version \in 1..Len(committed.versions[c])
        BY <2>2, SnapshotVersionStays, ContainersAreEntities
    <2>6. version # 0 => lists'[c][version] = lists[c][version]
        BY <2>5, CommittedListsStay
    <2>7. EntitiesInContainerAsOf(c, log) =
            <<version, IF version = 0 THEN <<>> ELSE EntriesOf(lists[c][version], cur)>>
        BY DEF EntitiesInContainerAsOf
    <2>8. EntitiesInContainerAsOf(c, log)' =
            <<version', IF version' = 0 THEN <<>> ELSE EntriesOf(lists'[c][version'], cur')>>
        BY DEF EntitiesInContainerAsOf
    <2> HIDE DEF cur, version
    <2> QED
        BY <2>4, <2>6, <2>7, <2>8
<1>3. CSpec => [](TypeInv /\ LogInv /\ SnapshotInv)
    <2>1. Spec => [](TypeInv /\ LogInv /\ SnapshotInv)
        BY LogInvariance, InitSnapshotInv, NextSnapshotInv, PTL DEF Spec
    <2> QED
        BY <2>1, ContainersImplementPublishing, PTL DEF ImplementsPublishing
<1>4. CSpec => []ListInv
    BY InitListInv, NextListInv, PTL DEF CSpec
<1>5. CSpec => []SnapshotIsPublished
    BY <1>1, <1>3, PTL
<1>6. CSpec => [][\A c \in Containers : \A log \in 1..Len(committed.publishLogs) :
                    EntitiesInContainerAsOf(c, log)' = EntitiesInContainerAsOf(c, log)]_cvars
    BY <1>2, <1>3, <1>4, PTL DEF CSpec
<1> QED
    BY <1>5, <1>6 DEF SnapshotsStayTrue

-----------------------------------------------------------------------------
(* When logs were closed.                                                  *)

\* Event i of a sequence is that of a log.
EventAt(s, i, branch, log) == i \in 1..Len(s) /\ s[i].branch = branch /\ s[i].log = log

\* Every record of an entity is in a log with an event, in the order of their keys.
InTime(s, branch, recs) ==
    /\ \A r \in recs : \E i : EventAt(s, i, branch, r.log)
    /\ \A r, q \in recs : \A i, j :
        EventAt(s, i, branch, r.log) /\ EventAt(s, j, branch, q.log) /\ r.pk < q.pk => i < j

\* The last of the records ends at a version.
EndAt(recs, version) ==
    /\ recs = {} => version = 0
    /\ \A q \in recs : (\A x \in recs : x.pk <= q.pk) => version = q.new

\* The records of drafts in logs closed before event i.
RecordsUntil(s, recs, i) == {q \in recs : \E j : j < i /\ EventAt(s, j, "draft", q.log)}

\* A publish of an entity published what its drafts had come to.
TookTheDraft(s, recs, r) ==
    Own(r) => \A i : EventAt(s, i, "published", r.log) => EndAt(RecordsUntil(s, recs, i), r.new)

\* The events say when the logs of drafts ds and publishes ps were closed.
Chronicle(s, ds, ps) ==
    /\ \A i, j \in 1..Len(s) : s[i].branch = s[j].branch /\ s[i].log = s[j].log => i = j
    /\ \A e \in Entities :
        /\ InTime(s, "draft", ds[e]) /\ InTime(s, "published", ps[e])
        /\ \A r \in ps[e] : TookTheDraft(s, ds[e], r)

\* Events of logs that were opened and are closed.
EventsOf(s, open, last, publishes) ==
    \A i \in 1..Len(s) :
        IF s[i].branch = "draft"
        THEN s[i].log <= last /\ \A k \in 1..Len(open) : open[k].id # s[i].log
        ELSE s[i].log <= publishes

ClosedDrafts(b, open) == [e \in Entities |-> ClosedRecords(b.recs[e], open)]

ChronicleInv ==
    /\ Chronicle(events, ClosedDrafts(committed.draft, <<>>), committed.published.recs)
    /\ EventsOf(events, <<>>, serial, Len(committed.publishLogs))
    /\ Chronicle(events \o outbox, ClosedDrafts(draft, contexts), published.recs)
    /\ EventsOf(events \o outbox, contexts, serial, Len(publishLogs))

\* A log joins the records of an entity as the last, if at all.
Joins(recs, more, log) ==
    /\ \A r : r.log # log => (r \in more <=> r \in recs)
    /\ \A r \in recs : r.log # log
    /\ \A r, q \in more : r.log = q.log => r = q
    /\ InLog(more, log) => LogLast(more, log)

LEMMA EventAtMore ==
    ASSUME NEW s \in Seq(Event), NEW x \in Event
    PROVE  /\ Len(Append(s, x)) = Len(s) + 1 /\ Len(s) \in Nat
           /\ \A i \in 1..Len(s) : Append(s, x)[i] = s[i]
           /\ Append(s, x)[Len(s) + 1] = x
           /\ \A i, branch, log : EventAt(Append(s, x), i, branch, log) <=>
                    \/ EventAt(s, i, branch, log)
                    \/ i = Len(s) + 1 /\ x.branch = branch /\ x.log = log
<1> DEFINE more == Append(s, x)
<1>1. /\ Len(more) = Len(s) + 1 /\ Len(s) \in Nat
      /\ \A i \in 1..Len(s) : more[i] = s[i]
      /\ more[Len(s) + 1] = x
    BY AppendProperties, LenProperties
<1> HIDE DEF more
<1>2. \A i, branch, log : EventAt(more, i, branch, log) <=>
            \/ EventAt(s, i, branch, log)
            \/ i = Len(s) + 1 /\ x.branch = branch /\ x.log = log
    BY <1>1 DEF EventAt
<1> QED
    BY <1>1, <1>2 DEF more

LEMMA InTimeSame ==
    ASSUME NEW s \in Seq(Event), NEW x \in Event, NEW branch, NEW recs,
           x.branch # branch \/ (\A r \in recs : r.log # x.log), InTime(s, branch, recs)
    PROVE  InTime(Append(s, x), branch, recs)
<1>1. \A i : \A r \in recs :
            EventAt(Append(s, x), i, branch, r.log) <=> EventAt(s, i, branch, r.log)
    BY EventAtMore
<1> QED
    BY <1>1 DEF InTime

LEMMA InTimeMore ==
    ASSUME NEW s \in Seq(Event), NEW x \in Event, NEW recs, NEW more,
           InTime(s, x.branch, recs), Joins(recs, more, x.log), \A r \in more : r.pk \in Nat,
           \A i : ~ EventAt(s, i, x.branch, x.log)
    PROVE  InTime(Append(s, x), x.branch, more)
<1> DEFINE t == Append(s, x)
<1>1. /\ Len(s) \in Nat
      /\ \A i, branch, log : EventAt(t, i, branch, log) <=>
                    \/ EventAt(s, i, branch, log)
                    \/ i = Len(s) + 1 /\ x.branch = branch /\ x.log = log
    BY EventAtMore
<1> HIDE DEF t
<1>2. ASSUME NEW r \in more PROVE \E i : EventAt(t, i, x.branch, r.log)
    <2>1. CASE r.log = x.log
        BY <1>1, <2>1
    <2>2. CASE r.log # x.log
        <3>1. r \in recs
            BY <2>2 DEF Joins
        <3> QED
            BY <1>1, <3>1 DEF InTime
    <2> QED
        BY <2>1, <2>2
<1>3. ASSUME NEW r \in more, NEW q \in more, NEW i, NEW j, EventAt(t, i, x.branch, r.log),
             EventAt(t, j, x.branch, q.log), r.pk < q.pk
      PROVE  i < j
    <2>1. r.log # x.log
        <3> SUFFICES ASSUME r.log = x.log PROVE FALSE
            OBVIOUS
        <3>1. q.log = x.log
            BY <1>3 DEF Joins, InLog, LogLast, Event
        <3>2. q = r
            BY <3>1 DEF Joins
        <3> QED
            BY <1>3, <3>2
    <2>2. r \in recs /\ EventAt(s, i, x.branch, r.log)
        BY <1>1, <1>3, <2>1 DEF Joins
    <2>3. CASE q.log = x.log
        <3>1. j = Len(s) + 1
            BY <1>1, <1>3, <2>3
        <3> QED
            BY <1>1, <2>2, <3>1 DEF EventAt
    <2>4. CASE q.log # x.log
        <3>1. q \in recs /\ EventAt(s, j, x.branch, q.log)
            BY <1>1, <1>3, <2>4 DEF Joins
        <3> QED
            BY <1>3, <2>2, <3>1 DEF InTime
    <2> QED
        BY <2>3, <2>4
<1>4. InTime(t, x.branch, more)
    BY <1>2, <1>3 DEF InTime
<1> QED
    BY <1>4 DEF t

\* A later log changes nothing about what was published.
LEMMA TookTheDraftStill ==
    ASSUME NEW s \in Seq(Event), NEW x \in Event, NEW recs, NEW more, NEW r,
           TookTheDraft(s, recs, r), x.branch # "published" \/ r.log # x.log,
           \A i : ~ EventAt(s, i, x.branch, x.log),
           more = recs \/ (x.branch = "draft" /\ Joins(recs, more, x.log))
    PROVE  TookTheDraft(Append(s, x), more, r)
<1> DEFINE t == Append(s, x)
<1>1. /\ Len(s) \in Nat
      /\ \A i, branch, log : EventAt(t, i, branch, log) <=>
                    \/ EventAt(s, i, branch, log)
                    \/ i = Len(s) + 1 /\ x.branch = branch /\ x.log = log
    BY EventAtMore
<1> HIDE DEF t
<1>2. ASSUME Own(r), NEW i, EventAt(t, i, "published", r.log)
      PROVE  EndAt(RecordsUntil(t, more, i), r.new)
    <2>1. EventAt(s, i, "published", r.log)
        BY <1>1, <1>2
    <2>2. i \in 1..Len(s)
        BY <2>1 DEF EventAt
    <2>3. ASSUME NEW q, NEW j, j < i, EventAt(t, j, "draft", q.log)
          PROVE  EventAt(s, j, "draft", q.log)
        BY <1>1, <2>2, <2>3
    <2>4. ASSUME NEW q, q \in RecordsUntil(t, more, i)
          PROVE  q \in RecordsUntil(s, recs, i)
        <3>1. PICK j : j < i /\ EventAt(t, j, "draft", q.log)
            BY <2>4 DEF RecordsUntil
        <3>2. EventAt(s, j, "draft", q.log) /\ q \in more
            BY <2>3, <2>4, <3>1 DEF RecordsUntil
        <3>3. x.branch = "draft" => q.log # x.log
            BY <3>2
        <3>4. q \in recs
            BY <3>2, <3>3 DEF Joins
        <3> QED
            BY <3>1, <3>2, <3>4 DEF RecordsUntil
    <2>5. ASSUME NEW q, q \in RecordsUntil(s, recs, i)
          PROVE  q \in RecordsUntil(t, more, i)
        BY <1>1, <2>5 DEF RecordsUntil, Joins
    <2>6. RecordsUntil(t, more, i) = RecordsUntil(s, recs, i)
        BY <2>4, <2>5
    <2> QED
        BY <1>2, <2>1, <2>6 DEF TookTheDraft
<1>3. TookTheDraft(t, more, r)
    BY <1>2 DEF TookTheDraft
<1> QED
    BY <1>3 DEF t

\* A publish takes all that is closed.
LEMMA TakesTheDraft ==
    ASSUME NEW s \in Seq(Event), NEW x \in Event, NEW recs, NEW r, x.branch = "published",
           r.log = x.log, Own(r) => EndAt(recs, r.new), InTime(s, "draft", recs),
           \A i : ~ EventAt(s, i, x.branch, x.log)
    PROVE  TookTheDraft(Append(s, x), recs, r)
<1> DEFINE t == Append(s, x)
<1>1. /\ Len(s) \in Nat
      /\ \A i, branch, log : EventAt(t, i, branch, log) <=>
                    \/ EventAt(s, i, branch, log)
                    \/ i = Len(s) + 1 /\ x.branch = branch /\ x.log = log
    BY EventAtMore
<1> HIDE DEF t
<1>2. ASSUME NEW i, EventAt(t, i, "published", r.log)
      PROVE  RecordsUntil(t, recs, i) = recs
    <2>1. i = Len(s) + 1
        BY <1>1, <1>2
    <2>2. ASSUME NEW q \in recs PROVE \E j : j < i /\ EventAt(t, j, "draft", q.log)
        <3>1. PICK j : EventAt(s, j, "draft", q.log)
            BY DEF InTime
        <3>2. j < i
            BY <1>1, <2>1, <3>1 DEF EventAt
        <3>3. EventAt(t, j, "draft", q.log)
            BY <1>1, <3>1
        <3> QED
            BY <3>2, <3>3
    <2> QED
        BY <2>2 DEF RecordsUntil
<1>3. TookTheDraft(t, recs, r)
    BY <1>2 DEF TookTheDraft
<1> QED
    BY <1>3 DEF t

LEMMA ChronicleSame ==
    ASSUME NEW s, NEW ds, NEW ps, Chronicle(s, ds, ps), NEW ds2, NEW ps2,
           \A e \in Entities : ds2[e] = ds[e] /\ ps2[e] = ps[e]
    PROVE  Chronicle(s, ds2, ps2)
    BY DEF Chronicle

\* The next event is that of a log that joins a branch.
LEMMA ChronicleMore ==
    ASSUME NEW s \in Seq(Event), NEW x \in Event, NEW ds, NEW ps, Chronicle(s, ds, ps),
           \A i : ~ EventAt(s, i, x.branch, x.log), NEW ds2, NEW ps2,
           \A e \in Entities :
              /\ \A r \in ds2[e] : r.pk \in Nat
              /\ \A r \in ps2[e] : r.pk \in Nat
              /\ \/ x.branch = "draft" /\ ps2[e] = ps[e] /\ Joins(ds[e], ds2[e], x.log)
                 \/ /\ x.branch = "published" /\ ds2[e] = ds[e] /\ Joins(ps[e], ps2[e], x.log)
                    /\ \A r \in ps2[e] : r.log = x.log /\ Own(r) => EndAt(ds[e], r.new)
    PROVE  Chronicle(Append(s, x), ds2, ps2)
<1> DEFINE t == Append(s, x)
<1>1. /\ Len(t) = Len(s) + 1 /\ Len(s) \in Nat
      /\ \A i \in 1..Len(s) : t[i] = s[i]
      /\ t[Len(s) + 1] = x
    BY EventAtMore
<1>2. ASSUME NEW i \in 1..Len(t), NEW j \in 1..Len(t),
             t[i].branch = t[j].branch, t[i].log = t[j].log
      PROVE  i = j
    <2> HIDE DEF t
    <2>1. (i \in 1..Len(s) \/ i = Len(s) + 1) /\ (j \in 1..Len(s) \/ j = Len(s) + 1)
        BY <1>1
    <2>2. CASE i \in 1..Len(s) /\ j \in 1..Len(s)
        BY <1>1, <1>2, <2>2 DEF Chronicle
    <2>3. CASE i = Len(s) + 1 /\ j \in 1..Len(s)
        <3>1. EventAt(s, j, x.branch, x.log)
            BY <1>1, <1>2, <2>3 DEF EventAt
        <3> QED
            BY <3>1
    <2>4. CASE j = Len(s) + 1 /\ i \in 1..Len(s)
        <3>1. EventAt(s, i, x.branch, x.log)
            BY <1>1, <1>2, <2>4 DEF EventAt
        <3> QED
            BY <3>1
    <2> QED
        BY <2>1, <2>2, <2>3, <2>4
<1>3. ASSUME NEW e \in Entities
      PROVE  /\ InTime(t, "draft", ds2[e]) /\ InTime(t, "published", ps2[e])
             /\ \A r \in ps2[e] : TookTheDraft(t, ds2[e], r)
    <2> DEFINE d == ds[e]
               d2 == ds2[e]
               p == ps[e]
               p2 == ps2[e]
    <2>1. /\ InTime(s, "draft", d) /\ InTime(s, "published", p)
          /\ \A r \in p : TookTheDraft(s, d, r)
          /\ \A r \in d2 : r.pk \in Nat
          /\ \A r \in p2 : r.pk \in Nat
        BY DEF Chronicle
    <2>2. \/ x.branch = "draft" /\ p2 = p /\ Joins(d, d2, x.log)
          \/ /\ x.branch = "published" /\ d2 = d /\ Joins(p, p2, x.log)
             /\ \A r \in p2 : r.log = x.log /\ Own(r) => EndAt(d, r.new)
        OBVIOUS
    <2> HIDE DEF d, d2, p, p2, t
    <2>3. CASE x.branch = "draft" /\ p2 = p /\ Joins(d, d2, x.log)
        <3>1. InTime(t, "draft", d2)
            BY <2>1, <2>3, InTimeMore DEF t
        <3>2. InTime(t, "published", p2)
            BY <2>1, <2>3, InTimeSame DEF t
        <3>3. ASSUME NEW r \in p2 PROVE TookTheDraft(t, d2, r)
            BY <2>1, <2>3, TookTheDraftStill DEF t
        <3> QED
            BY <3>1, <3>2, <3>3 DEF d2, p2
    <2>4. CASE /\ x.branch = "published" /\ d2 = d /\ Joins(p, p2, x.log)
               /\ \A r \in p2 : r.log = x.log /\ Own(r) => EndAt(d, r.new)
        <3>1. InTime(t, "published", p2)
            BY <2>1, <2>4, InTimeMore DEF t
        <3>2. InTime(t, "draft", d2)
            BY <2>1, <2>4, InTimeSame DEF t
        <3>3. ASSUME NEW r \in p2 PROVE TookTheDraft(t, d2, r)
            <4>1. CASE r.log = x.log
                BY <2>1, <2>4, <4>1, TakesTheDraft DEF t
            <4>2. CASE r.log # x.log
                <5>1. r \in p
                    BY <2>4, <4>2 DEF Joins
                <5> QED
                    BY <2>1, <2>4, <4>2, <5>1, TookTheDraftStill DEF t
            <4> QED
                BY <4>1, <4>2
        <3> QED
            BY <3>1, <3>2, <3>3 DEF d2, p2
    <2> QED
        BY <2>2, <2>3, <2>4
<1> QED
    BY <1>2, <1>3 DEF Chronicle

LEMMA EventsOfMore ==
    ASSUME NEW s \in Seq(Event), NEW x \in Event, NEW open, NEW more, NEW last \in Nat,
           NEW later \in Nat, NEW n \in Nat, NEW m \in Nat, last <= later, n <= m,
           EventsOf(s, open, last, n),
           \A k \in 1..Len(more) : \E j \in 1..Len(open) : more[k].id = open[j].id,
           IF x.branch = "draft"
           THEN x.log <= later /\ \A k \in 1..Len(more) : more[k].id # x.log
           ELSE x.log <= m
    PROVE  EventsOf(Append(s, x), more, later, m)
<1> DEFINE t == Append(s, x)
<1>1. /\ Len(t) = Len(s) + 1 /\ Len(s) \in Nat
      /\ \A i \in 1..Len(s) : t[i] = s[i] /\ s[i] \in Event
      /\ t[Len(s) + 1] = x
    BY EventAtMore, ElementOfSeq
<1> HIDE DEF t
<1>2. ASSUME NEW i \in 1..Len(t)
      PROVE  IF t[i].branch = "draft"
             THEN t[i].log <= later /\ \A k \in 1..Len(more) : more[k].id # t[i].log
             ELSE t[i].log <= m
    <2>1. CASE i = Len(s) + 1
        BY <1>1, <2>1
    <2>2. CASE i # Len(s) + 1
        <3>1. i \in 1..Len(s) /\ t[i] = s[i] /\ s[i].log \in Nat
            BY <1>1, <2>2 DEF Event
        <3>2. IF s[i].branch = "draft"
              THEN s[i].log <= last /\ \A k \in 1..Len(open) : open[k].id # s[i].log
              ELSE s[i].log <= n
            BY <3>1 DEF EventsOf
        <3>3. CASE s[i].branch = "draft"
            <4>1. s[i].log <= later
                BY <3>1, <3>2, <3>3
            <4>2. \A k \in 1..Len(more) : more[k].id # s[i].log
                BY <3>2, <3>3
            <4> QED
                BY <3>1, <3>3, <4>1, <4>2
        <3>4. CASE s[i].branch # "draft"
            BY <3>1, <3>2, <3>4
        <3> QED
            BY <3>3, <3>4
    <2> QED
        BY <2>1, <2>2
<1> QED
    BY <1>2 DEF EventsOf, t

-----------------------------------------------------------------------------
(* Every operation keeps the chronicle.                                    *)

LEMMA OnCommitChronicle ==
    ASSUME TypeInv, ChronicleInv, NEW new \in Seq(Event), OnCommit(new),
           serial \in Nat, serial' \in Nat, serial <= serial',
           Chronicle((events \o outbox) \o new, ClosedDrafts(draft', contexts'), published'.recs),
           EventsOf((events \o outbox) \o new, contexts', serial', Len(publishLogs'))
    PROVE  ChronicleInv'
<1>1. events \in Seq(Event) /\ outbox \in Seq(Event)
    BY TypeInvTables
<1>2. CASE contexts' = <<>>
    <2>1. /\ committed' = Db' /\ outbox' = <<>>
          /\ events' = events \o outbox \o new
        BY <1>2 DEF OnCommit
    <2>2. events' = (events \o outbox) \o new /\ events' \in Seq(Event)
        BY <1>1, <2>1
    <2>3. events' \o outbox' = events'
        BY <2>1, <2>2, ConcatEmptySeq
    <2>4. /\ committed'.draft = draft' /\ committed'.published = published'
          /\ committed'.publishLogs = publishLogs'
        BY <2>1 DEF Db
    <2> QED
        BY <1>2, <2>2, <2>3, <2>4 DEF ChronicleInv
<1>3. CASE contexts' # <<>>
    <2>1. outbox' = outbox \o new /\ UNCHANGED <<committed, events>>
        BY <1>3 DEF OnCommit
    <2>2. events' \o outbox' = (events \o outbox) \o new
        <3>1. events' \o outbox' = events \o (outbox \o new)
            BY <2>1
        <3>2. events \o (outbox \o new) = (events \o outbox) \o new
            BY <1>1, ConcatAssociative
        <3> QED
            BY <3>1, <3>2
    <2>3. ASSUME NEW i \in 1..Len(events) PROVE events[i].log \in Nat
        <3>1. events[i] \in Event
            BY <1>1, ElementOfSeq
        <3> QED
            BY <3>1 DEF Event
    <2>4. EventsOf(events, <<>>, serial', Len(committed.publishLogs))
        BY <2>3 DEF ChronicleInv, EventsOf
    <2> QED
        BY <2>1, <2>2, <2>4 DEF ChronicleInv
<1> QED
    BY <1>2, <1>3

LEMMA OnCommitQuiet ==
    ASSUME TypeInv, ChronicleInv, OnCommit(<<>>), UNCHANGED <<serial, published, publishLogs>>,
           contexts' = contexts,
           \A e \in Entities : ClosedRecords(draft'.recs[e], contexts') =
                               ClosedRecords(draft.recs[e], contexts)
    PROVE  ChronicleInv'
<1>1. /\ events \o outbox \in Seq(Event) /\ serial \in Nat
      /\ <<>> \in Seq(Event) /\ (events \o outbox) \o <<>> = events \o outbox
    BY TypeInvTables, ConcatEmptySeq
<1>2. Chronicle(events \o outbox, ClosedDrafts(draft', contexts'), published'.recs)
    BY ChronicleSame DEF ChronicleInv, ClosedDrafts
<1>3. EventsOf(events \o outbox, contexts', serial', Len(publishLogs'))
    BY DEF ChronicleInv
<1>4. /\ Chronicle((events \o outbox) \o <<>>, ClosedDrafts(draft', contexts'), published'.recs)
      /\ EventsOf((events \o outbox) \o <<>>, contexts', serial', Len(publishLogs'))
    BY <1>1, <1>2, <1>3
<1>5. serial <= serial'
    BY <1>1
<1> HIDE DEF ChronicleInv
<1> QED
    BY <1>1, <1>4, <1>5, OnCommitChronicle

LEMMA OnCommitLog ==
    ASSUME TypeInv, ChronicleInv, NEW x \in Event, OnCommit(<<x>>),
           serial' \in Nat, serial <= serial', Len(publishLogs') \in Nat,
           Len(publishLogs) <= Len(publishLogs'),
           Chronicle(Append(events \o outbox, x), ClosedDrafts(draft', contexts'), published'.recs),
           \A k \in 1..Len(contexts') :
                \E j \in 1..Len(contexts) : contexts'[k].id = contexts[j].id,
           IF x.branch = "draft"
           THEN x.log <= serial' /\ \A k \in 1..Len(contexts') : contexts'[k].id # x.log
           ELSE x.log <= Len(publishLogs')
    PROVE  ChronicleInv'
<1> DEFINE s == events \o outbox
<1>1. /\ s \in Seq(Event) /\ serial \in Nat /\ Len(publishLogs) \in Nat
      /\ s \o <<x>> = Append(s, x) /\ <<x>> \in Seq(Event)
    BY TypeInvTables, AppendIsConcat
<1>2. EventsOf(s, contexts, serial, Len(publishLogs))
    BY DEF ChronicleInv
<1>3. EventsOf(Append(s, x), contexts', serial', Len(publishLogs'))
    <2> HIDE DEF s
    <2> QED
        BY <1>1, <1>2, EventsOfMore
<1>4. /\ Chronicle(s \o <<x>>, ClosedDrafts(draft', contexts'), published'.recs)
      /\ EventsOf(s \o <<x>>, contexts', serial', Len(publishLogs'))
    BY <1>1, <1>3
<1> QED
    BY <1>1, <1>4, OnCommitChronicle

\* A draft log that closes.
LEMMA ClosedLogChronicle ==
    ASSUME TypeInv, TypeInv', LogInv, ReplayInv', ChronicleInv, NEW log \in Nat, NEW p,
           NEW starts, Closes(draft', log, p, contexts', starts),
           UNCHANGED <<published, publishLogs>>, serial <= serial', log <= serial',
           \A i : ~ EventAt(events \o outbox, i, "draft", log),
           OnCommit(<<ChangeLogEvent("draft", draft', log)>>)
    PROVE  ChronicleInv'
<1> DEFINE a == draft'
           x == ChangeLogEvent("draft", a, log)
           s == events \o outbox
           ds == ClosedDrafts(draft, contexts)
           ds2 == ClosedDrafts(a, contexts')
           ps == published.recs
<1>1. BranchOK(a) /\ BranchReplays(a) /\ BranchOK(published)
    BY TypeInvTables DEF TypeInv, TypeOK, DbOK, Db, ReplayInv, DbReplays
<1>2. x \in Event /\ x.branch = "draft" /\ x.log = log
    BY <1>1, ChangeLogEventType DEF ChangeLogEvent
<1>3. ASSUME NEW e \in Entities
      PROVE  /\ \A r \in ds2[e] : r.pk \in Nat
             /\ \A r \in ps[e] : r.pk \in Nat
             /\ Joins(ds[e], ds2[e], log)
    <2>1. /\ ds[e] = ClosedRecords(draft.recs[e], contexts)
          /\ ds2[e] = ClosedRecords(a.recs[e], contexts')
        BY DEF ClosedDrafts
    <2> HIDE DEF ds, ds2, a
    <2>2. /\ ds2[e] \subseteq a.recs[e]
          /\ \A r \in a.recs[e] : r.pk \in Nat
          /\ \A r \in ps[e] : r.pk \in Nat
        BY <1>1, <2>1 DEF ClosedRecords, BranchOK, RecordOK
    <2>3. \A r, q \in a.recs[e] : r.log = q.log => r = q
        BY <1>1 DEF BranchReplays, Replays
    <2>4. Closes(a, log, p, contexts', starts)
        BY DEF a
    <2>5. CASE PackageOf[e] = p
        <3>1. /\ ds2[e] = a.recs[e]
              /\ \A r \in draft.recs[e] : r.log # log => r \in ds[e]
            BY <2>1, <2>4, <2>5, ClosedLogRecords
        <3>2. \A r \in ds[e] : r \in draft.recs[e]
            BY <2>1 DEF ClosedRecords
        <3>3. \A r \in ds[e] : r.log # log
            BY <2>1, <2>4, <3>2 DEF ClosedRecords, Closes, InLog
        <3>4. \A r : r.log # log => (r \in a.recs[e] <=> r \in draft.recs[e])
            BY <2>4 DEF Closes, OnlyLog
        <3>5. LogLast(a.recs[e], log)
            BY <2>4, <2>5 DEF Closes, LogLastIn
        <3>6. Joins(ds[e], ds2[e], log)
            BY <2>3, <3>1, <3>2, <3>3, <3>4, <3>5 DEF Joins
        <3> QED
            BY <2>2, <3>6
    <2>6. CASE PackageOf[e] # p
        <3>1. ds2[e] = ds[e]
            BY <2>1, <2>4, <2>6, ClosedLogRecords
        <3>2. \A r \in ds2[e] : r.log # log
            BY <2>2, <2>4, <2>6 DEF Closes, LogOfPackage, InLog
        <3>3. Joins(ds[e], ds2[e], log)
            BY <2>2, <2>3, <3>1, <3>2 DEF Joins, InLog
        <3> QED
            BY <2>2, <3>3
    <2> QED
        BY <2>5, <2>6
<1>4. Chronicle(s, ds, ps) /\ s \in Seq(Event)
    BY TypeInvTables DEF ChronicleInv
<1>5. \A i : ~ EventAt(s, i, x.branch, x.log)
    BY <1>2
<1> HIDE DEF x, s, ds, ds2, ps
<1>6. Chronicle(Append(s, x), ds2, ps)
    BY <1>2, <1>3, <1>4, <1>5, ChronicleMore
<1>7. ASSUME NEW k \in 1..Len(contexts')
      PROVE  /\ contexts'[k].id # log
             /\ \E j \in 1..Len(contexts) : contexts'[k].id = contexts[j].id
    <2>1. PICK j \in 1..Len(contexts) : contexts[j] = contexts'[k]
        BY DEF Closes
    <2>2. contexts[j].package # p /\ contexts[j].id # log
        BY <2>1 DEF Closes
    <2> QED
        BY <2>1, <2>2
<1>8. /\ serial' \in Nat /\ Len(publishLogs') \in Nat /\ Len(publishLogs) <= Len(publishLogs')
    BY TypeInvTables DEF TypeInv, TypeOK
<1>9. OnCommit(<<x>>)
    BY DEF x
<1>10. Chronicle(Append(events \o outbox, x), ClosedDrafts(draft', contexts'), published'.recs)
    BY <1>6 DEF s, ds2, ps
<1> QED
    BY <1>2, <1>7, <1>8, <1>9, <1>10, OnCommitLog

LEMMA ChangeInOwnLogChronicle ==
    ASSUME TypeInv, TypeInv', LogInv, ReplayInv, ReplayInv', EventInv, ChronicleInv,
           NEW p, NEW target, MoreVersions(versions'), IsTargetOf(target, p, versions'),
           ChangeInOwnLog(versions', p, target)
    PROVE  ChronicleInv'
<1> DEFINE log == serial + 1
           s == events \o outbox
<1>1. /\ OnCommit(<<ChangeLogEvent("draft", draft', log)>>)
      /\ UNCHANGED <<published, publishLogs>> /\ serial' = log
    BY DEF ChangeInOwnLog
<1>2. PICK starts : DraftsStart(draft, contexts, starts)
    BY DEF EventInv
<1>3. Closes(draft', log, p, contexts', starts)
    BY <1>2, ChangeInOwnLogCloses
<1>4. serial \in Nat /\ log \in Nat /\ serial <= serial' /\ log <= serial'
    BY <1>1, TypeInvTables
<1>5. \A i : ~ EventAt(s, i, "draft", log)
    <2>1. \A i \in 1..Len(s) : s[i].branch = "draft" => s[i].log <= serial
        BY DEF ChronicleInv, EventsOf
    <2> QED
        BY <1>4, <2>1 DEF EventAt
<1> HIDE DEF log
<1> QED
    BY <1>1, <1>3, <1>4, <1>5, ClosedLogChronicle

LEMMA BulkExitChronicle ==
    ASSUME TypeInv, TypeInv', LogInv, ReplayInv, ReplayInv', EventInv, ChronicleInv, BulkExit
    PROVE  ChronicleInv'
<1> DEFINE l0 == contexts[Len(contexts)]
           log == l0.id
           p == l0.package
           s == events \o outbox
<1>1. /\ OnCommit(<<ChangeLogEvent("draft", draft', log)>>)
      /\ UNCHANGED <<published, publishLogs>> /\ serial' = serial + 1 /\ contexts # <<>>
    BY DEF BulkExit
<1>2. PICK starts : DraftsStart(draft, contexts, starts)
    BY DEF EventInv
<1>3. Closes(draft', log, p, contexts', starts)
    BY <1>2, BulkExitCloses
<1>4. l0 \in Log /\ l0 \in draftLogs /\ Len(contexts) \in 1..Len(contexts)
    BY <1>1, TypeInvTables, LogInvTables DEF ContextsInv
<1>5. /\ serial \in Nat /\ log \in Nat /\ log <= serial
    BY <1>4, TypeInvTables, LogInvTables DEF Log, LogsIdentified
<1>6. serial <= serial' /\ log <= serial'
    BY <1>1, <1>5
<1>7. \A i : ~ EventAt(s, i, "draft", log)
    <2>1. \A i \in 1..Len(s) : s[i].branch = "draft" => log # s[i].log
        BY <1>4 DEF ChronicleInv, EventsOf
    <2> QED
        BY <2>1 DEF EventAt
<1> HIDE DEF log, p, l0
<1> QED
    BY <1>1, <1>3, <1>5, <1>6, <1>7, ClosedLogChronicle

LEMMA ChangeInContextChronicle ==
    ASSUME TypeInv, ReplayInv, ChronicleInv, NEW p, NEW target,
           IsTargetOf(target, p, versions'), ChangeInContext(p, target)
    PROVE  ChronicleInv'
<1>1. OnCommit(<<>>) /\ UNCHANGED <<serial, published, publishLogs>> /\ contexts' = contexts
    BY DEF ChangeInContext
<1>2. \A e \in Entities : ClosedRecords(draft'.recs[e], contexts') =
                          ClosedRecords(draft.recs[e], contexts)
    BY ChangeInContextStarts
<1> QED
    BY <1>1, <1>2, OnCommitQuiet

LEMMA BulkEnterChronicle ==
    ASSUME ~ Reentrant, TypeInv, LogInv, ReplayInv, ChronicleInv, NEW p \in Packages, BulkEnter(p)
    PROVE  ChronicleInv'
<1> DEFINE s == events \o outbox
           log == [id |-> serial + 1, package |-> p]
<1>1. /\ UNCHANGED <<draft, published, publishLogs, committed, outbox, events>>
      /\ serial' = serial + 1 /\ contexts' = Append(contexts, log)
    BY DEF BulkEnter
<1>2. \A e \in Entities : ClosedRecords(draft.recs[e], contexts') =
                          ClosedRecords(draft.recs[e], contexts)
    BY BulkEnterStarts
<1>3. Chronicle(s, ClosedDrafts(draft, contexts'), published.recs)
    BY <1>2, ChronicleSame DEF ChronicleInv, ClosedDrafts
<1>4. serial \in Nat /\ s \in Seq(Event) /\ events \in Seq(Event) /\ contexts \in Seq(Log)
    BY TypeInvTables
<1>5. /\ \A i \in 1..Len(s) : s[i].log \in Nat
      /\ \A i \in 1..Len(events) : events[i].log \in Nat
    <2>1. \A x \in Event : x.log \in Nat
        BY DEF Event
    <2> HIDE DEF s
    <2>2. ASSUME NEW i \in 1..Len(s) PROVE s[i] \in Event
        BY <1>4, ElementOfSeq
    <2>3. ASSUME NEW i \in 1..Len(events) PROVE events[i] \in Event
        BY <1>4, ElementOfSeq
    <2> QED
        BY <2>1, <2>2, <2>3
<1>6. EventsOf(events, <<>>, serial', Len(committed.publishLogs))
    BY <1>1, <1>4, <1>5 DEF ChronicleInv, EventsOf
<1>7. \A k \in 1..Len(contexts') :
            \/ k \in 1..Len(contexts) /\ contexts'[k] = contexts[k]
            \/ contexts'[k].id = serial + 1
    BY <1>1, <1>4, AppendProperties
<1>8. EventsOf(s, contexts, serial, Len(publishLogs))
    BY DEF ChronicleInv
<1> HIDE DEF s, log
<1>9. EventsOf(s, contexts', serial', Len(publishLogs))
    <2> SUFFICES ASSUME NEW i \in 1..Len(s)
                 PROVE  IF s[i].branch = "draft"
                        THEN /\ s[i].log <= serial'
                             /\ \A k \in 1..Len(contexts') : contexts'[k].id # s[i].log
                        ELSE s[i].log <= Len(publishLogs)
        BY DEF EventsOf
    <2>1. CASE s[i].branch = "draft"
        <3>1. s[i].log <= serial /\ \A k \in 1..Len(contexts) : contexts[k].id # s[i].log
            BY <1>8, <2>1 DEF EventsOf
        <3>2. s[i].log <= serial' /\ serial + 1 # s[i].log
            BY <1>1, <1>4, <1>5, <3>1
        <3> QED
            BY <1>7, <2>1, <3>1, <3>2
    <2>2. CASE s[i].branch # "draft"
        BY <1>8, <2>2 DEF EventsOf
    <2> QED
        BY <2>1, <2>2
<1> QED
    BY <1>1, <1>3, <1>6, <1>9 DEF ChronicleInv, s

LEMMA BulkAbortChronicle ==
    ASSUME TypeInv, ChronicleInv, BulkAbort
    PROVE  ChronicleInv'
<1>1. /\ draft' = committed.draft /\ published' = committed.published
      /\ publishLogs' = committed.publishLogs
      /\ contexts' = <<>> /\ outbox' = <<>> /\ UNCHANGED <<serial, committed, events>>
    BY DEF BulkAbort
<1>2. events' \o outbox' = events
    BY <1>1, TypeInvTables, ConcatEmptySeq
<1> QED
    BY <1>1, <1>2 DEF ChronicleInv

\* What a publish publishes.
LEMMA PublishTakesDrafts ==
    ASSUME TypeInv, LogInv, ReplayInv, NEW S, NEW all, NEW a,
           LET log == Len(publishLogs) + 1
           IN  a = CreateSideEffects(versions, PublishedAfter(S, all, log), log, log),
           NEW e \in Entities, NEW x \in a.recs[e], x.log = Len(publishLogs) + 1, Own(x)
    PROVE  x.new = VersionOf(draft.rows, e)
<1> DEFINE log == Len(publishLogs) + 1
           b == PublishedAfter(S, all, log)
           new == Record(log, log, VersionOf(published.rows, e), VersionOf(draft.rows, e),
                         e \in S, {})
<1>1. \A r \in published.recs[e] : r.log # log
    BY PublishedAfterStep, ReplayInvTables DEF InLog
<1>2. PICK affected : WithSideEffects(a, b, log, log, affected)
    BY SideEffectsMembers
<1>3. \A r \in b.recs[e] : r \in published.recs[e] \/ r = new
    BY DEF PublishedAfter
<1>4. new.new = VersionOf(draft.rows, e)
    BY DEF Record
<1> HIDE DEF b, new
<1>5. \/ \E r \in b.recs[e] : SameRecord(x, r)
      \/ x.direct = FALSE /\ x.new = x.old
    BY <1>2 DEF WithSideEffects
<1>6. PICK r \in b.recs[e] : SameRecord(x, r)
    BY <1>5 DEF Own
<1>7. r = new
    BY <1>1, <1>3, <1>6 DEF SameRecord
<1> QED
    BY <1>4, <1>6, <1>7 DEF SameRecord

LEMMA PublishFromDraftsChronicle ==
    ASSUME TypeInv, TypeInv', LogInv, LogInv', ReplayInv, ReplayInv', ChronicleInv,
           NEW p \in Packages, NEW S \in SUBSET Entities, NEW kind,
           NEW dependencies \in BOOLEAN, PublishFromDrafts(p, S, kind, dependencies)
    PROVE  ChronicleInv'
<1> DEFINE log == Len(publishLogs) + 1
           all == S \cup IF dependencies THEN DependenciesToPublish(S, kind) ELSE {}
           a == published'
           x == ChangeLogEvent("published", a, log)
           s == events \o outbox
           ds == ClosedDrafts(draft, contexts)
<1>1. /\ a = CreateSideEffects(versions, PublishedAfter(S, all, log), log, log)
      /\ publishLogs' = Append(publishLogs, p) /\ ActiveLog(p) = 0
      /\ UNCHANGED <<draft, contexts, serial>> /\ OnCommit(<<x>>)
    BY DEF PublishFromDrafts
<1>2. /\ log \in Nat /\ Len(publishLogs') = log /\ Len(publishLogs) <= log
      /\ serial \in Nat /\ serial <= serial
    BY <1>1, TypeInvTables
<1>3. publishLogs'[log] = p
    BY <1>1, TypeInvTables
<1>4. LogLastIn(a, log, p)
    BY PublishFromDraftsReplayInv
<1>5. BranchOK(a) /\ BranchReplays(a) /\ BranchOK(draft) /\ BranchReplays(draft)
    BY TypeInvTables, ReplayInvTables DEF TypeInv, TypeOK, DbOK, Db, ReplayInv, DbReplays
<1>6. LogOfPackage(a, log, p)
    <2>1. PublishRecordsLogged(published', publishLogs')
        BY DEF LogInv, DbInv, Db
    <2> QED
        BY <1>3, <2>1 DEF PublishRecordsLogged, LogOfPackage, InLog
<1>7. x \in Event /\ x.branch = "published" /\ x.log = log
    BY <1>2, <1>5, ChangeLogEventType DEF ChangeLogEvent
<1>8. ASSUME NEW e \in Entities
      PROVE  /\ \A r \in ds[e] : r.pk \in Nat
             /\ \A r \in a.recs[e] : r.pk \in Nat
             /\ Joins(published.recs[e], a.recs[e], log)
             /\ \A r \in a.recs[e] : r.log = log /\ Own(r) => EndAt(ds[e], r.new)
    <2>1. /\ \A r \in ds[e] : r.pk \in Nat
          /\ \A r \in a.recs[e] : r.pk \in Nat
        BY <1>5 DEF ClosedDrafts, ClosedRecords, BranchOK, RecordOK
    <2>2. /\ \A r : r.log # log => (r \in a.recs[e] <=> r \in published.recs[e])
          /\ \A r \in published.recs[e] : r.log # log
        <3>1. PICK affected : WithSideEffects(a, PublishedAfter(S, all, log), log, log, affected)
            BY <1>1, SideEffectsMembers
        <3>2. \A r \in published.recs[e] : r.log # log
            BY PublishedAfterStep, ReplayInvTables DEF InLog
        <3>3. \A r : r.log # log =>
                (r \in PublishedAfter(S, all, log).recs[e] <=> r \in published.recs[e])
            BY DEF PublishedAfter, Record
        <3> QED
            BY <3>1, <3>2, <3>3 DEF WithSideEffects
    <2>3. \A r, q \in a.recs[e] : r.log = q.log => r = q
        BY <1>5 DEF BranchReplays, Replays
    <2>4. InLog(a.recs[e], log) => LogLast(a.recs[e], log)
        BY <1>4, <1>6 DEF LogLastIn, LogOfPackage
    <2>5. ASSUME NEW r \in a.recs[e], r.log = log, Own(r) PROVE EndAt(ds[e], r.new)
        <3>1. PackageOf[e] = p
            BY <1>6, <2>5 DEF LogOfPackage, InLog
        <3>2. \A i \in 1..Len(contexts) : contexts[i].package # PackageOf[e]
            BY <1>1, <3>1, NoContextOfPackage, ReplayInvTables
        <3>3. ds[e] = draft.recs[e]
            BY <3>2, RecordsOfClosedLogs DEF ClosedDrafts, ClosedRecords
        <3>4. r.new = VersionOf(draft.rows, e)
            BY <1>1, <2>5, PublishTakesDrafts
        <3>5. EndAt(draft.recs[e], VersionOf(draft.rows, e))
            BY <1>5 DEF BranchReplays, Replays, EndAt
        <3> QED
            BY <3>3, <3>4, <3>5
    <2> HIDE DEF ds, log, a
    <2> QED
        BY <2>1, <2>2, <2>3, <2>4, <2>5 DEF Joins
<1>9. Chronicle(s, ds, published.recs) /\ s \in Seq(Event)
    BY TypeInvTables DEF ChronicleInv
<1>10. \A i : ~ EventAt(s, i, "published", log)
    <2>1. \A i \in 1..Len(s) : s[i].branch = "published" => s[i].log <= Len(publishLogs)
        BY DEF ChronicleInv, EventsOf
    <2> QED
        BY <1>2, <2>1, TypeInvTables DEF EventAt
<1> HIDE DEF x, s, ds, log, all
<1>11. Chronicle(Append(s, x), ds, a.recs)
    BY <1>7, <1>8, <1>9, <1>10, ChronicleMore
<1>12. Chronicle(Append(events \o outbox, x), ClosedDrafts(draft', contexts'), published'.recs)
    BY <1>1, <1>11 DEF s, ds
<1>13. \A k \in 1..Len(contexts') : \E j \in 1..Len(contexts) : contexts'[k].id = contexts[j].id
    BY <1>1
<1> QED
    BY <1>1, <1>2, <1>7, <1>12, <1>13, OnCommitLog

LEMMA InitChronicle == Init => ChronicleInv
<1> SUFFICES ASSUME Init PROVE ChronicleInv
    OBVIOUS
<1>1. /\ \A e \in Entities : draft.recs[e] = {}
      /\ published = draft /\ contexts = <<>> /\ committed = Db
      /\ outbox = <<>> /\ events = <<>>
    BY DEF Init
<1>2. /\ committed.draft = draft /\ committed.published = draft
      /\ committed.publishLogs = publishLogs
    BY <1>1 DEF Db
<1>3. events \o outbox = <<>> /\ Len(<<>>) = 0 /\ 1..0 = {}
    BY <1>1
<1>4. \A e \in Entities : ClosedDrafts(draft, <<>>)[e] = {}
    BY <1>1 DEF ClosedDrafts, ClosedRecords
<1>5. Chronicle(<<>>, ClosedDrafts(draft, <<>>), draft.recs)
    BY <1>1, <1>3, <1>4 DEF Chronicle, InTime
<1>6. \A n, m : EventsOf(<<>>, <<>>, n, m)
    BY <1>3 DEF EventsOf
<1> QED
    BY <1>1, <1>2, <1>3, <1>5, <1>6 DEF ChronicleInv

LEMMA NextChronicle ==
    ASSUME ~ Reentrant, TypeInv, TypeInv', LogInv, LogInv', ReplayInv, ReplayInv', EventInv,
           ChronicleInv, [Next]_vars
    PROVE  ChronicleInv'
<1>1. ASSUME NEW p \in Packages, NEW target, DraftsChange(p, target)
      PROVE  ChronicleInv'
    BY <1>1, ChangeInContextChronicle, ChangeInOwnLogChronicle DEF DraftsChange, ChangeDrafts
<1>2. ASSUME NEW p \in Packages, BulkEnter(p)
      PROVE  ChronicleInv'
    BY <1>2, BulkEnterChronicle
<1>3. CASE BulkExit
    BY <1>3, BulkExitChronicle
<1>4. CASE BulkAbort
    BY <1>4, BulkAbortChronicle
<1>5. ASSUME NEW p \in Packages, NEW S \in SUBSET Entities, NEW kind,
             NEW dependencies \in BOOLEAN, PublishFromDrafts(p, S, kind, dependencies)
      PROVE  ChronicleInv'
    BY <1>5, PublishFromDraftsChronicle
<1>6. CASE UNCHANGED vars
    BY <1>6 DEF vars, ChronicleInv
<1> QED
    BY <1>1, <1>2, <1>3, <1>4, <1>5, <1>6, StepsAre

LEMMA ChronicleInvariance ==
    ASSUME ~ Reentrant
    PROVE  Spec => [](TypeInv /\ LogInv /\ ReplayInv /\ ChronicleInv)
<1>1. Init => EventInv /\ ChronicleInv
    BY InitEventInv, InitChronicle
<1>2. TypeInv /\ TypeInv' /\ LogInv /\ LogInv' /\ ReplayInv /\ ReplayInv' /\ EventInv
        /\ ChronicleInv /\ [Next]_vars => EventInv' /\ ChronicleInv'
    BY NextEventInv, NextChronicle
<1> QED
    BY <1>1, <1>2, ReplayInvariance, PTL DEF Spec

-----------------------------------------------------------------------------
(* What the histories read.                                                *)

Sent == events \o outbox

\* The records of an entity are as old as their logs.
LEMMA Times ==
    ASSUME TypeInv, LogInv, ReplayInv, ChronicleInv, NEW e \in Entities
    PROVE  /\ Len(Sent) \in Nat
           /\ \A r \in draft.recs[e] : ChangedAt(r) \in 1..(Len(Sent) + 1)
           /\ \A r, q \in draft.recs[e] : r.pk < q.pk <=> ChangedAt(r) < ChangedAt(q)
           /\ \A r \in published.recs[e] : PublishedAt(r) \in 1..Len(Sent)
           /\ \A r \in published.recs[e], q \in draft.recs[e] : ChangedAt(q) # PublishedAt(r)
           /\ \A r, q \in published.recs[e] : r.pk < q.pk => PublishedAt(r) < PublishedAt(q)
           /\ \A r \in published.recs[e] : Own(r) =>
                    EndAt({q \in draft.recs[e] : ChangedAt(q) < PublishedAt(r)}, r.new)
<1> DEFINE s == Sent
           d == draft.recs[e]
           c == ClosedRecords(d, contexts)
           ps == published.recs[e]
<1>1. s \in Seq(Event) /\ Len(s) \in Nat
    BY TypeInvTables DEF Sent
<1>2. /\ \A i, j \in 1..Len(s) : s[i].branch = s[j].branch /\ s[i].log = s[j].log => i = j
      /\ InTime(s, "draft", c) /\ InTime(s, "published", ps)
      /\ \A r \in ps : TookTheDraft(s, c, r)
      /\ \A i \in 1..Len(s) : s[i].branch = "draft" =>
            \A k \in 1..Len(contexts) : contexts[k].id # s[i].log
    BY DEF ChronicleInv, Chronicle, ClosedDrafts, EventsOf, Sent
<1>3. ASSUME NEW branch, NEW log, NEW i, EventAt(s, i, branch, log)
      PROVE  TimeOf(branch, log) = i /\ i \in 1..Len(s)
    <2> DEFINE at == {j \in DOMAIN s : s[j].branch = branch /\ s[j].log = log}
    <2>1. DOMAIN s = 1..Len(s)
        BY <1>1, LenProperties
    <2>2. at = {i} /\ i \in 1..Len(s)
        BY <1>2, <1>3, <2>1 DEF EventAt
    <2>3. TimeOf(branch, log) = IF at = {} THEN Len(s) + 1 ELSE CHOOSE j \in at : TRUE
        BY DEF TimeOf, Sent
    <2> HIDE DEF at, s
    <2> QED
        BY <2>2, <2>3
<1>4. ASSUME NEW branch, NEW log, \A i : ~ EventAt(s, i, branch, log)
      PROVE  TimeOf(branch, log) = Len(s) + 1
    <2> DEFINE at == {j \in DOMAIN s : s[j].branch = branch /\ s[j].log = log}
    <2>1. DOMAIN s = 1..Len(s)
        BY <1>1, LenProperties
    <2>2. at = {}
        BY <1>4, <2>1 DEF EventAt
    <2>3. TimeOf(branch, log) = IF at = {} THEN Len(s) + 1 ELSE CHOOSE j \in at : TRUE
        BY DEF TimeOf, Sent
    <2> HIDE DEF at, s
    <2> QED
        BY <2>2, <2>3
<1>5. /\ \A r, q \in d : r.pk = q.pk \/ r.log = q.log => r = q
      /\ \A r \in d : r.pk \in Nat
      /\ \A r \in ps : r.pk \in Nat
    BY TypeInvTables, ReplayInvTables DEF BranchReplays, Replays, BranchOK, RecordOK
<1>6. ASSUME NEW r \in d, r \notin c
      PROVE  \A q \in d : q # r => q \in c /\ q.pk < r.pk
    <2>1. PICK i \in 1..Len(contexts) : contexts[i].id = r.log
        BY <1>6 DEF ClosedRecords
    <2>2. contexts[i].package = PackageOf[e]
        <3>1. [id |-> r.log, package |-> PackageOf[e]] \in draftLogs
            BY <1>6, LogInvTables DEF DraftRecordsLogged
        <3>2. contexts[i] \in draftLogs
            BY LogInvTables DEF ContextsInv
        <3>3. contexts[i] = [id |-> r.log, package |-> PackageOf[e]]
            BY <2>1, <3>1, <3>2, LogInvTables DEF LogsIdentified
        <3> QED
            BY <3>3
    <2>3. LogLast(d, r.log)
        BY <2>1, <2>2, ReplayInvTables DEF OpenLogsInv, LogLastIn
    <2>4. ASSUME NEW q \in d, q # r PROVE q \in c /\ q.pk < r.pk
        <3>1. q.log # r.log
            BY <1>5, <2>4
        <3>2. q.pk < r.log /\ r.log <= r.pk
            BY <2>3, <3>1 DEF LogLast
        <3>3. \A k \in 1..Len(contexts) : contexts[k].package = PackageOf[e] => k = i
            BY <2>2, ReplayInvTables DEF OpenLogsInv
        <3>4. q \in c
            BY <2>1, <3>1, <3>3, RecordsOfClosedLogs DEF ClosedRecords
        <3>5. r.log \in Nat
            BY TypeInvTables DEF BranchOK, RecordOK
        <3> QED
            BY <1>5, <3>2, <3>4, <3>5
    <2> QED
        BY <2>4
<1>7. \A r \in c : r \in d /\ \E i : EventAt(s, i, "draft", r.log) /\ ChangedAt(r) = i
                                   /\ i \in 1..Len(s)
    BY <1>2, <1>3 DEF InTime, ChangedAt, ClosedRecords
<1>8. \A r \in d : r \notin c => ChangedAt(r) = Len(s) + 1
    <2> SUFFICES ASSUME NEW r \in d, r \notin c PROVE ChangedAt(r) = Len(s) + 1
        OBVIOUS
    <2>1. PICK k \in 1..Len(contexts) : contexts[k].id = r.log
        BY DEF ClosedRecords
    <2>2. \A i : ~ EventAt(s, i, "draft", r.log)
        BY <1>2, <2>1 DEF EventAt
    <2> QED
        BY <1>4, <2>2 DEF ChangedAt
<1>9. \A r \in ps : \E i : EventAt(s, i, "published", r.log) /\ PublishedAt(r) = i
                          /\ i \in 1..Len(s)
    BY <1>2, <1>3 DEF InTime, PublishedAt
<1> HIDE DEF d, c, ps, s
<1>10. \A r \in d : ChangedAt(r) \in 1..(Len(s) + 1)
    <2> SUFFICES ASSUME NEW r \in d PROVE ChangedAt(r) \in 1..(Len(s) + 1)
        OBVIOUS
    <2>1. CASE r \in c
        BY <1>1, <1>7, <2>1
    <2>2. CASE r \notin c
        BY <1>1, <1>8, <2>2
    <2> QED
        BY <2>1, <2>2
<1>11. ASSUME NEW r \in d, NEW q \in d, r.pk < q.pk PROVE ChangedAt(r) < ChangedAt(q)
    <2>1. r # q /\ r.pk \in Nat /\ q.pk \in Nat
        BY <1>5, <1>11
    <2>2. r \in c
        BY <1>6, <1>11, <2>1
    <2>3. CASE q \in c
        BY <1>2, <1>7, <1>11, <2>2, <2>3 DEF InTime
    <2>4. CASE q \notin c
        BY <1>1, <1>7, <1>8, <2>2, <2>4
    <2> QED
        BY <2>3, <2>4
<1>12. ASSUME NEW r \in d, NEW q \in d, ChangedAt(r) < ChangedAt(q) PROVE r.pk < q.pk
    <2>1. /\ r.pk \in Nat /\ q.pk \in Nat
          /\ ChangedAt(r) \in Nat /\ ChangedAt(q) \in Nat
        BY <1>1, <1>5, <1>10
    <2>2. CASE r.pk = q.pk
        BY <1>5, <1>12, <2>1, <2>2
    <2>3. CASE q.pk < r.pk
        BY <1>11, <1>12, <2>1, <2>3
    <2> QED
        BY <2>1, <2>2, <2>3
<1>13. ASSUME NEW r \in ps, NEW q \in d PROVE ChangedAt(q) # PublishedAt(r)
    <2>1. PICK i : EventAt(s, i, "published", r.log) /\ PublishedAt(r) = i /\ i \in 1..Len(s)
        BY <1>9
    <2>2. CASE q \in c
        BY <1>7, <2>1, <2>2 DEF EventAt
    <2>3. CASE q \notin c
        BY <1>1, <1>8, <2>1, <2>3
    <2> QED
        BY <2>2, <2>3
<1>14. ASSUME NEW r \in ps, NEW q \in ps, r.pk < q.pk PROVE PublishedAt(r) < PublishedAt(q)
    BY <1>2, <1>9, <1>14 DEF InTime
<1>15. ASSUME NEW r \in ps, Own(r)
       PROVE  EndAt({q \in d : ChangedAt(q) < PublishedAt(r)}, r.new)
    <2>1. PICK i : EventAt(s, i, "published", r.log) /\ PublishedAt(r) = i /\ i \in 1..Len(s)
        BY <1>9
    <2>2. EndAt(RecordsUntil(s, c, i), r.new)
        BY <1>2, <1>15, <2>1 DEF TookTheDraft
    <2>3. ASSUME NEW q, q \in d, ChangedAt(q) < i PROVE q \in RecordsUntil(s, c, i)
        <3>1. q \in c
            BY <1>1, <1>8, <2>1, <2>3
        <3> QED
            BY <1>7, <2>3, <3>1 DEF RecordsUntil
    <2>4. ASSUME NEW q, q \in RecordsUntil(s, c, i) PROVE q \in d /\ ChangedAt(q) < i
        <3>1. PICK j : j < i /\ EventAt(s, j, "draft", q.log)
            BY <2>4 DEF RecordsUntil
        <3>2. q \in c
            BY <2>4 DEF RecordsUntil
        <3>3. ChangedAt(q) = j
            BY <1>3, <3>1 DEF ChangedAt
        <3> QED
            BY <1>7, <3>1, <3>2, <3>3
    <2>5. {q \in d : ChangedAt(q) < PublishedAt(r)} = RecordsUntil(s, c, i)
        BY <2>1, <2>3, <2>4
    <2> QED
        BY <2>2, <2>5
<1> QED
    BY <1>1, <1>9, <1>10, <1>11, <1>12, <1>13, <1>14, <1>15 DEF s, d, ps

-----------------------------------------------------------------------------
(* Records that lead from one version to another.                          *)

\* The records have times of their own.
Timed(rs, n) ==
    /\ n \in Nat /\ \A r \in rs : ChangedAt(r) \in 0..n
    /\ \A r, q \in rs : ChangedAt(r) = ChangedAt(q) => r = q

\* The records that start from version a end at version b.
Ends(rs, a, b) ==
    /\ rs = {} => b = a
    /\ \A q \in rs : (\A x \in rs : ChangedAt(x) <= ChangedAt(q)) => b = q.new

\* Part of the records, up to a point in time.
Earlier(part, rs) ==
    /\ part \subseteq rs
    /\ \A q \in part, x \in rs : ChangedAt(x) < ChangedAt(q) => x \in part

LEMMA LastOfTimed ==
    ASSUME NEW rs, NEW n, Timed(rs, n), rs # {}
    PROVE  \E q \in rs : \A x \in rs : ChangedAt(x) <= ChangedAt(q)
<1> DEFINE times == {ChangedAt(r) : r \in rs}
<1>1. times # {} /\ times \subseteq Nat /\ \A t \in times : t <= n
    BY DEF Timed
<1>2. n \in Nat
    BY DEF Timed
<1>3. \E t \in times : \A y \in times : y <= t
    <2> HIDE DEF times
    <2> QED
        BY <1>1, <1>2, MaxExists
<1> QED
    BY <1>3

LEMMA LeadsEnds ==
    ASSUME NEW rs, NEW n, Timed(rs, n), NEW a, NEW b, Leads(rs, a, b)
    PROVE  Ends(rs, a, b)
<1>1. ASSUME NEW q \in rs, \A x \in rs : ChangedAt(x) <= ChangedAt(q) PROVE b = q.new
    <2>1. {x \in rs : ChangedAt(x) > ChangedAt(q)} = {}
        BY <1>1 DEF Timed
    <2> QED
        BY <2>1 DEF Leads
<1> QED
    BY <1>1 DEF Leads, Ends

\* Of records that lead somewhere, those after one point and up to another.
LEMMA Window ==
    ASSUME NEW rs, NEW n, Timed(rs, n), NEW s, NEW v, Leads(rs, s, v),
           NEW lo, NEW hi, Earlier(lo, rs), Earlier(hi, rs), lo \subseteq hi,
           NEW a, NEW b, Ends(lo, s, a), Ends(hi, s, b)
    PROVE  Leads(hi \ lo, a, b)
<1> DEFINE w == hi \ lo
           before(r) == {q \in w : ChangedAt(q) < ChangedAt(r)}
           all(r) == {q \in rs : ChangedAt(q) < ChangedAt(r)}
<1>1. /\ \A r \in rs : ChangedAt(r) \in Nat
      /\ \A r, q \in rs : ChangedAt(r) = ChangedAt(q) => r = q
    BY DEF Timed
<1>2. Timed(lo, n) /\ Timed(hi, n) /\ lo \subseteq rs /\ hi \subseteq rs
    BY DEF Timed, Earlier
<1>3. \A r \in w, q \in lo : ChangedAt(q) < ChangedAt(r)
    BY <1>1, <1>2 DEF Earlier
<1>4. ASSUME w = {} PROVE a = b
    <2>1. hi = lo
        BY <1>4
    <2>2. CASE lo = {}
        BY <2>1, <2>2 DEF Ends
    <2>3. CASE lo # {}
        <3>1. PICK q \in lo : \A x \in lo : ChangedAt(x) <= ChangedAt(q)
            BY <1>2, <2>3, LastOfTimed
        <3> QED
            BY <2>1, <3>1 DEF Ends
    <2> QED
        BY <2>2, <2>3
<1>5. ASSUME NEW r \in w, before(r) = {} PROVE r.old = a
    <2>1. all(r) = lo
        BY <1>2, <1>3, <1>5 DEF Earlier
    <2>2. CASE lo = {}
        BY <1>2, <2>1, <2>2 DEF Leads, Ends
    <2>3. CASE lo # {}
        <3>1. PICK q \in lo : \A x \in lo : ChangedAt(x) <= ChangedAt(q)
            BY <1>2, <2>3, LastOfTimed
        <3>2. a = q.new
            BY <3>1 DEF Ends
        <3>3. r.old = q.new
            BY <1>2, <2>1, <3>1 DEF Leads
        <3> QED
            BY <3>2, <3>3
    <2> QED
        BY <2>2, <2>3
<1>6. ASSUME NEW r \in w, {q \in w : ChangedAt(q) > ChangedAt(r)} = {} PROVE r.new = b
    <2>1. \A x \in hi : ChangedAt(x) <= ChangedAt(r)
        BY <1>1, <1>2, <1>3, <1>6
    <2> QED
        BY <2>1 DEF Ends
<1>7. ASSUME NEW r \in w, NEW q \in before(r),
             \A x \in before(r) : ChangedAt(x) <= ChangedAt(q)
      PROVE  r.old = q.new
    <2>1. \A x \in all(r) : ChangedAt(x) <= ChangedAt(q)
        <3> SUFFICES ASSUME NEW x \in all(r) PROVE ChangedAt(x) <= ChangedAt(q)
            OBVIOUS
        <3>1. x \in hi
            BY <1>2 DEF Earlier
        <3>2. CASE x \in lo
            BY <1>1, <1>2, <1>3, <3>2
        <3>3. CASE x \notin lo
            BY <1>7, <3>1, <3>3
        <3> QED
            BY <3>2, <3>3
    <2>2. q \in all(r) /\ r \in rs
        BY <1>2
    <2> QED
        BY <2>1, <2>2 DEF Leads
<1>8. Leads(w, a, b)
    <2> HIDE DEF w
    <2> QED
        BY <1>4, <1>5, <1>6, <1>7 DEF Leads
<1> QED
    BY <1>8 DEF w

\* Going back to the first version makes no difference to where records lead,
\* and of those left there are none when they lead back to it.
LEMMA ResetLeads ==
    ASSUME NEW rs, NEW n, Timed(rs, n), NEW a, NEW b, Leads(rs, a, b)
    PROVE  LET h == SinceReset(rs, a)
           IN  /\ Leads(h, a, b) /\ h \subseteq rs
               /\ h = {} => a = b
               /\ h # {} => a # b /\ \E x \in h : x.new = b
<1> DEFINE h == SinceReset(rs, a)
           lo == rs \ h
<1>1. \A r \in rs : ChangedAt(r) \in Nat
    BY DEF Timed
<1>2. h \subseteq rs /\ \A r \in rs :
            r \in h <=> \A q \in rs : q.new = a => ChangedAt(q) < ChangedAt(r)
    BY DEF SinceReset
<1> HIDE DEF h
<1>3. Earlier(lo, rs) /\ Earlier(rs, rs) /\ lo \subseteq rs
    BY <1>1, <1>2 DEF Earlier
<1>4. Ends(lo, a, a)
    <2> SUFFICES ASSUME NEW q \in lo, \A x \in lo : ChangedAt(x) <= ChangedAt(q)
                 PROVE  a = q.new
        BY DEF Ends
    <2>1. PICK z \in rs : z.new = a /\ ~ ChangedAt(z) < ChangedAt(q)
        BY <1>2
    <2>2. z \in lo
        BY <1>1, <1>2, <2>1
    <2>3. ChangedAt(z) = ChangedAt(q)
        BY <1>1, <2>1, <2>2
    <2>4. z = q
        BY <2>3 DEF Timed
    <2> QED
        BY <2>1, <2>4
<1>5. Ends(rs, a, b)
    BY LeadsEnds
<1> HIDE DEF lo
<1>6. Leads(rs \ lo, a, b)
    BY <1>3, <1>4, <1>5, Window
<1>7. rs \ lo = h
    BY <1>2 DEF lo
<1>8. Leads(h, a, b)
    BY <1>6, <1>7
<1>9. ASSUME h # {} PROVE a # b /\ \E x \in h : x.new = b
    <2>1. Timed(h, n)
        BY <1>2 DEF Timed
    <2>2. PICK x \in h : \A y \in h : ChangedAt(y) <= ChangedAt(x)
        BY <1>9, <2>1, LastOfTimed
    <2>3. Ends(h, a, b)
        BY <1>8, <2>1, LeadsEnds
    <2>4. x.new = b
        BY <2>2, <2>3 DEF Ends
    <2>5. x.new # a
        BY <1>1, <1>2
    <2> QED
        BY <2>4, <2>5
<1> QED
    BY <1>2, <1>8, <1>9 DEF h, Leads

-----------------------------------------------------------------------------
(* The histories.                                                          *)

Histories ==
    TypeInv /\ LogInv /\ ReplayInv /\ ChronicleInv

\* All records of the draft of an entity lead to its version.
LEMMA DraftLeads ==
    ASSUME Histories, NEW e \in Entities
    PROVE  LET d == draft.recs[e]
               n == Len(Sent) + 1
           IN  /\ Timed(d, n) /\ Leads(d, 0, VersionOf(draft.rows, e))
               /\ Ends(d, 0, VersionOf(draft.rows, e))
<1> DEFINE d == draft.recs[e]
           n == Len(Sent) + 1
           v == VersionOf(draft.rows, e)
<1>1. /\ Len(Sent) \in Nat
      /\ \A r \in d : ChangedAt(r) \in 1..n
      /\ \A r, q \in d : r.pk < q.pk <=> ChangedAt(r) < ChangedAt(q)
    BY Times DEF Histories
<1>2. /\ \A r, q \in d : r.pk = q.pk => r = q
      /\ \A r \in d : r.pk \in Nat
    BY TypeInvTables, ReplayInvTables DEF BranchReplays, Replays, BranchOK, RecordOK, Histories
<1>3. Replays(d, v, LogRecordOf(draft.rows, e))
    BY ReplayInvTables DEF BranchReplays, Histories
<1> HIDE DEF d, v
<1>4. Timed(d, n)
    <2>1. \A r \in d : ChangedAt(r) \in 0..n /\ ChangedAt(r) \in Nat
        BY <1>1
    <2>2. ASSUME NEW r \in d, NEW q \in d, ChangedAt(r) = ChangedAt(q) PROVE r = q
        <3>1. ~ r.pk < q.pk /\ ~ q.pk < r.pk
            BY <1>1, <2>1, <2>2
        <3> QED
            BY <1>2, <3>1
    <2> QED
        BY <1>1, <2>1, <2>2 DEF Timed
<1>5. \A r, q \in d : r.pk <= q.pk <=> ChangedAt(r) <= ChangedAt(q)
    BY <1>1, <1>2
<1>6. ASSUME NEW r \in d
      PROVE  /\ {q \in d : ChangedAt(q) < ChangedAt(r)} = {} => r.old = 0
             /\ {q \in d : ChangedAt(q) > ChangedAt(r)} = {} => r.new = v
             /\ \A q \in d : /\ ChangedAt(q) < ChangedAt(r)
                             /\ \A x \in d : ChangedAt(x) < ChangedAt(r) =>
                                    ChangedAt(x) <= ChangedAt(q)
                             => r.old = q.new
    <2>1. ASSUME {q \in d : ChangedAt(q) < ChangedAt(r)} = {} PROVE r.old = 0
        <3>1. \A q \in d : r.pk <= q.pk
            BY <1>1, <1>5, <2>1
        <3> QED
            BY <1>3, <3>1 DEF Replays
    <2>2. ASSUME {q \in d : ChangedAt(q) > ChangedAt(r)} = {} PROVE r.new = v
        <3>1. \A q \in d : q.pk <= r.pk
            BY <1>1, <1>5, <2>2
        <3> QED
            BY <1>3, <3>1 DEF Replays
    <2>3. ASSUME NEW q \in d, ChangedAt(q) < ChangedAt(r),
                 \A x \in d : ChangedAt(x) < ChangedAt(r) => ChangedAt(x) <= ChangedAt(q)
          PROVE  r.old = q.new
        <3>1. q.pk < r.pk /\ \A x \in d : x.pk < r.pk => x.pk <= q.pk
            BY <1>1, <1>5, <2>3
        <3> QED
            BY <1>3, <3>1 DEF Replays
    <2> QED
        BY <2>1, <2>2, <2>3
<1>7. Leads(d, 0, v)
    BY <1>3, <1>6 DEF Leads, Replays
<1> HIDE DEF n
<1>8. Ends(d, 0, v)
    BY <1>4, <1>7, LeadsEnds
<1> QED
    BY <1>4, <1>7, <1>8 DEF d, n, v

\* The records of the draft of an entity up to a time.
Until(e, t) == {q \in draft.recs[e] : ChangedAt(q) < t}

\* Those up to a publish end at what it published.
LEMMA PublishEnds ==
    ASSUME Histories, NEW e \in Entities, NEW r \in published.recs[e], Own(r)
    PROVE  /\ Ends(Until(e, PublishedAt(r)), 0, r.new)
           /\ Earlier(Until(e, PublishedAt(r)), draft.recs[e])
           /\ \A q \in draft.recs[e] :
                /\ q \in Until(e, PublishedAt(r)) <=> ChangedAt(q) <= PublishedAt(r)
                /\ q \notin Until(e, PublishedAt(r)) <=> ChangedAt(q) > PublishedAt(r)
<1> DEFINE d == draft.recs[e]
           u == Until(e, PublishedAt(r))
<1>1. /\ Len(Sent) \in Nat
      /\ \A q \in d : ChangedAt(q) \in Nat /\ ChangedAt(q) # PublishedAt(r)
      /\ \A x, q \in d : x.pk < q.pk <=> ChangedAt(x) < ChangedAt(q)
      /\ PublishedAt(r) \in Nat
    BY Times DEF Histories
<1>2. EndAt(u, r.new)
    BY Times DEF Histories, Until
<1>3. \A q \in d : q.pk \in Nat
    BY TypeInvTables DEF BranchOK, RecordOK, Histories
<1>4. u \subseteq d /\ \A q \in d : q \in u <=> ChangedAt(q) < PublishedAt(r)
    BY DEF Until
<1> HIDE DEF d, u
<1>5. \A x, q \in d : x.pk <= q.pk <=> ChangedAt(x) <= ChangedAt(q)
    BY <1>1, <1>3
<1>6. Ends(u, 0, r.new)
    BY <1>2, <1>4, <1>5 DEF EndAt, Ends
<1>7. Earlier(u, d)
    BY <1>1, <1>4 DEF Earlier
<1>8. \A q \in d : /\ q \in u <=> ChangedAt(q) <= PublishedAt(r)
                   /\ q \notin u <=> ChangedAt(q) > PublishedAt(r)
    BY <1>1, <1>4
<1> QED
    BY <1>6, <1>7, <1>8 DEF d, u

\* What an entity is published at is what its last publish record published.
LEMMA CurrentPublish ==
    ASSUME Histories, NEW e \in Entities, published.rows[e] # NoRow
    PROVE  VersionOf(published.rows, e) # 0 \/ published.recs[e] # {} =>
             /\ CurrentRecord(published, e) \in published.recs[e]
             /\ CurrentRecord(published, e).new = VersionOf(published.rows, e)
<1> DEFINE ps == published.recs[e]
           v == VersionOf(published.rows, e)
           rec == LogRecordOf(published.rows, e)
<1>1. Replays(ps, v, rec)
    BY ReplayInvTables DEF BranchReplays, Histories
<1>2. /\ \A r \in ps : r.pk \in Nat /\ r.pk <= Len(publishLogs)
      /\ Len(publishLogs) \in Nat
    BY TypeInvTables, ReplayInvTables DEF Histories, BranchOK, RecordOK, PkBound
<1>3. CurrentRecord(published, e) = CHOOSE r \in ps : r.log = rec
    BY DEF CurrentRecord, RecordIn, LogRecordOf
<1> HIDE DEF ps, v, rec
<1>4. ASSUME ps # {}
      PROVE  (CHOOSE r \in ps : r.log = rec) \in ps /\ (CHOOSE r \in ps : r.log = rec).new = v
    <2> DEFINE pks == {r.pk : r \in ps}
    <2>1. pks # {} /\ pks \subseteq Nat /\ \A n \in pks : n <= Len(publishLogs)
        BY <1>2, <1>4
    <2>2. \E n \in pks : \A m \in pks : m <= n
        <3> HIDE DEF pks
        <3> QED
            BY <1>2, <2>1, MaxExists
    <2>3. PICK q \in ps : \A x \in ps : x.pk <= q.pk
        BY <2>2
    <2>4. q.log = rec /\ q.new = v
        BY <1>1, <2>3 DEF Replays
    <2>5. \A r \in ps : r.log = rec => r = q
        BY <1>1, <2>4 DEF Replays
    <2> QED
        BY <2>4, <2>5
<1>5. v # 0 => ps # {}
    BY <1>1 DEF Replays
<1> QED
    BY <1>3, <1>4, <1>5 DEF ps, v

-----------------------------------------------------------------------------
(* A published entity has a publish record.                                *)

\* What a log affects has dependencies, so it has a version.
LEMMA AffectedHaveVersions ==
    ASSUME NEW vs, NEW b, NEW log, NEW e \in AffectedByLog(vs, b, log)
    PROVE  e \in Entities /\ VersionOf(b.rows, e) # 0
<1> DEFINE deps == CurrentDependencies(vs, b.rows)
           S == {x \in Entities : InLog(b.recs[x], log)}
           T == {x \in Entities : deps[x] # {}}
<1>1. DOMAIN deps = Entities
    BY DEF CurrentDependencies
<1>2. \A x \in Entities : deps[x] # {} => VersionOf(b.rows, x) # 0
    BY DEF CurrentDependencies, DependenciesOf
<1>3. e \in Ancestors(deps, S)
    BY DEF AffectedByLog
<1> HIDE DEF deps, S
<1>4. T \in SUBSET DOMAIN deps /\ AffectedBy(deps, S \cup T) \subseteq T
    BY <1>1 DEF AffectedBy
<1>5. e \in T
    BY <1>3, <1>4 DEF Ancestors
<1> QED
    BY <1>2, <1>5

RowsRecorded(b) == \A e \in Entities : b.rows[e] # NoRow => b.recs[e] # {}

RowsRecordedInv == RowsRecorded(published) /\ RowsRecorded(committed.published)

LEMMA NextRowsRecorded ==
    TypeInv /\ TypeInv' /\ LogInv /\ RowsRecordedInv /\ [Next]_vars => RowsRecordedInv'
<1> SUFFICES ASSUME TypeInv, TypeInv', LogInv, RowsRecordedInv, [Next]_vars
             PROVE  RowsRecordedInv'
    OBVIOUS
<1>1. ASSUME RowsRecorded(published'), NEW new, OnCommit(new)
      PROVE  RowsRecordedInv'
    <2>1. RowsRecorded(committed'.published)
        <3>1. CASE contexts' = <<>>
            BY <1>1, <3>1 DEF OnCommit, Db, RowsRecorded
        <3>2. CASE contexts' # <<>>
            BY <1>1, <3>2 DEF OnCommit, RowsRecordedInv
        <3> QED
            BY <3>1, <3>2
    <2> QED
        BY <1>1, <2>1 DEF RowsRecordedInv, RowsRecorded
<1>2. ASSUME NEW p \in Packages, NEW target, DraftsChange(p, target)
      PROVE  RowsRecordedInv'
    <2>1. published' = published /\ \E new : OnCommit(new)
        BY <1>2 DEF DraftsChange, ChangeDrafts, ChangeInContext, ChangeInOwnLog
    <2> QED
        BY <1>1, <2>1 DEF RowsRecordedInv
<1>3. ASSUME NEW p \in Packages, BulkEnter(p)
      PROVE  RowsRecordedInv'
    BY <1>3 DEF BulkEnter, RowsRecordedInv
<1>4. CASE BulkExit
    <2>1. published' = published /\ \E new : OnCommit(new)
        BY <1>4 DEF BulkExit
    <2> QED
        BY <1>1, <2>1 DEF RowsRecordedInv
<1>5. CASE BulkAbort
    BY <1>5 DEF BulkAbort, RowsRecordedInv
<1>6. ASSUME NEW p \in Packages, NEW S \in SUBSET Entities, NEW kind,
             NEW dependencies \in BOOLEAN, PublishFromDrafts(p, S, kind, dependencies)
      PROVE  RowsRecordedInv'
    <2> DEFINE log == Len(publishLogs) + 1
               all == S \cup IF dependencies THEN DependenciesToPublish(S, kind) ELSE {}
               b == PublishedAfter(S, all, log)
               a == published'
    <2>1. a = CreateSideEffects(versions, b, log, log) /\ \E new : OnCommit(new)
        BY <1>6 DEF PublishFromDrafts
    <2> HIDE DEF all, log
    <2>2. \A e \in Entities : b.rows[e] # NoRow => b.recs[e] # {}
        BY DEF PublishedAfter, RowsRecordedInv, RowsRecorded
    <2> HIDE DEF b, a
    <2>3. WithSideEffects(a, b, log, log, AffectedByLog(versions, b, log))
        BY <2>1, SideEffectsMembers
    <2>4. \A e \in AffectedByLog(versions, b, log) : b.rows[e] # NoRow
        BY AffectedHaveVersions DEF VersionOf
    <2>5. ASSUME NEW e \in Entities, a.rows[e] # NoRow PROVE a.recs[e] # {}
        <3>1. b.recs[e] # {}
            BY <2>2, <2>3, <2>4, <2>5 DEF WithSideEffects
        <3> QED
            BY <2>3, <3>1 DEF WithSideEffects
    <2> QED
        BY <1>1, <2>1, <2>5 DEF RowsRecorded, a
<1>7. CASE UNCHANGED vars
    BY <1>7 DEF vars, RowsRecordedInv
<1> QED
    BY <1>2, <1>3, <1>4, <1>5, <1>6, <1>7, StepsAre

LEMMA RowsRecordedInvariance == Spec => []RowsRecordedInv
<1>1. Init => RowsRecordedInv
    BY DEF Init, Db, RowsRecordedInv, RowsRecorded
<1> QED
    BY <1>1, LogInvariance, NextRowsRecorded, PTL DEF Spec

-----------------------------------------------------------------------------
(* What the queries of the history answer.                                 *)

LEMMA DraftHistoryLeads ==
    ASSUME Histories, DraftedInv, RowsRecordedInv, NEW e \in Entities,
           published.rows[e] # NoRow => Own(CurrentRecord(published, e))
    PROVE  LET h == DraftHistory(e)
           IN  /\ Leads(h, VersionOf(published.rows, e), VersionOf(draft.rows, e))
               /\ published.rows[e] # NoRow => (h = {} <=> ~Unpublished(e))
<1> DEFINE d == draft.recs[e]
           a == VersionOf(published.rows, e)
           b == VersionOf(draft.rows, e)
           n == Len(Sent) + 1
<1>1. Timed(d, n) /\ Leads(d, 0, b) /\ Ends(d, 0, b)
    BY DraftLeads
<1>2. CASE published.rows[e] = NoRow
    BY <1>1, <1>2 DEF DraftHistory, VersionOf
<1>3. CASE published.rows[e] # NoRow
    <2> DEFINE cur == CurrentRecord(published, e)
               lo == Until(e, PublishedAt(cur))
               w == {r \in d : ChangedAt(r) > PublishedAt(cur)}
    <2>1. cur \in published.recs[e] /\ cur.new = a /\ Own(cur)
        BY <1>3, CurrentPublish DEF RowsRecordedInv, RowsRecorded
    <2>2. DraftHistory(e) = SinceReset(w, a)
        BY <1>3 DEF DraftHistory
    <2> HIDE DEF cur
    <2>3. /\ Ends(lo, 0, a) /\ Earlier(lo, d)
          /\ \A q \in d : q \notin lo <=> ChangedAt(q) > PublishedAt(cur)
        BY <2>1, PublishEnds
    <2>4. w = d \ lo
        BY <2>3
    <2>5. Earlier(d, d) /\ lo \subseteq d
        BY DEF Earlier, Until
    <2> HIDE DEF lo, w, d, a, b, n
    <2>6. Leads(w, a, b)
        BY <1>1, <2>3, <2>4, <2>5, Window
    <2>7. Timed(w, n)
        BY <1>1, <2>4 DEF Timed
    <2> DEFINE h == SinceReset(w, a)
    <2>8. /\ Leads(h, a, b)
          /\ h = {} => a = b
          /\ h # {} => a # b
        BY <2>6, <2>7, ResetLeads
    <2> HIDE DEF h
    <2>9. Unpublished(e) <=> a # b
        <3>1. CASE draft.rows[e] = NoRow
            BY <3>1 DEF DraftedInv, DraftedFirst, Db, VersionOf, Unpublished, a, b
        <3>2. CASE draft.rows[e] # NoRow
            BY <3>2 DEF Unpublished, a, b
        <3> QED
            BY <3>1, <3>2
    <2> QED
        BY <2>2, <2>8, <2>9 DEF h, a, b
<1> QED
    BY <1>2, <1>3

\* The records from one publish of an entity to the next one.
LEMMA BetweenPublishes ==
    ASSUME Histories, SnapshotInv, NEW e \in Entities, NEW r \in published.recs[e], Own(r),
           EarlierPublishes(e, r.log) # {} => Own(PublishBefore(e, r.log))
    PROVE  \E w \in SUBSET draft.recs[e] :
                /\ Leads(w, r.old, r.new) /\ Baseline(e, r.log) = r.old
                /\ PublishEntries(e, r.log) = SinceReset(w, r.old)
<1> DEFINE d == draft.recs[e]
           ps == published.recs[e]
           before == EarlierPublishes(e, r.log)
           hi == Until(e, PublishedAt(r))
           b == VersionOf(draft.rows, e)
           n == Len(Sent) + 1
<1>1. Timed(d, n) /\ Leads(d, 0, b)
    BY DraftLeads
<1>2. /\ Ends(hi, 0, r.new) /\ Earlier(hi, d)
      /\ \A q \in d : q \in hi <=> ChangedAt(q) <= PublishedAt(r)
    BY PublishEnds
<1>3. /\ \A q \in ps : q.pk = q.log /\ q.log \in Nat
      /\ \A x, q \in ps : x.log = q.log => x = q
      /\ \A q \in ps : (\A x \in ps : q.pk <= x.pk) => q.old = 0
      /\ \A x, q \in ps : q.pk < x.pk /\ (\A y \in ps : y.pk < x.pk => y.pk <= q.pk)
                            => x.old = q.new
    BY TypeInvTables DEF Histories, SnapshotInv, PublishTables, BranchReplays, Replays,
                         BranchOK, RecordOK
<1>4. RecordIn(ps, r.log) = r
    BY <1>3 DEF RecordIn
<1>5. before = {q \in ps : q.log < r.log}
    BY DEF EarlierPublishes
<1>6. CASE before = {}
    <2>1. \A q \in ps : r.pk <= q.pk
        BY <1>3, <1>5, <1>6
    <2>2. r.old = 0 /\ Baseline(e, r.log) = 0
        BY <1>3, <1>6, <2>1 DEF Baseline
    <2>3. PublishEntries(e, r.log) = SinceReset({q \in d : ChangedAt(q) <= PublishedAt(r)}, 0)
        BY <1>4, <1>6, <2>2 DEF PublishEntries
    <2>4. {q \in d : ChangedAt(q) <= PublishedAt(r)} = hi /\ hi \subseteq d
        BY <1>2 DEF Earlier
    <2>5. Ends({}, 0, 0) /\ Earlier({}, d) /\ {} \subseteq hi /\ hi \ {} = hi
        BY DEF Ends, Earlier
    <2> DEFINE none == {}
    <2> HIDE DEF hi, none, d, b, n
    <2>6. Leads(hi \ none, 0, r.new)
        BY <1>1, <1>2, <2>5, Window DEF none
    <2>7. Leads(hi, 0, r.new)
        BY <2>5, <2>6 DEF none
    <2> QED
        BY <2>2, <2>3, <2>4, <2>7 DEF d
<1>7. CASE before # {}
    <2> DEFINE p == PublishBefore(e, r.log)
               lo == Until(e, PublishedAt(p))
               logs == {q.log : q \in before}
    <2>1. logs # {} /\ logs \subseteq Nat /\ (\A l \in logs : l <= r.log) /\ r.log \in Nat
        BY <1>3, <1>5, <1>7
    <2>2. \E l \in logs : \A m \in logs : m <= l
        <3> HIDE DEF logs
        <3> QED
            BY <2>1, MaxExists
    <2>3. \E q \in before : \A x \in before : x.log <= q.log
        BY <2>2
    <2>4. p \in before /\ \A x \in before : x.log <= p.log
        BY <2>3 DEF PublishBefore
    <2>5. Own(p) /\ Baseline(e, r.log) = p.new
        BY <1>7 DEF Baseline
    <2>6. PublishEntries(e, r.log) =
            SinceReset({q \in d : ChangedAt(q) <= PublishedAt(r) /\ ChangedAt(q) > PublishedAt(p)},
                       p.new)
        BY <1>4, <1>7, <2>5 DEF PublishEntries
    <2> HIDE DEF p, before
    <2>7. p \in ps /\ p.pk < r.pk /\ \A y \in ps : y.pk < r.pk => y.pk <= p.pk
        BY <1>3, <1>5, <2>4
    <2>8. r.old = p.new
        BY <1>3, <2>7
    <2>9. PublishedAt(p) < PublishedAt(r)
        BY <2>7, Times DEF Histories
    <2>10. /\ Ends(lo, 0, p.new) /\ Earlier(lo, d)
           /\ \A q \in d : q \notin lo <=> ChangedAt(q) > PublishedAt(p)
        BY <2>5, <2>7, PublishEnds
    <2>11. lo \subseteq hi
        <3>1. /\ \A q \in d : ChangedAt(q) \in Nat
              /\ PublishedAt(p) \in Nat /\ PublishedAt(r) \in Nat
            BY <1>1, <2>7, Times DEF Timed, Histories
        <3> QED
            BY <2>9, <3>1 DEF Until
    <2>12. {q \in d : ChangedAt(q) <= PublishedAt(r) /\ ChangedAt(q) > PublishedAt(p)} = hi \ lo
        BY <1>2, <2>10 DEF Earlier
    <2>13. hi \ lo \subseteq d
        BY <1>2 DEF Earlier
    <2> HIDE DEF hi, lo, d, b, n
    <2>14. Leads(hi \ lo, p.new, r.new)
        BY <1>1, <1>2, <2>10, <2>11, Window
    <2> QED
        BY <2>5, <2>6, <2>8, <2>12, <2>13, <2>14 DEF d
<1> QED
    BY <1>6, <1>7

LEMMA EntriesExplain ==
    ASSUME Histories, SnapshotInv, NEW e \in Entities, NEW r \in published.recs[e], Own(r),
           EarlierPublishes(e, r.log) # {} => Own(PublishBefore(e, r.log))
    PROVE  /\ Leads(PublishEntries(e, r.log), Baseline(e, r.log), r.new)
           /\ r.new > r.old =>
                \E x \in PublishEntries(e, r.log) \cap ContributorRecords(e, r.old, r.new) :
                    x.new = r.new
<1>1. PICK w \in SUBSET draft.recs[e] :
            /\ Leads(w, r.old, r.new) /\ Baseline(e, r.log) = r.old
            /\ PublishEntries(e, r.log) = SinceReset(w, r.old)
    BY BetweenPublishes
<1> DEFINE h == SinceReset(w, r.old)
           n == Len(Sent) + 1
<1>2. Timed(w, n)
    BY DraftLeads DEF Timed
<1> HIDE DEF n
<1>3. /\ Leads(h, r.old, r.new) /\ h \subseteq w
      /\ h = {} => r.old = r.new
      /\ h # {} => \E x \in h : x.new = r.new
    BY <1>1, <1>2, ResetLeads
<1> HIDE DEF h
<1>4. ASSUME r.new > r.old
      PROVE  \E x \in h \cap ContributorRecords(e, r.old, r.new) : x.new = r.new
    <2>1. r.old \in Nat /\ r.new \in Nat
        BY TypeInvTables DEF Histories, BranchOK, RecordOK
    <2>2. PICK x \in h : x.new = r.new
        BY <1>3, <1>4, <2>1
    <2>3. x \in ContributorRecords(e, r.old, r.new)
        BY <1>3, <1>4, <2>1, <2>2 DEF ContributorRecords
    <2> QED
        BY <2>2, <2>3
<1> QED
    BY <1>1, <1>3, <1>4 DEF h

\* Where contexts of one package are not nested, the draft history of an entity
\* leads from what is published to the draft, and is empty exactly when nothing
\* of the entity is left to publish.
THEOREM DraftHistoryIsRight ==
    ASSUME ~ Reentrant
    PROVE  CSpec => []HistoryLeadsToDraft
<1>1. Histories /\ DraftedInv /\ RowsRecordedInv => HistoryLeadsToDraft
    BY DraftHistoryLeads DEF HistoryLeadsToDraft
<1>2. Spec => [](Histories /\ DraftedInv /\ RowsRecordedInv)
    BY ChronicleInvariance, DraftedInvariance, RowsRecordedInvariance, PTL DEF Histories
<1> QED
    BY <1>1, <1>2, ContainersImplementPublishing, PTL DEF ImplementsPublishing

\* Where contexts of one package are not nested, the edits listed under a
\* publish lead from what was published before to what it published, and its
\* contributors include the author of the last of them.
THEOREM PublishEntriesAreRight ==
    ASSUME ~ Reentrant
    PROVE  CSpec => []PublishEntriesExplainThePublish
<1>1. Histories /\ SnapshotInv => PublishEntriesExplainThePublish
    BY EntriesExplain DEF PublishEntriesExplainThePublish
<1>2. Spec => []Histories
    BY ChronicleInvariance, PTL DEF Histories
<1>3. Spec => []SnapshotInv
    BY LogInvariance, InitSnapshotInv, NextSnapshotInv, PTL DEF Spec
<1> QED
    BY <1>1, <1>2, <1>3, ContainersImplementPublishing, PTL DEF ImplementsPublishing
-----------------------------------------------------------------------------
(* Queries about a package.                                                *)

\* A set of naturals that is not empty has a least element.
LEMMA LeastExists ==
    ASSUME NEW S, S \subseteq Nat, S # {}
    PROVE  \E x \in S : \A y \in S : x <= y
<1> DEFINE R == OpToRel(<, Nat)
<1>1. IsWellFoundedOn(R, Nat)
    BY NatLessThanWellFounded
<1>2. \A x, y \in Nat : y < x => <<y, x>> \in R
    BY DEF OpToRel
<1> HIDE DEF R
<1>3. PICK x \in S : \A y \in S : ~ (<<y, x>> \in R)
    BY <1>1, WFMin
<1>4. ASSUME NEW y \in S PROVE x <= y
    <2>1. ~ (y < x)
        BY <1>2, <1>3
    <2> QED
        BY <2>1
<1> QED
    BY <1>4

\* What ExistingEntries makes of the entries, one by one.
EntriesStep(entries, g, k) ==
    IF k = 0 THEN <<>>
    ELSE IF entries[k].version # 0 THEN Append(g[k - 1], entries[k])
    ELSE g[k - 1]

EntriesUpTo(entries, g, n) == g = [k \in 0..n |-> EntriesStep(entries, g, k)]

\* The recursion over the entries is well founded.
LEMMA EntriesStagesExist ==
    ASSUME NEW entries, NEW n \in Nat
    PROVE  \E g : EntriesUpTo(entries, g, n)
<1> DEFINE Undone == {m \in Nat : ~ \E g : EntriesUpTo(entries, g, m)}
<1>1. ASSUME Undone # {} PROVE FALSE
    <2>1. PICK m \in Undone : \A x \in Undone : m <= x
        BY <1>1, LeastExists
    <2>2. m # 0
        <3> DEFINE first == <<>>
                   g == [k \in 0..0 |-> first]
        <3>1. ASSUME m = 0 PROVE EntriesUpTo(entries, g, m)
            <4>1. \A k \in 0..0 : EntriesStep(entries, g, k) = first
                BY DEF EntriesStep
            <4> HIDE DEF first
            <4>2. g = [k \in 0..0 |-> EntriesStep(entries, g, k)]
                BY <4>1
            <4> QED
                BY <3>1, <4>2 DEF EntriesUpTo
        <3> QED
            BY <3>1
    <2>3. m - 1 \in Nat /\ m - 1 \notin Undone
        BY <2>1, <2>2
    <2>4. PICK g : EntriesUpTo(entries, g, m - 1)
        BY <2>3
    <2> DEFINE next == EntriesStep(entries, g, m)
               h == [k \in 0..m |-> IF k = m THEN next ELSE g[k]]
    <2>5. \A k \in 0..m : k # 0 => k - 1 \in 0..m /\ h[k - 1] = g[k - 1]
        BY <2>3
    <2>6. ASSUME NEW k \in 0..m PROVE h[k] = EntriesStep(entries, h, k)
        <3>1. EntriesStep(entries, h, k) = EntriesStep(entries, g, k)
            <4> HIDE DEF h
            <4> QED
                BY <2>5 DEF EntriesStep
        <3>2. CASE k = m
            BY <3>1, <3>2
        <3>3. CASE k # m
            <4>1. k \in 0..(m - 1)
                BY <2>3, <3>3
            <4>2. g[k] = EntriesStep(entries, g, k)
                BY <2>4, <4>1 DEF EntriesUpTo
            <4> QED
                BY <3>1, <3>3, <4>2
        <3> QED
            BY <3>2, <3>3
    <2>7. h = [k \in 0..m |-> h[k]]
        OBVIOUS
    <2> HIDE DEF h
    <2>8. EntriesUpTo(entries, h, m)
        BY <2>6, <2>7 DEF EntriesUpTo
    <2> QED
        BY <2>1, <2>8
<1> QED
    BY <1>1

\* The positions among the first k of entries that exist.
ExistingTo(entries, k) == {i \in 1..k : entries[i].version # 0}

\* The entries that exist among the first k.
KeptTo(S, entries, list, k) ==
    /\ list \in Seq(S)
    /\ RowsOf(list) = {entries[i] : i \in ExistingTo(entries, k)}
    /\ IsFiniteSet(ExistingTo(entries, k))
    /\ Len(list) = Cardinality(ExistingTo(entries, k))

\* One more entry.
LEMMA EntryKept ==
    ASSUME NEW S, NEW entries \in Seq(S), NEW k \in Nat, k + 1 \in 1..Len(entries),
           NEW list, KeptTo(S, entries, list, k)
    PROVE  KeptTo(S, entries, IF entries[k + 1].version # 0 THEN Append(list, entries[k + 1])
                              ELSE list, k + 1)
<1> DEFINE x == entries[k + 1]
           old == ExistingTo(entries, k)
           new == ExistingTo(entries, k + 1)
<1>1. /\ list \in Seq(S) /\ RowsOf(list) = {entries[i] : i \in old}
      /\ IsFiniteSet(old) /\ Len(list) = Cardinality(old)
    BY DEF KeptTo
<1>2. x \in S /\ k + 1 \notin old
    BY DEF ExistingTo
<1>3. CASE x.version # 0
    <2>1. new = old \cup {k + 1}
        BY <1>3 DEF ExistingTo
    <2> DEFINE more == Append(list, x)
    <2>2. /\ more \in Seq(S) /\ Len(more) = Len(list) + 1
          /\ \A i \in 1..Len(list) : more[i] = list[i]
          /\ more[Len(list) + 1] = x
        BY <1>1, <1>2
    <2>3. RowsOf(more) = RowsOf(list) \cup {x}
        <3>1. DOMAIN more = DOMAIN list \cup {Len(list) + 1} /\ DOMAIN list = 1..Len(list)
            BY <1>1, <2>2
        <3> HIDE DEF more
        <3> QED
            BY <2>2, <3>1 DEF RowsOf
    <2>4. RowsOf(more) = {entries[i] : i \in new}
        BY <1>1, <2>1, <2>3
    <2> HIDE DEF old, new, more
    <2>5. IsFiniteSet(new) /\ Cardinality(new) = Cardinality(old) + 1
        BY <1>1, <1>2, <2>1, FS_AddElement
    <2> QED
        BY <1>1, <1>3, <2>2, <2>4, <2>5 DEF KeptTo, new, more
<1>4. CASE x.version = 0
    <2>1. new = old
        BY <1>4 DEF ExistingTo
    <2> QED
        BY <1>1, <1>4, <2>1 DEF KeptTo
<1> QED
    BY <1>3, <1>4

\* The entries that exist are kept, each as often as it occurs.
LEMMA EntriesThatExist ==
    ASSUME NEW S, NEW entries \in Seq(S)
    PROVE  KeptTo(S, entries, ExistingEntries(entries), Len(entries))
<1> DEFINE n == Len(entries)
           g == CHOOSE upTo : upTo = [k \in 0..n |-> EntriesStep(entries, upTo, k)]
           Wrong == {k \in Nat : k <= n /\ ~ KeptTo(S, entries, g[k], k)}
<1>1. n \in Nat
    OBVIOUS
<1>2. ExistingEntries(entries) = g[n]
    BY DEF ExistingEntries, EntriesStep
<1>3. \E f : EntriesUpTo(entries, f, n)
    BY <1>1, EntriesStagesExist
<1>4. EntriesUpTo(entries, g, n)
    BY <1>3 DEF EntriesUpTo
<1> HIDE DEF g
<1>5. \A k \in 0..n : g[k] = EntriesStep(entries, g, k)
    BY <1>4 DEF EntriesUpTo
<1>6. ASSUME Wrong # {} PROVE FALSE
    <2>1. PICK m \in Wrong : \A x \in Wrong : m <= x
        BY <1>6, LeastExists
    <2>2. m # 0
        <3>1. KeptTo(S, entries, g[0], 0)
            <4> DEFINE none == <<>>
            <4>1. none \in Seq(S) /\ Len(none) = 0 /\ RowsOf(none) = {}
                BY DEF RowsOf
            <4>2. g[0] = none
                BY <1>1, <1>5 DEF EntriesStep
            <4>3. ExistingTo(entries, 0) = {}
                BY DEF ExistingTo
            <4> HIDE DEF none
            <4> QED
                BY <4>1, <4>2, <4>3, FS_EmptySet DEF KeptTo
        <3> QED
            BY <2>1, <3>1
    <2> DEFINE k == m - 1
    <2>3. k \in Nat /\ m = k + 1 /\ m \in 0..n /\ k \notin Wrong /\ k <= n
        BY <1>1, <2>1, <2>2
    <2>4. KeptTo(S, entries, g[k], k)
        BY <2>3
    <2>5. g[m] = IF entries[m].version # 0 THEN Append(g[k], entries[m]) ELSE g[k]
        BY <1>5, <2>2, <2>3 DEF EntriesStep
    <2>6. k + 1 \in 1..Len(entries)
        BY <2>3
    <2> HIDE DEF k
    <2>7. KeptTo(S, entries, g[m], m)
        BY <2>3, <2>4, <2>5, <2>6, EntryKept
    <2> QED
        BY <2>1, <2>7
<1>7. KeptTo(S, entries, g[n], n)
    BY <1>1, <1>6
<1> QED
    BY <1>2, <1>7

\* The entry of a row for a reader that sees the versions cur, and the rows it
\* sees.
EntryOf(r, cur) == [entity |-> r.entity, pinned |-> r.pin # 0,
                    version |-> IF r.pin # 0 THEN r.pin ELSE cur[r.entity]]
Seen(r, cur) == r.pin # 0 \/ cur[r.entity] # 0
SeenIn(list, cur) == {i \in DOMAIN list : Seen(list[i], cur)}

LEMMA EntriesOfList ==
    ASSUME NEW list \in Seq(EntityListRow), NEW cur
    PROVE  /\ \A e : (\E x \in RowsOf(EntriesOf(list, cur)) : x.entity = e)
                        <=> \E r \in RowsOf(list) : r.entity = e /\ Seen(r, cur)
           /\ Len(EntriesOf(list, cur)) = Cardinality(SeenIn(list, cur))
<1> DEFINE S == {EntryOf(r, cur) : r \in EntityListRow}
           entries == [i \in DOMAIN list |-> EntryOf(list[i], cur)]
           read == EntriesOf(list, cur)
<1>1. entries \in Seq(S) /\ Len(entries) = Len(list) /\ DOMAIN list = 1..Len(list)
    OBVIOUS
<1>2. read = ExistingEntries(entries)
    BY DEF EntriesOf, EntryOf
<1>3. ASSUME NEW i \in DOMAIN list
      PROVE  /\ entries[i].version # 0 <=> Seen(list[i], cur)
             /\ entries[i].entity = list[i].entity
    <2>1. entries[i] = EntryOf(list[i], cur)
        OBVIOUS
    <2> DEFINE r == list[i]
    <2> HIDE DEF r, entries
    <2>2. list[i].pin \in Nat
        <3>1. list[i] \in RowsOf(list)
            BY DEF RowsOf
        <3> QED
            BY <3>1, ListedAreEntities
    <2>3. /\ EntryOf(r, cur).version = IF r.pin # 0 THEN r.pin ELSE cur[r.entity]
          /\ EntryOf(r, cur).entity = r.entity
        BY DEF EntryOf
    <2> QED
        BY <2>1, <2>2, <2>3 DEF Seen, r
<1> HIDE DEF S, entries, read
<1>4. KeptTo(S, entries, read, Len(list))
    BY <1>1, <1>2, EntriesThatExist
<1>5. ExistingTo(entries, Len(list)) = SeenIn(list, cur)
    BY <1>1, <1>3 DEF ExistingTo, SeenIn
<1>6. /\ RowsOf(read) = {entries[i] : i \in SeenIn(list, cur)}
      /\ Len(read) = Cardinality(SeenIn(list, cur))
    BY <1>4, <1>5 DEF KeptTo
<1>7. \A i \in SeenIn(list, cur) : i \in DOMAIN list /\ entries[i].entity = list[i].entity
    BY <1>3 DEF SeenIn
<1>8. ASSUME NEW e
      PROVE  (\E x \in RowsOf(read) : x.entity = e)
                <=> \E r \in RowsOf(list) : r.entity = e /\ Seen(r, cur)
    <2>1. (\E x \in RowsOf(read) : x.entity = e) <=> \E i \in SeenIn(list, cur) : list[i].entity = e
        BY <1>6, <1>7
    <2>2. (\E r \in RowsOf(list) : r.entity = e /\ Seen(r, cur))
            <=> \E i \in SeenIn(list, cur) : list[i].entity = e
        BY DEF RowsOf, SeenIn
    <2> QED
        BY <2>1, <2>2
<1> QED
    BY <1>6, <1>8 DEF read

\* What the queries rest on: versions are those of the lists, rows point at
\* versions, and nothing is published that has no draft.
Queried == TypeInv /\ LogInv /\ ListInv /\ DraftedInv

LEMMA UnpublishedAgree ==
    ASSUME Queried
    PROVE  UnpublishedQueriesAgree
<1> SUFFICES ASSUME NEW p \in Packages
             PROVE  LET changes == EntitiesWithUnpublishedChanges(p, TRUE)
                        deletes == EntitiesWithUnpublishedDeletes(p)
                    IN  /\ changes = {e \in InPackage(p) : Unpublished(e)}
                        /\ EntitiesWithUnpublishedChanges(p, FALSE) = changes \ deletes
                        /\ deletes \subseteq changes
    BY DEF UnpublishedQueriesAgree
<1>1. ASSUME NEW e \in InPackage(p), draft.rows[e] = NoRow
      PROVE  VersionOf(draft.rows, e) = 0 /\ VersionOf(published.rows, e) = 0
    BY <1>1 DEF Queried, DraftedInv, DraftedFirst, Db, VersionOf, InPackage
<1>2. \A e \in InPackage(p) : Unpublished(e)
            <=> VersionOf(draft.rows, e) # VersionOf(published.rows, e)
    BY <1>1 DEF Unpublished
<1> QED
    BY <1>2 DEF EntitiesWithUnpublishedChanges, EntitiesWithUnpublishedDeletes

\* The dependencies of what a branch points at, as the lists say.
LEMMA DependenciesAreListed ==
    ASSUME Queried, NEW b \in {draft, published}, NEW c \in Entities
    PROVE  /\ CurrentDependencies(versions, b.rows)[c]
                = IF c \in Containers /\ VersionOf(b.rows, c) # 0
                  THEN UnpinnedChildren(ListOf(b.rows, c)) ELSE {}
           /\ c \in Containers /\ VersionOf(b.rows, c) # 0
                => ListOf(b.rows, c) \in Seq(EntityListRow)
<1> DEFINE v == VersionOf(b.rows, c)
<1>1. versions \in [Entities -> Seq(SUBSET Entities)] /\ v \in 0..Len(versions[c])
    <2>1. BranchOK(b) /\ versions \in [Entities -> Seq(SUBSET Entities)]
        BY TypeInvTables DEF Queried
    <2>2. RowsHaveVersions(versions, b)
        BY LogInvTables DEF Queried
    <2> QED
        BY <2>1, <2>2, VersionInRange
<1>2. CurrentDependencies(versions, b.rows)[c] = IF v = 0 THEN {} ELSE versions[c][v]
    BY DEF CurrentDependencies, DependenciesOf
<1>3. ASSUME v # 0, c \in Containers
      PROVE  /\ versions[c][v] = UnpinnedChildren(lists[c][v])
             /\ lists[c][v] \in Seq(EntityListRow)
    BY <1>1, <1>3 DEF Queried, ListInv, InStep, ListsOf, ListsTyped
<1>4. ASSUME v # 0, c \notin Containers
      PROVE  versions[c][v] = {}
    <2>1. Level[c] = 0
        BY <1>4, LevelsAre DEF Containers
    <2>2. \A d \in versions[c][v] : d \in Entities /\ Level[d] < 0
        BY <1>1, <1>4, <2>1, LogInvTables DEF Queried, OwnDependencies
    <2> QED
        BY <2>2, LevelsAre
<1> QED
    BY <1>2, <1>3, <1>4 DEF ListOf

\* The containers around an entity.
LEMMA LookupIsReverse ==
    ASSUME Queried, NEW b \in {draft, published}, NEW e \in Entities
    PROVE  ContainersWithEntity(b.rows, e, TRUE)
             = AffectedBy(CurrentDependencies(versions, b.rows), {e})
<1> DEFINE deps == CurrentDependencies(versions, b.rows)
<1>1. DOMAIN deps = Entities
    BY DEF CurrentDependencies
<1> HIDE DEF deps
<1>2. \A c \in Entities : e \in deps[c]
            <=> /\ c \in Containers /\ VersionOf(b.rows, c) # 0
                /\ e \in UnpinnedChildren(ListOf(b.rows, c))
    BY DependenciesAreListed DEF deps
<1>3. ASSUME NEW list
      PROVE  e \in UnpinnedChildren(list) <=> \E r \in RowsOf(list) : r.entity = e /\ r.pin = 0
    BY DEF UnpinnedChildren
<1>4. AffectedBy(deps, {e}) = {c \in Entities : e \in deps[c]}
    BY <1>1 DEF AffectedBy
<1>5. ContainersWithEntity(b.rows, e, TRUE)
        = {c \in Containers : VersionOf(b.rows, c) # 0 /\ e \in UnpinnedChildren(ListOf(b.rows, c))}
    BY <1>3 DEF ContainersWithEntity
<1> QED
    BY <1>2, <1>4, <1>5, ContainersAreEntities DEF deps

\* What a reader of the drafts finds in the list of a container.
LEMMA WalkedChildren ==
    ASSUME Queried, NEW c \in Entities
    PROVE  /\ DraftChildren[c] \subseteq Entities
           /\ \A x : x \in DraftChildren[c]
                <=> /\ c \in Containers /\ VersionOf(draft.rows, c) # 0
                    /\ \E r \in RowsOf(ListOf(draft.rows, c)) :
                            r.entity = x /\ (r.pin # 0 \/ VersionOf(draft.rows, x) # 0)
<1> DEFINE cur == [e \in Entities |-> VersionOf(draft.rows, e)]
           list == ListOf(draft.rows, c)
<1>1. CASE c \in Containers /\ VersionOf(draft.rows, c) # 0
    <2>1. list \in Seq(EntityListRow)
        BY <1>1, DependenciesAreListed
    <2>2. DraftChildren[c] = {x.entity : x \in RowsOf(EntriesOf(list, cur))}
        BY <1>1 DEF DraftChildren, EntitiesInContainer
    <2>3. \A e \in Entities : cur[e] = VersionOf(draft.rows, e)
        OBVIOUS
    <2> HIDE DEF cur, list
    <2>4. \A x : x \in DraftChildren[c] <=> \E y \in RowsOf(EntriesOf(list, cur)) : y.entity = x
        BY <2>2
    <2>5. \A x : x \in DraftChildren[c] <=> \E r \in RowsOf(list) : r.entity = x /\ Seen(r, cur)
        <3>1. \A x : (\E y \in RowsOf(EntriesOf(list, cur)) : y.entity = x)
                        <=> \E r \in RowsOf(list) : r.entity = x /\ Seen(r, cur)
            BY <2>1, EntriesOfList, Zenon
        <3> QED
            BY <2>4, <3>1, Zenon
    <2>6. \A r \in RowsOf(list) : r.entity \in Entities
        BY <2>1, ListedAreEntities
    <2>7. DraftChildren[c] \subseteq Entities
        BY <2>5, <2>6
    <2>8. \A x : x \in DraftChildren[c]
            <=> \E r \in RowsOf(list) :
                    r.entity = x /\ (r.pin # 0 \/ VersionOf(draft.rows, x) # 0)
        BY <2>3, <2>5, <2>6 DEF Seen
    <2> QED
        BY <1>1, <2>7, <2>8 DEF list
<1>2. CASE ~ (c \in Containers /\ VersionOf(draft.rows, c) # 0)
    BY <1>2 DEF DraftChildren
<1> QED
    BY <1>1, <1>2

LEMMA WalkTables ==
    ASSUME Queried
    PROVE  /\ DOMAIN DraftChildren = Entities
           /\ \A x \in Entities : DraftChildren[x] \subseteq Entities
    BY WalkedChildren DEF DraftChildren

\* The walk meets no component but in the list of a container.
LEMMA WalkIsListed ==
    ASSUME Queried, NEW c \in Containers, NEW x \in DescendantComponents(c)
    PROVE  \E y \in Containers : x \in RowsOf(ChildrenEntityRefs(y, VersionOf(draft.rows, y)))
<1> DEFINE Listed(e) == \E y \in Containers :
                            e \in RowsOf(ChildrenEntityRefs(y, VersionOf(draft.rows, y)))
           W == {e \in Entities : Listed(e)}
<1>1. ASSUME NEW y \in Entities, NEW e \in DraftChildren[y]
      PROVE  e \in W
    <2>1. y \in Containers /\ e \in Entities
        BY <1>1, WalkedChildren
    <2>2. PICK r \in RowsOf(ListOf(draft.rows, y)) : r.entity = e
        BY <1>1, WalkedChildren
    <2>3. e \in RowsOf(ChildrenEntityRefs(y, VersionOf(draft.rows, y)))
        BY <2>2 DEF RowsOf, ListOf, ChildrenEntityRefs
    <2> QED
        BY <2>1, <2>3
<1>2. c \in Entities
    BY ContainersAreEntities
<1>3. W \in SUBSET Entities
    OBVIOUS
<1> HIDE DEF W
<1>4. \A y \in {c} \cup W : DraftChildren[y] \subseteq W
    BY <1>1, <1>2, <1>3
<1>5. Descendants(DraftChildren, {c}) \subseteq W
    BY <1>3, <1>4, WalkTables, DescendantsLeast
<1> QED
    BY <1>5 DEF DescendantComponents, W

\* The walk finds all that dependencies lead to and that is not deleted.
LEMMA WalkFindsDependencies ==
    ASSUME Queried, NEW c \in Containers,
           NEW d \in Descendants(CurrentDependencies(versions, draft.rows), {c}) \ Containers,
           VersionOf(draft.rows, d) # 0
    PROVE  d \in DescendantComponents(c)
<1> DEFINE deps == CurrentDependencies(versions, draft.rows)
           T == Descendants(DraftChildren, {c})
           W == T \cup {e \in Entities : VersionOf(draft.rows, e) = 0}
<1>1. c \in Entities /\ DOMAIN deps = Entities
    BY ContainersAreEntities DEF CurrentDependencies
<1>2. T \subseteq Entities
    BY WalkTables DEF Descendants
<1>3. ASSUME NEW x \in {c} \cup W, NEW y \in deps[x]
      PROVE  y \in W
    <2>1. x \in Entities
        BY <1>1, <1>2
    <2>2. /\ x \in Containers /\ VersionOf(draft.rows, x) # 0
          /\ y \in UnpinnedChildren(ListOf(draft.rows, x))
          /\ ListOf(draft.rows, x) \in Seq(EntityListRow)
        BY <1>3, <2>1, DependenciesAreListed
    <2>3. y \in Entities
        BY <2>2, ListedAreEntities
    <2>4. CASE VersionOf(draft.rows, y) # 0
        <3>1. \E r \in RowsOf(ListOf(draft.rows, x)) : r.entity = y
            BY <2>2 DEF UnpinnedChildren
        <3>2. y \in DraftChildren[x]
            BY <2>1, <2>2, <2>4, <3>1, WalkedChildren
        <3>3. x \in {c} \/ x \in T
            BY <1>3, <2>2
        <3> DEFINE S == {c}
        <3>4. DraftChildren[x] \subseteq Descendants(DraftChildren, S)
            <4>1. x \in S \/ x \in Descendants(DraftChildren, S)
                BY <3>3
            <4> HIDE DEF S
            <4> QED
                BY <2>1, <4>1, WalkTables, DescendantsClosed
        <3> QED
            BY <3>2, <3>4
    <2> QED
        BY <2>3, <2>4
<1>4. W \in SUBSET Entities
    BY <1>2
<1> HIDE DEF W, deps, T
<1>5. Descendants(deps, {c}) \subseteq W
    BY <1>1, <1>3, <1>4, DescendantsLeast
<1> QED
    BY <1>5 DEF W, deps, T, DescendantComponents

\* The count, the refs and the listing of a container's children.
LEMMA ChildrenCounted ==
    ASSUME Queried, NEW c \in Containers, Readable(draft.rows, c)
    PROVE  LET refs == ChildrenEntityRefs(c, VersionOf(draft.rows, c))
               live == {i \in DOMAIN refs : VersionOf(draft.rows, refs[i]) # 0}
               gone == {r \in RowsOf(ListOf(draft.rows, c)) :
                           r.pin # 0 /\ VersionOf(draft.rows, r.entity) = 0}
           IN  /\ ChildrenCount(draft.rows, c) = Cardinality(live)
               /\ gone = {} => Len(EntitiesInContainer(draft.rows, c)) = Cardinality(live)
<1> DEFINE refs == ChildrenEntityRefs(c, VersionOf(draft.rows, c))
           live == {i \in DOMAIN refs : VersionOf(draft.rows, refs[i]) # 0}
           list == ListOf(draft.rows, c)
           gone == {r \in RowsOf(list) : r.pin # 0 /\ VersionOf(draft.rows, r.entity) = 0}
           cur == [e \in Entities |-> VersionOf(draft.rows, e)]
<1>1. list \in Seq(EntityListRow)
    BY DependenciesAreListed, ContainersAreEntities DEF Readable
<1>2. DOMAIN refs = DOMAIN list /\ \A i \in DOMAIN list : refs[i] = list[i].entity
    BY DEF ListOf, ChildrenEntityRefs
<1>3. live = {i \in DOMAIN list : VersionOf(draft.rows, list[i].entity) # 0}
    BY <1>2
<1>4. ChildrenCount(draft.rows, c) = Cardinality(live)
    BY <1>3 DEF ChildrenCount
<1>5. \A e \in Entities : cur[e] = VersionOf(draft.rows, e)
    OBVIOUS
<1>6. Len(EntitiesInContainer(draft.rows, c)) = Cardinality(SeenIn(list, cur))
    <2> HIDE DEF list, cur
    <2> QED
        BY <1>1, EntriesOfList DEF EntitiesInContainer, list, cur
<1> HIDE DEF cur
<1>7. ASSUME gone = {} PROVE SeenIn(list, cur) = live
    <2>1. ASSUME NEW i \in DOMAIN list
          PROVE  Seen(list[i], cur) <=> VersionOf(draft.rows, list[i].entity) # 0
        <3>1. list[i] \in RowsOf(list)
            BY DEF RowsOf
        <3>2. list[i].entity \in Entities
            BY <1>1, <3>1, ListedAreEntities
        <3> QED
            BY <1>5, <1>7, <3>1, <3>2 DEF Seen
    <2> QED
        BY <1>3, <2>1 DEF SeenIn
<1> QED
    BY <1>4, <1>6, <1>7

\* Where contexts of one package are not nested, queries that ask the same thing
\* in different ways agree: on what is unpublished, on the containers around an
\* entity and on the children and components below a container.
THEOREM QueriesAlwaysAgree ==
    ASSUME ~ Reentrant
    PROVE  CSpec => []QueriesAgree
<1>1. Queried => QueriesAgree
    <2> SUFFICES ASSUME Queried PROVE QueriesAgree
        OBVIOUS
    <2> DEFINE deps == CurrentDependencies(versions, draft.rows)
               Agree(c) ==
                    LET refs == ChildrenEntityRefs(c, VersionOf(draft.rows, c))
                        live == {i \in DOMAIN refs : VersionOf(draft.rows, refs[i]) # 0}
                        gone == {r \in RowsOf(ListOf(draft.rows, c)) :
                                    r.pin # 0 /\ VersionOf(draft.rows, r.entity) = 0}
                    IN  /\ ChildrenCount(draft.rows, c) = Cardinality(live)
                        /\ gone = {} => Len(EntitiesInContainer(draft.rows, c)) = Cardinality(live)
    <2>1. UnpublishedQueriesAgree
        BY UnpublishedAgree
    <2>2. \A b \in Branches, e \in Entities :
            ContainersWithEntity(b.rows, e, TRUE)
                = AffectedBy(CurrentDependencies(versions, b.rows), {e})
        BY LookupIsReverse DEF Branches
    <2>3. ASSUME NEW c \in Containers, Readable(draft.rows, c)
          PROVE  /\ c \in GetContainers(PackageOf[c], FALSE)
                 /\ Agree(c)
                 /\ \A x \in DescendantComponents(c) :
                        \E y \in Containers :
                            x \in RowsOf(ChildrenEntityRefs(y, VersionOf(draft.rows, y)))
                 /\ {d \in Descendants(deps, {c}) \ Containers : VersionOf(draft.rows, d) # 0}
                        \subseteq DescendantComponents(c)
        <3>1. c \in GetContainers(PackageOf[c], FALSE)
            BY <2>3, ContainersAreEntities DEF Readable, GetContainers, InPackage
        <3>2. Agree(c)
            BY <2>3, ChildrenCounted, Zenon
        <3>3. \A x \in DescendantComponents(c) :
                \E y \in Containers : x \in RowsOf(ChildrenEntityRefs(y, VersionOf(draft.rows, y)))
            BY WalkIsListed
        <3>4. {d \in Descendants(deps, {c}) \ Containers : VersionOf(draft.rows, d) # 0}
                \subseteq DescendantComponents(c)
            BY WalkFindsDependencies
        <3> QED
            BY <3>1, <3>2, <3>3, <3>4
    <2> QED
        BY <2>1, <2>2, <2>3, Zenon DEF QueriesAgree
<1>2. CSpec => []ListInv
    BY InitListInv, NextListInv, PTL DEF CSpec
<1>3. Spec => [](TypeInv /\ LogInv /\ DraftedInv)
    BY LogInvariance, DraftedInvariance, PTL
<1> QED
    BY <1>1, <1>2, <1>3, ContainersImplementPublishing, PTL DEF ImplementsPublishing, Queried

-----------------------------------------------------------------------------
(* The migrations.  A draft without records points at none.                *)

PointsAtRecords(b) == \A e \in Entities : b.recs[e] = {} => LogRecordOf(b.rows, e) = 0

PointerInv == PointsAtRecords(draft) /\ PointsAtRecords(committed.draft)

LEMMA SideEffectsPoint ==
    ASSUME NEW vs, NEW b, BranchOK(b), PointsAtRecords(b), NEW log \in Nat, NEW pk,
           NEW a, a = CreateSideEffects(vs, b, log, pk), BranchReplays(a)
    PROVE  PointsAtRecords(a)
<1> SUFFICES ASSUME NEW e \in Entities, a.recs[e] = {}
             PROVE  LogRecordOf(a.rows, e) = 0
    BY DEF PointsAtRecords
<1>1. WithSideEffects(a, b, log, pk, AffectedByLog(vs, b, log))
    BY SideEffectsMembers
<1>2. VersionOf(a.rows, e) = 0
    BY DEF BranchReplays, Replays
<1>3. VersionOf(b.rows, e) = 0
    BY <1>2, SideEffectsKeepRows
<1>4. e \notin AffectedByLog(vs, b, log)
    BY <1>3, AffectedHaveVersions
<1>5. a.rows[e] = b.rows[e] /\ b.recs[e] = {}
    BY <1>1, <1>4 DEF WithSideEffects
<1> QED
    BY <1>5 DEF PointsAtRecords, LogRecordOf

LEMMA SetVersionsPoint ==
    ASSUME PointsAtRecords(draft), NEW target, NEW log, NEW pk
    PROVE  PointsAtRecords(SetVersions(target, log, pk))
<1> DEFINE changing == {e \in DOMAIN target : VersionOf(draft.rows, e) # target[e]}
           added(e) == AddToChangeLog(draft.recs[e], log, pk,
                                      VersionOf(draft.rows, e), target[e])
           recs == [e \in Entities |->
                       IF e \in changing THEN added(e) ELSE draft.recs[e]]
           rows == [e \in Entities |->
                       IF e \in changing
                       THEN [version |-> target[e], rec |-> LogRecordAfter(recs[e], log)]
                       ELSE IF e \in DOMAIN target /\ draft.rows[e] = NoRow
                       THEN [version |-> 0, rec |-> 0]
                       ELSE draft.rows[e]]
           b == SetVersions(target, log, pk)
<1>1. b.rows = rows /\ b.recs = recs
    BY DEF SetVersions
<1> HIDE DEF changing, added, b
<1>2. SUFFICES ASSUME NEW e \in Entities, recs[e] = {}
               PROVE  LogRecordOf(rows, e) = 0
    BY <1>1 DEF PointsAtRecords, b, LogRecordOf
<1>3. CASE e \in changing
    <2>1. LogRecordAfter(recs[e], log) = 0
        BY <1>2 DEF LogRecordAfter, InLog
    <2>2. rows[e].rec = 0
        BY <1>3, <2>1
    <2> QED
        BY <2>2 DEF LogRecordOf
<1>4. CASE e \notin changing
    <2>1. draft.recs[e] = {} /\ LogRecordOf(draft.rows, e) = 0
        BY <1>2, <1>4 DEF PointsAtRecords
    <2>2. rows[e] = draft.rows[e] \/ rows[e] = [version |-> 0, rec |-> 0]
        BY <1>4
    <2> HIDE DEF rows
    <2> QED
        BY <2>1, <2>2 DEF LogRecordOf
<1> QED
    BY <1>3, <1>4

LEMMA OnCommitPointerInv ==
    ASSUME PointerInv, PointsAtRecords(draft'), NEW new, OnCommit(new)
    PROVE  PointerInv'
    BY DEF OnCommit, Db, PointerInv, PointsAtRecords

LEMMA ChangeDraftsPointerInv ==
    ASSUME TypeInv, TypeInv', ReplayInv', PointerInv, NEW p, NEW target,
           IsTarget(target), ChangeDrafts(versions', p, target)
    PROVE  PointerInv'
<1>1. CASE ChangeInContext(p, target)
    <2>1. draft' = SetVersions(target, ActiveLog(p), serial) /\ OnCommit(<<>>)
        BY <1>1 DEF ChangeInContext
    <2> QED
        BY <2>1, SetVersionsPoint, OnCommitPointerInv DEF PointerInv
<1>2. CASE ChangeInOwnLog(versions', p, target)
    <2> DEFINE log == serial + 1
               b == SetVersions(target, log, log)
    <2>1. /\ draft' = CreateSideEffects(versions', b, log, log)
          /\ \E new : OnCommit(new)
        BY <1>2 DEF ChangeInOwnLog
    <2>2. log \in Nat
        BY TypeInvTables
    <2>3. BranchOK(b)
        BY <2>2, TypeInvTables, SetVersionsKeepBranch, PkBoundGrows
    <2>4. BranchReplays(draft')
        BY ReplayInvTables DEF ReplayInv, DbReplays, Db
    <2>5. PointsAtRecords(b)
        BY SetVersionsPoint DEF PointerInv
    <2> HIDE DEF b, log
    <2>6. PointsAtRecords(draft')
        BY <2>1, <2>2, <2>3, <2>4, <2>5, SideEffectsPoint
    <2> QED
        BY <2>1, <2>6, OnCommitPointerInv
<1> QED
    BY <1>1, <1>2 DEF ChangeDrafts

LEMMA NextPointerInv ==
    TypeInv /\ TypeInv' /\ LogInv /\ ReplayInv' /\ PointerInv /\ [Next]_vars => PointerInv'
<1> SUFFICES ASSUME TypeInv, TypeInv', LogInv, ReplayInv', PointerInv, [Next]_vars
             PROVE  PointerInv'
    OBVIOUS
<1>1. ASSUME NEW p \in Packages, NEW target, DraftsChange(p, target)
      PROVE  PointerInv'
    BY <1>1, ChangeDraftsPointerInv DEF DraftsChange, IsTargetOf
<1>2. ASSUME NEW p \in Packages, BulkEnter(p)
      PROVE  PointerInv'
    BY <1>2 DEF BulkEnter, PointerInv
<1>3. CASE BulkExit
    <2> DEFINE l0 == contexts[Len(contexts)]
    <2>1. /\ draft' = CreateSideEffects(versions, draft, l0.id, serial')
          /\ contexts # <<>> /\ \E new : OnCommit(new)
        BY <1>3 DEF BulkExit
    <2>2. l0 \in Log
        BY <2>1, TypeInvTables
    <2> HIDE DEF l0
    <2>3. BranchReplays(draft') /\ l0.id \in Nat
        BY <2>2 DEF ReplayInv, DbReplays, Db, Log
    <2>4. PointsAtRecords(draft')
        BY <2>1, <2>3, SideEffectsPoint, TypeInvTables DEF PointerInv
    <2> QED
        BY <2>1, <2>4, OnCommitPointerInv
<1>4. CASE BulkAbort
    BY <1>4 DEF BulkAbort, PointerInv
<1>5. ASSUME NEW p \in Packages, NEW S \in SUBSET Entities, NEW kind,
             NEW dependencies \in BOOLEAN, PublishFromDrafts(p, S, kind, dependencies)
      PROVE  PointerInv'
    <2>1. draft' = draft /\ \E new : OnCommit(new)
        BY <1>5 DEF PublishFromDrafts
    <2> QED
        BY <2>1, OnCommitPointerInv DEF PointerInv
<1>6. CASE UNCHANGED vars
    BY <1>6 DEF vars, PointerInv
<1> QED
    BY <1>1, <1>2, <1>3, <1>4, <1>5, <1>6, StepsAre

LEMMA InitPointerInv == Init => PointerInv
    BY DEF Init, Db, PointerInv, PointsAtRecords, LogRecordOf

LEMMA PointerInvariance ==
    ASSUME ~ Reentrant
    PROVE  Spec => []PointerInv
    BY ReplayInvariance, InitPointerInv, NextPointerInv, PTL DEF Spec

-----------------------------------------------------------------------------
(* The backfilled digests are the fresh ones.                              *)

\* The current record of e in u, as the migration finds it: of the version
\* that e has in b, and without a digest.
Pending(u, b, e) ==
    LET r == CurrentRecord(u, e)
    IN  /\ r \in u.recs[e] /\ r.log = u.rows[e].rec
        /\ r.new = VersionOf(b.rows, e) /\ r.digest = {}

\* Branch u is what branch b becomes before its digests are computed.
Backfillable(u, b) ==
    \A e \in Entities :
        /\ VersionOf(u.rows, e) = VersionOf(b.rows, e)
        /\ VersionOf(b.rows, e) # 0 => Pending(u, b, e)
        /\ \A r, q \in u.recs[e] : r.log = q.log => r = q

\* Digests that are those of b for the live entities below level n.
AgreeLive(digests, b, n) ==
    \A e \in Entities : VersionOf(b.rows, e) # 0 /\ Level[e] < n =>
        digests[e] = LastDigests(b, <<>>)[e]

\* The state of an entity, from the digests of what is lower.
LEMMA StateIsFresh ==
    ASSUME TypeInv, LogInv, NEW b, DigestTables(b), NEW u, Backfillable(u, b),
           NEW e \in Entities, VersionOf(b.rows, e) # 0,
           NEW digests, AgreeLive(digests, b, Level[e])
    PROVE  DependencyState(versions, u, digests, e, VersionOf(b.rows, e))
            = LastDigests(b, <<>>)[e]
<1> DEFINE ver == VersionsIn(b)
           dig == LastDigests(b, <<>>)
           deps == DependenciesOf(versions, e, VersionOf(b.rows, e))
           live == LiveDependencies(versions, u.rows, e, VersionOf(b.rows, e))
<1>1. FreshVersion(versions, ver, dig, e)
    BY DEF DigestTables, FreshBranch, Fresh
<1>2. \A x \in Entities : ver[x] = VersionOf(b.rows, x)
    BY DEF VersionsIn
<1>3. \A x \in Entities : VersionOf(b.rows, x) # 0 /\ Level[x] < Level[e] => digests[x] = dig[x]
    BY DEF AgreeLive
<1> HIDE DEF ver, dig
<1>4. \A d \in deps : d \in Entities /\ Level[d] < Level[e]
    BY <1>1, <1>2, DependenciesAre, TypeInvTables, LogInvTables DEF FreshVersion
<1>5. dig[e] = {<<d, ver[d], dig[d]>> : d \in {x \in deps : ver[x] # 0}}
    BY <1>1, <1>2 DEF FreshVersion, FreshAt
<1>6. live = {x \in deps : VersionOf(u.rows, x) # 0}
    BY DEF LiveDependencies
<1> HIDE DEF deps
<1>7. {x \in deps : ver[x] # 0} = live
    BY <1>2, <1>4, <1>6 DEF Backfillable
<1>8. \A d \in live : ver[d] = CurrentRecord(u, d).new /\ dig[d] = digests[d]
    BY <1>2, <1>3, <1>4, <1>6 DEF Backfillable, Pending
<1>9. DependencyState(versions, u, digests, e, VersionOf(b.rows, e))
        = {<<d, CurrentRecord(u, d).new, digests[d]>> : d \in live}
    BY DEF DependencyState
<1> HIDE DEF live
<1>10. dig[e] = {<<d, CurrentRecord(u, d).new, digests[d]>> : d \in live}
    BY <1>5, <1>7, <1>8
<1> QED
    BY <1>9, <1>10 DEF dig

\* Each unfolding of the recursion is right one level higher.
LEMMA RehashAllAgrees ==
    ASSUME TypeInv, LogInv, NEW b, DigestTables(b), NEW u, Backfillable(u, b),
           NEW digests, NEW n \in Nat, AgreeLive(digests, b, n)
    PROVE  AgreeLive(RehashAll(versions, u, digests), b, n + 1)
<1> SUFFICES ASSUME NEW e \in Entities, VersionOf(b.rows, e) # 0, Level[e] < n + 1
             PROVE  RehashAll(versions, u, digests)[e] = LastDigests(b, <<>>)[e]
    BY DEF AgreeLive
<1>1. RehashAll(versions, u, digests)[e]
        = DependencyState(versions, u, digests, e, CurrentRecord(u, e).new)
    BY DEF RehashAll, Backfillable
<1>2. CurrentRecord(u, e).new = VersionOf(b.rows, e)
    BY DEF Backfillable, Pending
<1>3. AgreeLive(digests, b, Level[e])
    BY LevelsAre DEF AgreeLive
<1>4. DependencyState(versions, u, digests, e, VersionOf(b.rows, e)) = LastDigests(b, <<>>)[e]
    BY <1>3, StateIsFresh
<1> QED
    BY <1>1, <1>2, <1>4

\* Four unfoldings reach every level.
LEMMA BackfilledAgree ==
    ASSUME TypeInv, LogInv, NEW b, DigestTables(b), NEW u, Backfillable(u, b)
    PROVE  AgreeLive(BackfilledDigests(versions, u), b, 4)
<1> DEFINE d0 == [e \in Entities |-> {}]
           d1 == RehashAll(versions, u, d0)
           d2 == RehashAll(versions, u, d1)
           d3 == RehashAll(versions, u, d2)
           d4 == RehashAll(versions, u, d3)
<1>0. BackfilledDigests(versions, u) = d4
    BY DEF BackfilledDigests
<1>1. AgreeLive(d0, b, 0)
    BY LevelsAre DEF AgreeLive
<1> HIDE DEF d0
<1>2. AgreeLive(d1, b, 0 + 1)
    BY <1>1, RehashAllAgrees
<1> HIDE DEF d1
<1>3. AgreeLive(d2, b, 1 + 1)
    BY <1>2, RehashAllAgrees
<1> HIDE DEF d2
<1>4. AgreeLive(d3, b, 2 + 1)
    BY <1>3, RehashAllAgrees
<1> HIDE DEF d3
<1>5. AgreeLive(d4, b, 3 + 1)
    BY <1>4, RehashAllAgrees
<1> QED
    BY <1>0, <1>5

\* Branch m is u with other digests in the records of some logs.
WithDigests(m, u, e) ==
    /\ m.rows = u.rows
    /\ \A x \in m.recs[e] : \E r \in u.recs[e] : SameRecord(x, r)
    /\ \A r \in u.recs[e] : \E x \in m.recs[e] :
        /\ SameRecord(x, r)
        /\ x.digest = IF r.log \in LogsToBackfill(u)
                      THEN DependencyState(versions, u, BackfilledDigests(versions, u), e, r.new)
                      ELSE r.digest
    /\ (\A r, q \in u.recs[e] : r.log = q.log => r = q)
        => \A x, y \in m.recs[e] : x.log = y.log => x = y

LEMMA BackfilledRecords ==
    ASSUME NEW u, NEW e \in Entities
    PROVE  WithDigests(BackfillDigests(versions, u), u, e)
<1> DEFINE m == BackfillDigests(versions, u)
           state(r) == DependencyState(versions, u, BackfilledDigests(versions, u), e, r.new)
           done(r) == IF r.log \in LogsToBackfill(u)
                      THEN Record(r.pk, r.log, r.old, r.new, r.direct, state(r)) ELSE r
<1>1. m.rows = u.rows /\ m.recs[e] = {done(r) : r \in u.recs[e]}
    BY DEF BackfillDigests
<1> HIDE DEF m, state
<1>2. \A r : /\ SameRecord(done(r), r)
             /\ done(r).digest = IF r.log \in LogsToBackfill(u) THEN state(r) ELSE r.digest
    BY DEF Record, SameRecord
<1> HIDE DEF done
<1>3. ASSUME \A r, q \in u.recs[e] : r.log = q.log => r = q
      PROVE  \A x, y \in m.recs[e] : x.log = y.log => x = y
    BY <1>1, <1>2, <1>3 DEF SameRecord
<1>4. ASSUME NEW r \in u.recs[e]
      PROVE  \E x \in m.recs[e] :
                /\ SameRecord(x, r)
                /\ x.digest = IF r.log \in LogsToBackfill(u) THEN state(r) ELSE r.digest
    BY <1>1, <1>2
<1>5. \A x \in m.recs[e] : \E r \in u.recs[e] : SameRecord(x, r)
    BY <1>1, <1>2
<1> QED
    BY <1>1, <1>3, <1>4, <1>5 DEF WithDigests, m, state

\* The records of one log are one.
LEMMA RecordInIs ==
    ASSUME NEW recs, \A r, q \in recs : r.log = q.log => r = q, NEW r \in recs
    PROVE  RecordIn(recs, r.log) = r
BY DEF RecordIn

\* A component has no dependencies.
LEMMA ComponentState ==
    ASSUME TypeInv, LogInv, NEW b, DigestTables(b), NEW e \in Entities \ Containers,
           VersionOf(b.rows, e) # 0
    PROVE  LastDigests(b, <<>>)[e] = {}
<1> DEFINE ver == VersionsIn(b)
           dig == LastDigests(b, <<>>)
<1>1. FreshVersion(versions, ver, dig, e) /\ ver[e] = VersionOf(b.rows, e)
    BY DEF DigestTables, FreshBranch, Fresh, VersionsIn
<1> HIDE DEF ver, dig
<1>2. Level[e] = 0
    BY LevelsAre DEF Containers
<1>3. DependenciesOf(versions, e, ver[e]) = {}
    <2>1. \A d \in DependenciesOf(versions, e, ver[e]) : d \in Entities /\ Level[d] < Level[e]
        BY <1>1, DependenciesAre, TypeInvTables, LogInvTables DEF FreshVersion
    <2> QED
        BY <1>2, <2>1, LevelsAre
<1> QED
    BY <1>1, <1>3 DEF FreshVersion, FreshAt, dig

LEMMA BackfillRestores ==
    ASSUME TypeInv, LogInv, NEW b, DigestTables(b), NEW u, Backfillable(u, b)
    PROVE  SameDigests(b, BackfillDigests(versions, u))
<1> DEFINE m == BackfillDigests(versions, u)
           digests == BackfilledDigests(versions, u)
<1> SUFFICES ASSUME NEW e \in Entities, VersionOf(b.rows, e) # 0
             PROVE  CurrentRecord(m, e).digest = CurrentRecord(b, e).digest
    BY DEF SameDigests
<1> DEFINE r == CurrentRecord(u, e)
<1>1. /\ r \in u.recs[e] /\ r.log = u.rows[e].rec
      /\ r.new = VersionOf(b.rows, e) /\ r.digest = {} /\ VersionOf(u.rows, e) # 0
      /\ \A x, y \in u.recs[e] : x.log = y.log => x = y
    BY DEF Backfillable, Pending
<1> HIDE DEF r
<1>2. WithDigests(m, u, e)
    BY BackfilledRecords
<1> HIDE DEF m
<1>3. PICK x \in m.recs[e] :
            /\ SameRecord(x, r)
            /\ x.digest = IF r.log \in LogsToBackfill(u)
                          THEN DependencyState(versions, u, digests, e, r.new) ELSE r.digest
    BY <1>1, <1>2 DEF WithDigests
<1>4. CurrentRecord(m, e) = x
    <2>1. x.log = m.rows[e].rec
        BY <1>1, <1>2, <1>3 DEF SameRecord, WithDigests
    <2>2. \A y, z \in m.recs[e] : y.log = z.log => y = z
        BY <1>1, <1>2 DEF WithDigests
    <2>3. RecordIn(m.recs[e], x.log) = x
        BY <1>3, <2>2, RecordInIs
    <2> QED
        BY <2>1, <2>3 DEF CurrentRecord
<1>5. AgreeLive(digests, b, Level[e])
    BY BackfilledAgree, LevelsAre DEF AgreeLive
<1>6. DependencyState(versions, u, digests, e, VersionOf(b.rows, e)) = LastDigests(b, <<>>)[e]
    BY <1>5, StateIsFresh
<1>7. CASE r.log \in LogsToBackfill(u)
    BY <1>1, <1>3, <1>4, <1>6, <1>7, CurrentDigest
<1>8. CASE r.log \notin LogsToBackfill(u)
    <2>1. e \in Entities \ Containers
        BY <1>1, <1>8 DEF LogsToBackfill
    <2>2. LastDigests(b, <<>>)[e] = {}
        BY <2>1, ComponentState
    <2>3. x.digest = {}
        BY <1>1, <1>3, <1>8
    <2> QED
        BY <1>4, <2>2, <2>3, CurrentDigest
<1> QED
    BY <1>7, <1>8

-----------------------------------------------------------------------------
(* Taking the backfill out and running it again.                           *)

\* The dependencies derived from the lists are those of the versions.
LEMMA CreatedAreVersions ==
    ASSUME TypeInv, LogInv, ListInv, NoPinsToMigrate
    PROVE  CreatedDependencies = versions
<1>1. ASSUME NEW e \in Entities, NEW n \in DOMAIN versions[e]
      PROVE  versions[e][n] = IF e \in Containers
                              THEN {r.entity : r \in RowsOf(lists[e][n])} ELSE {}
    <2>1. n \in 1..Len(versions[e]) /\ versions[e][n] \subseteq Entities
        BY TypeInvTables
    <2>2. CASE e \in Containers
        <3>1. /\ versions[e][n] = UnpinnedChildren(lists[e][n])
              /\ n \in DOMAIN lists[e]
            BY <2>1, <2>2 DEF ListInv, InStep, ListsOf, ListsTyped
        <3>2. \A r \in RowsOf(lists[e][n]) : r.entity \in versions[e][n]
            BY <2>2, <3>1 DEF NoPinsToMigrate
        <3>3. versions[e][n] \subseteq {r.entity : r \in RowsOf(lists[e][n])}
            BY <3>1 DEF UnpinnedChildren
        <3> QED
            BY <2>2, <3>2, <3>3
    <2>3. CASE e \notin Containers
        <3>1. Level[e] = 0
            BY <2>3, LevelsAre DEF Containers
        <3>2. \A d \in versions[e][n] : d \in Entities /\ Level[d] < Level[e]
            BY <2>1, LogInvTables DEF OwnDependencies
        <3>3. versions[e][n] = {}
            BY <3>1, <3>2, LevelsAre
        <3> QED
            BY <2>3, <3>3
    <2> QED
        BY <2>2, <2>3
<1>2. \A e \in Entities : versions[e] = [n \in DOMAIN versions[e] |-> versions[e][n]]
    BY TypeInvTables
<1>3. versions = [e \in Entities |-> versions[e]]
    BY TypeInvTables
<1>4. \A e \in Entities : CreatedDependencies[e] = [n \in DOMAIN versions[e] |-> versions[e][n]]
    BY <1>1 DEF CreatedDependencies
<1>5. CreatedDependencies = [e \in Entities |-> CreatedDependencies[e]]
    BY DEF CreatedDependencies
<1> QED
    BY <1>2, <1>3, <1>4, <1>5

\* Branch u is branch b without digests.
WithoutDigests(u, b) ==
    /\ u.rows = b.rows
    /\ \A e \in Entities :
        u.recs[e] = {Record(r.pk, r.log, r.old, r.new, r.direct, {}) : r \in b.recs[e]}

LEMMA WithoutDigestsBackfillable ==
    ASSUME NEW b, DigestTables(b), NEW u, WithoutDigests(u, b)
    PROVE  Backfillable(u, b)
<1> SUFFICES ASSUME NEW e \in Entities
             PROVE  /\ VersionOf(b.rows, e) # 0 => Pending(u, b, e)
                    /\ \A r, q \in u.recs[e] : r.log = q.log => r = q
    BY DEF Backfillable, WithoutDigests
<1>1. \A r, q \in b.recs[e] : r.log = q.log => r = q
    BY DEF DigestTables, BranchReplays, Replays
<1>2. \A x \in u.recs[e] : \E r \in b.recs[e] :
        x = Record(r.pk, r.log, r.old, r.new, r.direct, {})
    BY DEF WithoutDigests
<1>3. ASSUME NEW x \in u.recs[e], NEW y \in u.recs[e], x.log = y.log
      PROVE  x = y
    <2>1. PICK r \in b.recs[e] : x = Record(r.pk, r.log, r.old, r.new, r.direct, {})
        BY <1>2
    <2>2. PICK q \in b.recs[e] : y = Record(q.pk, q.log, q.old, q.new, q.direct, {})
        BY <1>2
    <2>3. r.log = x.log /\ q.log = y.log
        BY <2>1, <2>2 DEF Record
    <2>4. r = q
        BY <1>1, <1>3, <2>3
    <2> QED
        BY <2>1, <2>2, <2>4
<1>4. ASSUME VersionOf(b.rows, e) # 0
      PROVE  Pending(u, b, e)
    <2> DEFINE r == CurrentRecord(b, e)
               x == Record(r.pk, r.log, r.old, r.new, r.direct, {})
    <2>1. r \in b.recs[e] /\ r.log = LogRecordOf(b.rows, e) /\ r.new = VersionOf(b.rows, e)
        BY <1>4, LiveHasLast DEF DigestTables
    <2>2. x.log = r.log /\ x.new = r.new /\ x.digest = {}
        BY DEF Record
    <2>3. x \in u.recs[e]
        BY <2>1 DEF WithoutDigests
    <2>4. b.rows[e].rec = x.log /\ u.rows = b.rows
        BY <1>4, <2>1, <2>2 DEF LogRecordOf, VersionOf, WithoutDigests
    <2> HIDE DEF x, r
    <2>5. RecordIn(u.recs[e], x.log) = x
        BY <1>3, <2>3, RecordInIs
    <2>6. CurrentRecord(u, e) = x
        BY <2>4, <2>5 DEF CurrentRecord
    <2> QED
        BY <2>1, <2>2, <2>3, <2>4, <2>6 DEF Pending
<1> QED
    BY <1>3, <1>4

\* 0010 points every draft at the record it pointed at before.
LEMMA UpdateDraftsRestores ==
    ASSUME NEW b, DigestTables(b), PointsAtRecords(b)
    PROVE  WithoutDigests(UpdateDrafts(WithoutBackfill(b, "draft")), b)
<1> DEFINE bare == WithoutBackfill(b, "draft")
           u == UpdateDrafts(bare)
<1>1. \A e \in Entities :
        /\ bare.recs[e] = {Record(r.pk, r.log, r.old, r.new, r.direct, {}) : r \in b.recs[e]}
        /\ bare.rows[e] = IF b.rows[e] = NoRow THEN NoRow
                          ELSE [version |-> b.rows[e].version, rec |-> 0]
    BY DEF WithoutBackfill
<1> HIDE DEF bare
<1>2. u.recs = bare.recs
    BY DEF UpdateDrafts
<1>3. ASSUME NEW e \in Entities
      PROVE  u.rows[e] = b.rows[e]
    <2>1. u.rows[e] =
            IF bare.rows[e] = NoRow \/ bare.recs[e] = {} THEN bare.rows[e]
            ELSE [version |-> bare.rows[e].version,
                  rec |-> (CHOOSE r \in bare.recs[e] :
                                \A q \in bare.recs[e] : q.pk <= r.pk).log]
        BY DEF UpdateDrafts
    <2>2. b.rows[e] # NoRow => b.rows[e] = [version |-> b.rows[e].version, rec |-> b.rows[e].rec]
        BY DEF DigestTables, BranchOK, Row
    <2>3. CASE b.rows[e] = NoRow
        BY <1>1, <2>1, <2>3
    <2>4. CASE b.rows[e] # NoRow /\ b.recs[e] = {}
        <3>1. b.rows[e].rec = 0
            BY <2>4 DEF PointsAtRecords, LogRecordOf
        <3>2. bare.recs[e] = {}
            BY <1>1, <2>4
        <3> QED
            BY <1>1, <2>1, <2>2, <2>4, <3>1, <3>2
    <2>5. CASE b.rows[e] # NoRow /\ b.recs[e] # {}
        <3> DEFINE r == CurrentRecord(b, e)
                   x == Record(r.pk, r.log, r.old, r.new, r.direct, {})
                   top == CHOOSE y \in bare.recs[e] : \A q \in bare.recs[e] : q.pk <= y.pk
        <3>1. /\ r \in b.recs[e] /\ \A q \in b.recs[e] : q.pk <= r.pk
              /\ r.log = LogRecordOf(b.rows, e)
            BY <2>5, CurrentIsLast DEF DigestTables
        <3>2. \A q \in b.recs[e] : q.pk \in Nat
            BY DEF DigestTables, BranchOK, RecordOK
        <3>3. \A q, y \in b.recs[e] : q.pk = y.pk => q = y
            BY DEF DigestTables, BranchReplays, Replays
        <3>4. x.pk = r.pk /\ x.log = r.log /\ x \in bare.recs[e]
            BY <1>1, <3>1 DEF Record
        <3> HIDE DEF r
        <3>5. ASSUME NEW y \in bare.recs[e]
              PROVE  \E q \in b.recs[e] :
                        y.pk = q.pk /\ y = Record(q.pk, q.log, q.old, q.new, q.direct, {})
            <4>1. PICK q \in b.recs[e] : y = Record(q.pk, q.log, q.old, q.new, q.direct, {})
                <5>1. bare.recs[e] = {Record(q.pk, q.log, q.old, q.new, q.direct, {}) :
                                        q \in b.recs[e]}
                    BY <1>1
                <5> QED
                    BY <3>5, <5>1, Zenon
            <4>2. y.pk = q.pk
                BY <4>1 DEF Record
            <4> QED
                BY <4>1, <4>2
        <3> HIDE DEF x
        <3>6. \A q \in bare.recs[e] : q.pk <= x.pk
            BY <3>1, <3>4, <3>5
        <3>7. ASSUME NEW y \in bare.recs[e], \A q \in bare.recs[e] : q.pk <= y.pk
              PROVE  y = x
            <4>1. PICK q \in b.recs[e] :
                    y.pk = q.pk /\ y = Record(q.pk, q.log, q.old, q.new, q.direct, {})
                BY <3>5
            <4>2. q.pk <= r.pk /\ r.pk <= q.pk /\ q.pk \in Nat /\ r.pk \in Nat
                BY <3>1, <3>2, <3>4, <3>7, <4>1
            <4>3. q = r
                BY <3>1, <3>3, <4>2
            <4> QED
                BY <4>1, <4>3 DEF x
        <3>8. top = x
            BY <3>4, <3>6, <3>7
        <3>9. bare.rows[e].version = b.rows[e].version /\ bare.rows[e] # NoRow
            <4>1. [version |-> b.rows[e].version, rec |-> 0] \in Row
                BY <2>5 DEF DigestTables, BranchOK, Row
            <4> QED
                BY <1>1, <2>5, <4>1, ConstantsAssumption
        <3>10. x.log = b.rows[e].rec
            BY <2>5, <3>1, <3>4 DEF LogRecordOf
        <3> QED
            BY <2>1, <2>2, <2>5, <3>4, <3>8, <3>9, <3>10
    <2> QED
        BY <2>3, <2>4, <2>5
<1>4. u.rows = b.rows
    <2>1. u.rows = [e \in Entities |-> u.rows[e]]
        BY DEF UpdateDrafts
    <2>2. b.rows = [e \in Entities |-> b.rows[e]]
        BY DEF DigestTables, BranchOK
    <2> HIDE DEF u
    <2> QED
        BY <1>3, <2>1, <2>2
<1> HIDE DEF u
<1> QED
    BY <1>1, <1>2, <1>4 DEF WithoutDigests, u, bare

LEMMA UpgradeInvariance ==
    ASSUME ~ Reentrant
    PROVE  CSpec => [](TypeInv /\ LogInv /\ ReplayInv /\ DigestInv /\ PointerInv /\ ListInv)
<1>1. CSpec => []ListInv
    BY InitListInv, NextListInv, PTL DEF CSpec
<1>2. CSpec => [](TypeInv /\ LogInv /\ ReplayInv /\ DigestInv /\ PointerInv)
    BY ContainersImplementPublishing, DigestInvariance, PointerInvariance, PTL
    DEF ImplementsPublishing
<1> QED
    BY <1>1, <1>2, PTL

\* Where contexts of one package are not nested, taking the dependencies and
\* digests out of a database and running migration 0010 on it derives the same
\* dependencies from the entity lists, makes every draft point at the record
\* it pointed at, and gives every live entity the digest that
\* set_draft_version, publish_from_drafts and their side effects had left.
THEOREM BackfillIsRight ==
    ASSUME ~ Reentrant
    PROVE  CSpec => []BackfillRestoresDigests
<1>1. TypeInv /\ LogInv /\ ReplayInv /\ DigestInv /\ PointerInv /\ ListInv
        => BackfillRestoresDigests
    <2> SUFFICES ASSUME TypeInv, LogInv, ReplayInv, DigestInv, PointerInv, ListInv,
                        Quiescent, NoPinsToMigrate
                 PROVE  BackfillRestoresDigests
        BY DEF BackfillRestoresDigests
    <2> DEFINE u == UpdateDrafts(WithoutBackfill(draft, "draft"))
               w == WithoutBackfill(published, "published")
    <2>1. CreatedDependencies = versions
        BY CreatedAreVersions
    <2>2. DigestTables(draft) /\ DigestTables(published)
        BY DigestInvTables
    <2>3. WithoutDigests(u, draft)
        BY <2>2, UpdateDraftsRestores DEF PointerInv
    <2>4. WithoutDigests(w, published)
        BY DEF WithoutDigests, WithoutBackfill
    <2>5. /\ CreateBackfill(WithoutBackfill(draft, "draft"), "draft")
                = BackfillDigests(versions, u)
          /\ CreateBackfill(w, "published") = BackfillDigests(versions, w)
        BY <2>1 DEF CreateBackfill
    <2> HIDE DEF u
    <2>6. SameDigests(draft, BackfillDigests(versions, u))
        BY <2>2, <2>3, WithoutDigestsBackfillable, BackfillRestores
    <2>7. BackfillDigests(versions, u).rows = draft.rows
        BY <2>3 DEF BackfillDigests, WithoutDigests
    <2>8. SameDigests(published, BackfillDigests(versions, w))
        BY <2>2, <2>4, WithoutDigestsBackfillable, BackfillRestores
    <2> QED
        BY <2>1, <2>5, <2>6, <2>7, <2>8 DEF BackfillRestoresDigests
<1> QED
    BY <1>1, UpgradeInvariance, PTL

-----------------------------------------------------------------------------
(* A history made up from the versions.                                    *)

\* 0007 numbers the records of an entity upwards.
LEMMA LogForGrows ==
    ASSUME NEW e \in Entities
    PROVE  /\ \A n \in Nat \ {0} : LogFor(e, n) \in Nat
           /\ \A m, n \in Nat \ {0} : m < n => LogFor(e, m) < LogFor(e, n)
<1> DEFINE C == Cardinality(Entities)
           OneToOne(f) == \A c, d \in Entities : f[c] = f[d] => c = d
<1>1. C \in Nat /\ ExistsBijection(1..C, Entities)
    BY ContentUpgradeAssumption, FS_CardinalityType
<1>2. ExistsBijection(Entities, 1..C)
    BY <1>1, Fun_ExistsBijSymmetric
<1>3. \E f \in [Entities -> 1..C] : OneToOne(f)
    <2>1. PICK f : f \in Injection(Entities, 1..C)
        BY <1>2 DEF ExistsBijection, Bijection
    <2>2. f \in [Entities -> 1..C] /\ IsInjective(f)
        BY <2>1 DEF Injection
    <2> QED
        BY <2>2 DEF IsInjective
<1>4. Position \in [Entities -> 1..C]
    BY <1>3 DEF Position
<1>5. Position[e] \in 1..C /\ C \in Nat
    BY <1>1, <1>4
<1> HIDE DEF C
<1>6. \A n \in Nat \ {0} : LogFor(e, n) = (n - 1) * C + Position[e]
    BY DEF LogFor, C
<1>7. ASSUME NEW m \in Nat \ {0}, NEW n \in Nat \ {0}, m < n
      PROVE  (m - 1) * C + Position[e] < (n - 1) * C + Position[e]
    <2> DEFINE k == n - m - 1
    <2>1. k \in Nat /\ n - 1 = (m - 1) + (k + 1)
        BY <1>7
    <2>2. (n - 1) * C = (m - 1) * C + k * C + C
        BY <1>5, <2>1
    <2>3. k * C \in Nat /\ (m - 1) * C \in Nat
        BY <1>5, <2>1
    <2> HIDE DEF k
    <2> QED
        BY <1>5, <2>2, <2>3
<1>8. ASSUME NEW n \in Nat \ {0}
      PROVE  (n - 1) * C + Position[e] \in Nat
    <2>1. (n - 1) * C \in Nat
        BY <1>5
    <2> QED
        BY <1>5, <2>1
<1> QED
    BY <1>6, <1>7, <1>8

\* The n-th record that 0007 writes for e, and how many it writes.
BootRecord(rows, e, n) ==
    Record(LogFor(e, n), LogFor(e, n), n - 1,
           IF n = Len(versions[e]) + 1 THEN VersionOf(rows, e) ELSE n, FALSE, {})
LastBoot(rows, e) ==
    IF VersionOf(rows, e) = Len(versions[e]) THEN Len(versions[e]) ELSE Len(versions[e]) + 1

\* A draft at one of its versions, at none only if it has none.
Drafted(rows, e) ==
    /\ Len(versions[e]) \in Nat /\ VersionOf(rows, e) \in 0..Len(versions[e])
    /\ rows[e] = NoRow => Len(versions[e]) = 0

LEMMA BootRecords ==
    ASSUME NEW rows, NEW e \in Entities, Drafted(rows, e)
    PROVE  BootstrapDraftChangeLogs(rows).recs[e]
            = {BootRecord(rows, e, n) : n \in 1..LastBoot(rows, e)}
<1> DEFINE last == Len(versions[e])
           now == VersionOf(rows, e)
           log == LogFor(e, last + 1)
           made(n) == Record(LogFor(e, n), LogFor(e, n), n - 1, n, FALSE, {})
           extra == Record(log, log, last, now, FALSE, {})
           recs == BootstrapDraftChangeLogs(rows).recs[e]
<1>1. recs = {made(n) : n \in 1..last}
                \cup IF rows[e] = NoRow \/ now = last THEN {} ELSE {extra}
    BY DEF BootstrapDraftChangeLogs
<1>2. last \in Nat /\ now \in 0..last /\ (rows[e] = NoRow => now = last)
    BY DEF Drafted, VersionOf
<1>3. ASSUME NEW n \in 1..last
      PROVE  BootRecord(rows, e, n) = made(n)
    <2>1. n # Len(versions[e]) + 1
        BY <1>2
    <2> QED
        BY <2>1 DEF BootRecord
<1>4. BootRecord(rows, e, last + 1) = extra
    BY <1>2 DEF BootRecord
<1>5. LastBoot(rows, e) = IF now = last THEN last ELSE last + 1
    BY DEF LastBoot
<1> HIDE DEF recs, made, extra, last, now
<1>6. CASE now = last
    BY <1>1, <1>2, <1>3, <1>5, <1>6 DEF recs
<1>7. CASE now # last
    <2>1. 1..(last + 1) = 1..last \cup {last + 1}
        BY <1>2
    <2> QED
        BY <1>1, <1>2, <1>3, <1>4, <1>5, <1>7, <2>1 DEF recs
<1> QED
    BY <1>6, <1>7

\* What each of these records says.
LEMMA BootRecordIs ==
    ASSUME NEW rows, NEW e \in Entities, Drafted(rows, e), NEW n \in 1..LastBoot(rows, e)
    PROVE  LET r == BootRecord(rows, e, n)
           IN  /\ r.pk = LogFor(e, n) /\ r.log = LogFor(e, n) /\ r.digest = {}
               /\ r.old = n - 1
               /\ r.new = IF n = LastBoot(rows, e) THEN VersionOf(rows, e) ELSE n
               /\ LogFor(e, n) \in Nat
<1>1. n \in Nat \ {0} /\ Len(versions[e]) \in Nat
    BY DEF LastBoot, Drafted
<1>2. LogFor(e, n) \in Nat
    BY <1>1, LogForGrows
<1>3. (IF n = Len(versions[e]) + 1 THEN VersionOf(rows, e) ELSE n)
        = IF n = LastBoot(rows, e) THEN VersionOf(rows, e) ELSE n
    BY <1>1 DEF LastBoot, Drafted
<1> QED
    BY <1>2, <1>3 DEF BootRecord, Record

\* Records that lead, each from the version of another before it, to now.
LeadTo(recs, now) ==
    /\ recs = {} => now = 0
    /\ \A r \in recs :
        /\ (\A q \in recs : q.pk <= r.pk) => r.new = now
        /\ r.old # 0 => \E q \in recs : q.pk < r.pk /\ q.new = r.old

\* The records of 0007 have a last one, which leads to the draft.
LastRecordIs(recs, rows, e) ==
    LET last == LastBoot(rows, e)
        top  == BootRecord(rows, e, last)
    IN  /\ \A r, q \in recs : r.log = q.log => r = q
        /\ recs = {} => VersionOf(rows, e) = 0
        /\ recs # {} =>
            /\ top \in recs /\ top.new = VersionOf(rows, e) /\ top.digest = {}
            /\ \A r \in recs : r.pk <= top.pk
            /\ \A r \in recs : (\A q \in recs : q.pk <= r.pk) => r = top

LEMMA BootHasLast ==
    ASSUME NEW rows, NEW e \in Entities, Drafted(rows, e), NEW recs,
           recs = {BootRecord(rows, e, n) : n \in 1..LastBoot(rows, e)}
    PROVE  LastRecordIs(recs, rows, e)
<1> DEFINE last == LastBoot(rows, e)
           rec(n) == BootRecord(rows, e, n)
<1>1. last \in Nat /\ (last = 0 => VersionOf(rows, e) = 0)
    BY DEF LastBoot, Drafted
<1>2. \A n \in 1..last :
        /\ rec(n).pk = LogFor(e, n) /\ rec(n).log = LogFor(e, n) /\ rec(n).digest = {}
        /\ rec(n).new = IF n = last THEN VersionOf(rows, e) ELSE n
        /\ LogFor(e, n) \in Nat
    BY BootRecordIs
<1>3. \A m, n \in 1..last : m < n => LogFor(e, m) < LogFor(e, n)
    BY <1>1, LogForGrows
<1> HIDE DEF last, rec
<1>4. \A m, n \in 1..last : LogFor(e, m) = LogFor(e, n) => m = n
    BY <1>1, <1>2, <1>3
<1>5. recs = {rec(n) : n \in 1..last}
    BY DEF rec, last
<1>6. \A r, q \in recs : r.log = q.log => r = q
    BY <1>2, <1>4, <1>5
<1>7. recs = {} => VersionOf(rows, e) = 0
    BY <1>1, <1>5
<1>8. ASSUME recs # {}
      PROVE  /\ last \in 1..last /\ rec(last) \in recs
             /\ rec(last).new = VersionOf(rows, e) /\ rec(last).digest = {}
    BY <1>1, <1>2, <1>5, <1>8
<1>9. ASSUME NEW r \in recs
      PROVE  r.pk <= rec(last).pk
    <2>1. PICK n \in 1..last : r = rec(n)
        BY <1>5
    <2>2. n = last \/ n < last
        BY <1>1
    <2> QED
        BY <1>1, <1>2, <1>3, <2>1, <2>2
<1>10. ASSUME NEW r \in recs, \A q \in recs : q.pk <= r.pk
       PROVE  r = rec(last)
    <2>1. PICK n \in 1..last : r = rec(n)
        BY <1>5
    <2>2. LogFor(e, last) <= LogFor(e, n)
        BY <1>2, <1>8, <1>10, <2>1
    <2>3. ~ n < last
        BY <1>2, <1>3, <1>8, <2>2
    <2> QED
        BY <1>1, <2>1, <2>3
<1> QED
    BY <1>6, <1>7, <1>8, <1>9, <1>10 DEF LastRecordIs, last, rec

LEMMA BootLeads ==
    ASSUME NEW rows, NEW e \in Entities, Drafted(rows, e), NEW recs,
           recs = {BootRecord(rows, e, n) : n \in 1..LastBoot(rows, e)}
    PROVE  LeadTo(recs, VersionOf(rows, e))
<1>1. LastRecordIs(recs, rows, e)
    BY BootHasLast
<1>2. ASSUME NEW r \in recs, r.old # 0
      PROVE  \E q \in recs : q.pk < r.pk /\ q.new = r.old
    <2>1. PICK n \in 1..LastBoot(rows, e) : r = BootRecord(rows, e, n)
        OBVIOUS
    <2>2. LastBoot(rows, e) \in Nat
        BY DEF LastBoot, Drafted
    <2>3. r.pk = LogFor(e, n) /\ r.old = n - 1
        BY <2>1, BootRecordIs
    <2>4. n - 1 \in 1..LastBoot(rows, e) /\ n - 1 # LastBoot(rows, e)
        BY <1>2, <2>2, <2>3
    <2> DEFINE m == n - 1
               q == BootRecord(rows, e, m)
    <2>5. q \in recs /\ m < n /\ m \in Nat \ {0} /\ n \in Nat \ {0}
        BY <2>4
    <2>6. q.pk = LogFor(e, m) /\ q.new = m
        BY <2>4, BootRecordIs
    <2>7. LogFor(e, m) < LogFor(e, n)
        BY <2>5, LogForGrows
    <2> HIDE DEF q, m
    <2> QED
        BY <2>3, <2>5, <2>6, <2>7 DEF m
<1> QED
    BY <1>1, <1>2 DEF LeadTo, LastRecordIs

\* Other digests do not change where the records lead.
LEMMA DigestsLeadAlike ==
    ASSUME NEW m, NEW u, NEW e, WithDigests(m, u, e), NEW now, LeadTo(u.recs[e], now)
    PROVE  LeadTo(m.recs[e], now)
<1> DEFINE recs == u.recs[e]
           copies == m.recs[e]
<1>1. \A x \in copies : \E r \in recs :
        x.pk = r.pk /\ x.old = r.old /\ x.new = r.new
    BY DEF WithDigests, SameRecord
<1>2. \A r \in recs : \E x \in copies :
        x.pk = r.pk /\ x.old = r.old /\ x.new = r.new
    BY DEF WithDigests, SameRecord
<1> HIDE DEF recs, copies
<1>3. copies = {} => now = 0
    BY <1>2 DEF LeadTo, recs
<1>4. ASSUME NEW x \in copies
      PROVE  /\ (\A y \in copies : y.pk <= x.pk) => x.new = now
             /\ x.old # 0 => \E y \in copies : y.pk < x.pk /\ y.new = x.old
    <2>1. PICK r \in recs : x.pk = r.pk /\ x.old = r.old /\ x.new = r.new
        BY <1>1
    <2>2. ASSUME \A y \in copies : y.pk <= x.pk
          PROVE  x.new = now
        <3>1. \A q \in recs : q.pk <= r.pk
            BY <1>2, <2>1, <2>2
        <3> QED
            BY <2>1, <3>1 DEF LeadTo, recs
    <2>3. ASSUME x.old # 0
          PROVE  \E y \in copies : y.pk < x.pk /\ y.new = x.old
        <3>1. PICK q \in recs : q.pk < r.pk /\ q.new = r.old
            BY <2>1, <2>3 DEF LeadTo, recs
        <3> QED
            BY <1>2, <2>1, <3>1
    <2> QED
        BY <2>2, <2>3
<1> QED
    BY <1>3, <1>4 DEF LeadTo, copies

\* 0010 finds every draft at the last of these records.
LEMMA BootBackfillable ==
    ASSUME NEW b, BranchOK(b), \A e \in Entities : Drafted(b.rows, e),
           NEW u, u = UpdateDrafts(BootstrapDraftChangeLogs(b.rows))
    PROVE  /\ Backfillable(u, b)
           /\ \A e \in Entities : LeadTo(u.recs[e], VersionOf(b.rows, e))
<1> DEFINE boot == BootstrapDraftChangeLogs(b.rows)
<1>1. /\ u.recs = boot.recs
      /\ \A e \in Entities : u.rows[e] =
            IF boot.rows[e] = NoRow \/ boot.recs[e] = {} THEN boot.rows[e]
            ELSE [version |-> boot.rows[e].version,
                  rec |-> (CHOOSE r \in boot.recs[e] :
                                \A q \in boot.recs[e] : q.pk <= r.pk).log]
    BY DEF UpdateDrafts
<1>2. boot.rows = b.rows
    BY DEF BootstrapDraftChangeLogs
<1>3. \A e \in Entities :
        boot.recs[e] = {BootRecord(b.rows, e, n) : n \in 1..LastBoot(b.rows, e)}
    BY BootRecords
<1> HIDE DEF boot
<1> SUFFICES ASSUME NEW e \in Entities
             PROVE  /\ VersionOf(u.rows, e) = VersionOf(b.rows, e)
                    /\ VersionOf(b.rows, e) # 0 => Pending(u, b, e)
                    /\ \A r, q \in u.recs[e] : r.log = q.log => r = q
                    /\ LeadTo(u.recs[e], VersionOf(b.rows, e))
    BY DEF Backfillable
<1> DEFINE recs == boot.recs[e]
           top == BootRecord(b.rows, e, LastBoot(b.rows, e))
           now == VersionOf(b.rows, e)
<1>4. LastRecordIs(recs, b.rows, e) /\ LeadTo(recs, now)
    BY <1>3, BootHasLast, BootLeads
<1>5. /\ \A r, q \in recs : r.log = q.log => r = q
      /\ recs = {} => now = 0
      /\ recs # {} =>
            /\ top \in recs /\ top.new = now /\ top.digest = {}
            /\ \A r \in recs : r.pk <= top.pk
            /\ \A r \in recs : (\A q \in recs : q.pk <= r.pk) => r = top
    BY <1>4 DEF LastRecordIs
<1>6. recs # {} => top.log \in Nat
    <2>1. SUFFICES ASSUME recs # {}
                   PROVE  top.log \in Nat
        OBVIOUS
    <2>2. LastBoot(b.rows, e) \in 1..LastBoot(b.rows, e)
        BY <1>3, <2>1 DEF LastBoot, Drafted
    <2> QED
        BY <2>2, BootRecordIs
<1>7. u.rows[e] = IF b.rows[e] = NoRow \/ recs = {} THEN b.rows[e]
                  ELSE [version |-> b.rows[e].version,
                        rec |-> (CHOOSE r \in recs : \A q \in recs : q.pk <= r.pk).log]
    BY <1>1, <1>2
<1>8. u.recs[e] = recs
    BY <1>1
<1> HIDE DEF recs, top
<1>9. recs # {} => (CHOOSE r \in recs : \A q \in recs : q.pk <= r.pk) = top
    BY <1>5
<1>10. b.rows[e] # NoRow /\ recs # {} =>
            /\ u.rows[e] = [version |-> b.rows[e].version, rec |-> top.log]
            /\ b.rows[e].version \in Nat
    BY <1>7, <1>9 DEF BranchOK, Row
<1>11. VersionOf(u.rows, e) = now
    <2>1. CASE b.rows[e] # NoRow /\ recs # {}
        <3>1. VersionOf(u.rows, e) = b.rows[e].version
            BY <1>6, <1>10, <2>1, RowValues
        <3> QED
            BY <2>1, <3>1 DEF VersionOf
    <2>2. CASE b.rows[e] = NoRow \/ recs = {}
        BY <1>7, <2>2 DEF VersionOf
    <2> QED
        BY <2>1, <2>2
<1>12. ASSUME now # 0
       PROVE  Pending(u, b, e)
    <2>1. b.rows[e] # NoRow /\ recs # {}
        BY <1>5, <1>12 DEF VersionOf
    <2>2. u.rows[e].rec = top.log
        BY <1>10, <2>1
    <2>3. CurrentRecord(u, e) = top
        BY <1>5, <1>8, <2>1, <2>2, RecordInIs DEF CurrentRecord
    <2> QED
        BY <1>5, <1>8, <2>1, <2>2, <2>3 DEF Pending
<1> QED
    BY <1>4, <1>5, <1>8, <1>11, <1>12

\* Where contexts of one package are not nested, running migrations 0007 and
\* 0010 on a database without any draft log gives every draft a history that
\* starts from nothing, leads from each version to the next and ends at the
\* version the draft is at, and gives every live entity the digest that its
\* real history led to, although neither its order nor its logs survive.
THEOREM BootstrapIsRight ==
    ASSUME ~ Reentrant
    PROVE  CSpec => []BootstrapExplainsDrafts
<1>1. TypeInv /\ LogInv /\ ReplayInv /\ DigestInv /\ ListInv /\ DraftedInv
        => BootstrapExplainsDrafts
    <2> SUFFICES ASSUME TypeInv, LogInv, ReplayInv, DigestInv, ListInv, DraftedInv,
                        Quiescent, NoPinsToMigrate
                 PROVE  BootstrapExplainsDrafts
        BY DEF BootstrapExplainsDrafts
    <2> DEFINE u == UpdateDrafts(BootstrapDraftChangeLogs(draft.rows))
               m == BackfillDigests(versions, u)
    <2>1. CreateBackfill(BootstrapDraftChangeLogs(draft.rows), "draft") = m
        BY CreatedAreVersions DEF CreateBackfill
    <2>2. DigestTables(draft)
        BY DigestInvTables
    <2>3. \A e \in Entities : Drafted(draft.rows, e)
        <3>1. \A e \in Entities : /\ Len(versions[e]) \in Nat
                                  /\ draft.rows[e] = NoRow => versions[e] = <<>>
            BY TypeInvTables DEF DraftedInv, DraftedFirst, Db
        <3>2. \A e \in Entities : VersionOf(draft.rows, e) \in 0..Len(versions[e])
            BY TypeInvTables, LogInvTables, VersionInRange
        <3> QED
            BY <3>1, <3>2 DEF Drafted
    <2> HIDE DEF u
    <2>4. /\ Backfillable(u, draft)
          /\ \A e \in Entities : LeadTo(u.recs[e], VersionOf(draft.rows, e))
        BY <2>3, BootBackfillable, TypeInvTables DEF u
    <2>5. SameDigests(draft, m)
        BY <2>2, <2>4, BackfillRestores
    <2>6. \A e \in Entities : WithDigests(m, u, e)
        BY BackfilledRecords
    <2> HIDE DEF m
    <2>7. \A e \in Entities : LeadTo(m.recs[e], VersionOf(draft.rows, e))
        BY <2>4, <2>6, DigestsLeadAlike
    <2> QED
        BY <2>1, <2>5, <2>7 DEF BootstrapExplainsDrafts, LeadTo
<1>2. CSpec => []DraftedInv
    BY ContainersImplementPublishing, DraftedInvariance, PTL DEF ImplementsPublishing
<1> QED
    BY <1>1, <1>2, UpgradeInvariance, PTL
================================================================================
