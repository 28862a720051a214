---------------------------- MODULE Backup_proofs ----------------------------
(***************************************************************************)
(* Theorems about backups, for any packages, contents and archives, and    *)
(* however editing, dumping, damage and loading overlap: what a dump that  *)
(* was not disturbed wrote can be loaded, the package that is made from a  *)
(* whole archive is the one that was dumped, and one that is made from any *)
(* other archive has nothing in it that the dumped one had not.            *)
(***************************************************************************)
EXTENDS Backup, SequenceTheorems, FiniteSetTheorems, WellFoundedInduction, TLAPS

-----------------------------------------------------------------------------
(* Numbers and loops                                                       *)

\* Some least element is in every set of naturals that has any.
LEMMA LeastNatural ==
    ASSUME NEW S, S \subseteq Nat, S # {}
    PROVE  \E x \in S : \A y \in S : x <= y
<1>1. PICK x \in S : \A y \in S : ~ (<<y, x>> \in OpToRel(<, Nat))
  BY NatLessThanWellFounded, WFMin
<1>2. \A y \in S : ~ (y < x)
  BY <1>1 DEF OpToRel
<1> QED  BY <1>2

\* A bounded set of naturals that is not empty has a greatest element.
LEMMA MaxOfBounded ==
    ASSUME NEW S, S \subseteq Nat, S # {}, NEW b \in Nat, \A k \in S : k <= b
    PROVE  Max(S) \in S /\ \A k \in S : k <= Max(S)
<1> DEFINE B == {c \in Nat : \A k \in S : k <= c}
<1>1. PICK c \in B : \A d \in B : c <= d
  <2>1. B \subseteq Nat /\ B # {}  OBVIOUS
  <2> HIDE DEF B
  <2> QED  BY <2>1, LeastNatural
<1>2. c \in S
  <2>1. SUFFICES ASSUME c \notin S PROVE FALSE  OBVIOUS
  <2>2. PICK k \in S : TRUE  OBVIOUS
  <2>3. c # 0  BY <1>1, <2>1, <2>2
  <2>4. c - 1 \in B  BY <1>1, <2>1, <2>3
  <2> QED  BY <1>1, <2>4
<1>3. \A k \in S : k <= c /\ c >= k  BY <1>1
<1> QED  BY <1>2, <1>3 DEF Max

\* What holds at first, and after a round if before it, holds all the way.
LEMMA RoundByRound ==
    ASSUME NEW n \in Nat, NEW S, 0 \in S, \A k \in 1 .. n : k - 1 \in S => k \in S
    PROVE  0 .. n \subseteq S
<1> DEFINE T == (0 .. n) \ S
<1>1. ASSUME T # {} PROVE FALSE
  <2>1. T \subseteq Nat  OBVIOUS
  <2>2. PICK k \in T : \A j \in T : k <= j  BY <1>1, <2>1, LeastNatural
  <2>3. k \in 1 .. n /\ k - 1 \in 0 .. n  BY <2>2
  <2>4. k - 1 \in S  BY <2>2, <2>3
  <2> QED  BY <2>2, <2>3, <2>4
<1> QED  BY <1>1

\* One round of the loop of _resolve_children.
Resolve(e, child, there, found) ==
    IF child \in there /\ LevelOf(child) = LevelBelow[KindOf[e]]
    THEN Append(found, [entity |-> child, pin |-> 0]) ELSE found

\* What the loop has found after each of the first m rounds.
FoundBy(e, children, there, g, m) ==
    g = [k \in 0 .. m |-> IF k = 0 THEN << >>
                          ELSE IF k \in DOMAIN children
                          THEN Resolve(e, children[k], there, g[k - 1])
                          ELSE g[k - 1]]

\* The function of the rounds exists, ...
LEMMA LoopExists ==
    ASSUME NEW e, NEW children, NEW there, NEW n \in Nat
    PROVE  \E g : FoundBy(e, children, there, g, n)
<1> DEFINE S == {m \in Nat : \E g : FoundBy(e, children, there, g, m)}
<1>1. 0 \in S
  <2> DEFINE g == [k \in 0 .. 0 |-> << >>]
  <2>1. FoundBy(e, children, there, g, 0)
    <3> DEFINE h == [k \in 0 .. 0 |-> IF k = 0 THEN << >>
                          ELSE IF k \in DOMAIN children
                          THEN Resolve(e, children[k], there, g[k - 1])
                          ELSE g[k - 1]]
    <3>1. \A k \in 0 .. 0 : k = 0  OBVIOUS
    <3>2. h = [k \in 0 .. 0 |-> << >>]  BY <3>1
    <3> QED  BY <3>2 DEF FoundBy
  <2> QED  BY <2>1
<1>2. ASSUME NEW m \in 1 .. n, m - 1 \in S PROVE m \in S
  <2>1. PICK g : FoundBy(e, children, there, g, m - 1)  BY <1>2
  <2> DEFINE last == IF m \in DOMAIN children THEN Resolve(e, children[m], there, g[m - 1])
                     ELSE g[m - 1]
             h == [k \in 0 .. m |-> IF k = m THEN last ELSE g[k]]
             step(f, k) == IF k = 0 THEN << >>
                           ELSE IF k \in DOMAIN children
                                THEN Resolve(e, children[k], there, f[k - 1])
                                ELSE f[k - 1]
  <2>2. g = [k \in 0 .. m - 1 |-> step(g, k)]  BY <2>1 DEF FoundBy
  <2>3. \A k \in 0 .. m - 1 : g[k] = step(g, k)
    <3> HIDE DEF step
    <3> QED  BY <2>2
  <2>4. m # 0 /\ m \in Nat  OBVIOUS
  <2>5. \A k \in 0 .. m : k # 0 => k - 1 \in 0 .. m - 1 /\ h[k - 1] = g[k - 1]  BY <2>4
  <2>6. ASSUME NEW k \in 0 .. m PROVE h[k] = step(h, k)
    <3>1. step(h, k) = step(g, k)
      <4> HIDE DEF h
      <4> QED  BY <2>5
    <3>2. CASE k = m
      <4>1. h[m] = last  BY <2>4
      <4>2. step(g, m) = last  BY <2>4
      <4> QED  BY <3>1, <3>2, <4>1, <4>2
    <3>3. CASE k # m
      <4>1. k \in 0 .. m - 1 /\ h[k] = g[k]  BY <2>4, <3>3
      <4> QED  BY <2>3, <3>1, <4>1
    <3> QED  BY <3>2, <3>3
  <2>7. h = [k \in 0 .. m |-> h[k]]  OBVIOUS
  <2> HIDE DEF h
  <2>8. h = [k \in 0 .. m |-> step(h, k)]
    <3> HIDE DEF step
    <3> QED  BY <2>6, <2>7
  <2>9. FoundBy(e, children, there, h, m)  BY <2>8 DEF FoundBy
  <2> QED  BY <2>4, <2>9
<1>3. n \in S
  <2> HIDE DEF S
  <2>1. 0 .. n \subseteq S  BY <1>1, <1>2, RoundByRound
  <2> QED  BY <2>1
<1> QED  BY <1>3

\* ... and it is what ForEach runs through.
LEMMA LoopRuns ==
    ASSUME NEW e, NEW children, NEW there, NEW n \in Nat, DOMAIN children = 1 .. n
    PROVE  \E g : /\ g[0] = << >>
                  /\ \A k \in 1 .. n : g[k] = Resolve(e, children[k], there, g[k - 1])
                  /\ ResolveChildren(e, children, there) = g[n]
<1>1. LastOf(DOMAIN children) = n
  <2> DEFINE S == (1 .. n) \cup {0}
  <2>1. S \subseteq Nat /\ S # {} /\ (\A k \in S : k <= n) /\ n \in S  OBVIOUS
  <2> HIDE DEF S
  <2>2. Max(S) \in S /\ \A k \in S : k <= Max(S)  BY <2>1, MaxOfBounded
  <2>3. PICK m : m = Max(S)  OBVIOUS
  <2>4. m \in Nat /\ m <= n /\ n <= m  BY <2>1, <2>2, <2>3
  <2>5. Max(S) = n  BY <2>3, <2>4
  <2> QED  BY <2>5 DEF LastOf, S
<1> DEFINE IsRun(g) == g = [k \in 0 .. LastOf(DOMAIN children) |->
                               IF k = 0 THEN << >>
                               ELSE IF k \in DOMAIN children
                                    THEN Resolve(e, children[k], there, g[k - 1])
                                    ELSE g[k - 1]]
           after == CHOOSE g : IsRun(g)
<1>2. ResolveChildren(e, children, there) = after[LastOf(DOMAIN children)]
  BY DEF ResolveChildren, ForEach, Resolve
<1>3. IsRun(after)
  <2>1. PICK g : FoundBy(e, children, there, g, n)  BY LoopExists
  <2>2. IsRun(g)  BY <1>1, <2>1 DEF FoundBy
  <2> HIDE DEF IsRun
  <2> QED  BY <2>2
<1> HIDE DEF after
<1>4. /\ after[0] = << >>
      /\ \A k \in 1 .. n : after[k] = Resolve(e, children[k], there, after[k - 1])
  BY <1>1, <1>3
<1> QED  BY <1>1, <1>2, <1>4

-----------------------------------------------------------------------------
(* What authors make                                                       *)

Content == [entities : [Entities -> EntityRow \cup {None}],
            collections : [Codes -> CollectionRow \cup {None}]]

\* A row whose versions authors made.
AuthoredRow(e, row) ==
    /\ row \in EntityRow
    /\ \A n \in DOMAIN row.versions : row.versions[n] \in Contents[e]

AuthoredRows(content) ==
    \A e \in Entities : content.entities[e] # None => AuthoredRow(e, content.entities[e])

Authored(content) ==
    /\ content \in Content
    /\ AuthoredRows(content)
    /\ WellFormed(content)

\* What a row of an entity is made of.
LEMMA RowShape ==
    ASSUME NEW row \in EntityRow
    PROVE  /\ row # None
           /\ DOMAIN row.versions \subseteq 1 .. MaxVersion
           /\ row.versions = [n \in DOMAIN row.versions |-> row.versions[n]]
           /\ \A n \in DOMAIN row.versions : row.versions[n] \in (SUBSET File) \cup Seq(Child)
           /\ row.draft \in 0 .. MaxVersion /\ row.published \in 0 .. MaxVersion
           /\ VersionNumbers(row) \subseteq 1 .. MaxVersion
<1>1. row # None  BY BackupAssumption
<1>2. /\ row.versions \in Histories
      /\ row.draft \in 0 .. MaxVersion /\ row.published \in 0 .. MaxVersion
  BY DEF EntityRow
<1>3. PICK numbers \in SUBSET (1 .. MaxVersion) :
             row.versions \in [numbers -> (SUBSET File) \cup Seq(Child)]
  BY <1>2 DEF Histories
<1>4. VersionNumbers(row) \subseteq 1 .. MaxVersion
  <2>1. MaxVersion \in Nat  BY BackupAssumption
  <2>2. \A n \in 0 .. MaxVersion : n # 0 => n \in 1 .. MaxVersion  BY <2>1
  <2> QED  BY <1>2, <2>2 DEF VersionNumbers
<1> QED  BY <1>1, <1>2, <1>3, <1>4

\* Numbered versions are a history, ...
LEMMA HistoryIs ==
    ASSUME NEW h, DOMAIN h \subseteq 1 .. MaxVersion, h = [n \in DOMAIN h |-> h[n]],
           \A n \in DOMAIN h : h[n] \in (SUBSET File) \cup Seq(Child)
    PROVE  h \in Histories
<1>1. h \in [DOMAIN h -> (SUBSET File) \cup Seq(Child)]  OBVIOUS
<1> QED  BY <1>1 DEF Histories

\* What a version of an entity may hold.
LEMMA ContentsHeld ==
    ASSUME NEW e \in Entities, NEW content \in Contents[e]
    PROVE  content \in (SUBSET File) \cup Seq(Child)
BY BackupAssumption

\* One version more.
LEMMA HistoryGrows ==
    ASSUME NEW row \in EntityRow, NEW n \in 1 .. MaxVersion,
           NEW content \in (SUBSET File) \cup Seq(Child),
           NEW h, h = With(row.versions, n, content)
    PROVE  /\ h \in Histories
           /\ DOMAIN h = DOMAIN row.versions \cup {n}
           /\ \A m \in DOMAIN h : h[m] = IF m = n THEN content ELSE row.versions[m]
<1>1. /\ DOMAIN row.versions \subseteq 1 .. MaxVersion
      /\ \A m \in DOMAIN row.versions : row.versions[m] \in (SUBSET File) \cup Seq(Child)
  BY RowShape
<1>2. /\ h = [m \in DOMAIN row.versions \cup {n} |-> h[m]]
      /\ DOMAIN h = DOMAIN row.versions \cup {n}
      /\ \A m \in DOMAIN h : h[m] = IF m = n THEN content ELSE row.versions[m]
  BY DEF With
<1>3. /\ DOMAIN h \subseteq 1 .. MaxVersion /\ h = [m \in DOMAIN h |-> h[m]]
      /\ \A m \in DOMAIN h : h[m] \in (SUBSET File) \cup Seq(Child)
  BY <1>1, <1>2
<1>4. h \in Histories  BY <1>3, HistoryIs
<1> QED  BY <1>2, <1>4

\* ... none at all is, too.
LEMMA NoHistory == << >> \in Histories /\ DOMAIN << >> = {}
<1>1. DOMAIN << >> = {}  OBVIOUS
<1>2. << >> = [n \in {} |-> {}]  OBVIOUS
<1>3. << >> \in [{} -> (SUBSET File) \cup Seq(Child)]  BY <1>2
<1>4. {} \in SUBSET (1 .. MaxVersion)  OBVIOUS
<1> QED  BY <1>1, <1>3, <1>4 DEF Histories

\* What create_publishable_entity makes.
LEMMA NewRow ==
    ASSUME NEW e
    PROVE  AuthoredRow(e, NewEntity) /\ VersionNumbers(NewEntity) = {} /\ NewEntity # None
<1>1. NewEntity \in EntityRow
  <2>1. MaxVersion \in Nat  BY BackupAssumption
  <2>2. 0 \in 0 .. MaxVersion  BY <2>1
  <2>3. << >> \in Histories  BY NoHistory
  <2> QED  BY <2>2, <2>3 DEF NewEntity, EntityRow
<1>2. DOMAIN NewEntity.versions = {}  BY NoHistory DEF NewEntity
<1>3. VersionNumbers(NewEntity) = {}  BY DEF NewEntity, VersionNumbers
<1> QED  BY <1>1, <1>2, <1>3, BackupAssumption DEF AuthoredRow

\* What WellFormed says of one row.
RowOK(e, row, there) ==
    /\ VersionNumbers(row) \subseteq DOMAIN row.versions
    /\ Container(e) => \A n \in DOMAIN row.versions : \A i \in DOMAIN row.versions[n] :
           row.versions[n][i].entity \in there

There(content) == {e \in Entities : content.entities[e] # None}

\* WellFormed, row by row.
LEMMA WellFormedIs ==
    ASSUME NEW content
    PROVE  WellFormed(content) <=>
               /\ \A e \in There(content) : RowOK(e, content.entities[e], There(content))
               /\ \A c \in Codes : content.collections[c] # None =>
                     content.collections[c].entities \subseteq There(content)
BY DEF WellFormed, RowOK, There

\* A row that is written over, or a new one.
LEMMA RowWritten ==
    ASSUME NEW content, Authored(content), NEW e \in Entities, NEW row, AuthoredRow(e, row),
           RowOK(e, row, There(content) \cup {e})
    PROVE  Authored([content EXCEPT !.entities[e] = row])
<1> DEFINE after == [content EXCEPT !.entities[e] = row]
<1>1. /\ content \in Content /\ row \in EntityRow /\ row # None
      /\ content.entities \in [Entities -> EntityRow \cup {None}]
      /\ content.collections \in [Codes -> CollectionRow \cup {None}]
  <2>1. content \in Content /\ row \in EntityRow  BY DEF Authored, AuthoredRow
  <2>2. row # None  BY <2>1, RowShape
  <2>3. /\ content.entities \in [Entities -> EntityRow \cup {None}]
        /\ content.collections \in [Codes -> CollectionRow \cup {None}]
    BY <2>1 DEF Content
  <2> QED  BY <2>1, <2>2, <2>3
<1>2. /\ after \in Content
      /\ after.collections = content.collections
      /\ after.entities = [content.entities EXCEPT ![e] = row]
  BY <1>1 DEF Content
<1>3. /\ after.entities[e] = row
      /\ \A d \in Entities : d # e => after.entities[d] = content.entities[d]
  BY <1>1, <1>2
<1> HIDE DEF after
<1>4. There(after) = There(content) \cup {e}
  BY <1>1, <1>3 DEF There
<1>5. AuthoredRows(after)
  BY <1>3 DEF AuthoredRows, Authored
<1>6. WellFormed(content)  BY DEF Authored
<1>7. \A d \in There(content) : RowOK(d, content.entities[d], There(content))
  BY <1>6, WellFormedIs
<1>8. ASSUME NEW d \in There(after) PROVE RowOK(d, after.entities[d], There(after))
  <2>1. CASE d = e  BY <1>3, <1>4, <2>1
  <2>2. CASE d # e
    <3>1. d \in There(content) /\ after.entities[d] = content.entities[d]
      BY <1>3, <1>4, <2>2 DEF There
    <3>2. RowOK(d, after.entities[d], There(content))  BY <1>7, <3>1
    <3> QED  BY <1>4, <3>2 DEF RowOK
  <2> QED  BY <2>1, <2>2
<1>9. \A c \in Codes : after.collections[c] # None =>
          after.collections[c].entities \subseteq There(after)
  <2>1. \A c \in Codes : content.collections[c] # None =>
            content.collections[c].entities \subseteq There(content)
    BY <1>6, WellFormedIs
  <2> QED  BY <1>2, <1>4, <2>1
<1>10. WellFormed(after)  BY <1>8, <1>9, WellFormedIs
<1> QED  BY <1>2, <1>5, <1>10 DEF Authored, after

\* A collection that is written over, or a new one.
LEMMA CollectionWritten ==
    ASSUME NEW content, Authored(content), NEW c \in Codes, NEW row \in CollectionRow,
           row.entities \subseteq There(content)
    PROVE  Authored([content EXCEPT !.collections[c] = row])
<1> DEFINE after == [content EXCEPT !.collections[c] = row]
<1>1. /\ content \in Content
      /\ content.entities \in [Entities -> EntityRow \cup {None}]
      /\ content.collections \in [Codes -> CollectionRow \cup {None}]
  BY DEF Authored, Content
<1>2. /\ after \in Content
      /\ after.entities = content.entities
      /\ after.collections = [content.collections EXCEPT ![c] = row]
  BY <1>1 DEF Content
<1> HIDE DEF after
<1>3. There(after) = There(content)  BY <1>2 DEF There
<1>4. AuthoredRows(after)  BY <1>2 DEF AuthoredRows, Authored
<1>5. WellFormed(content)  BY DEF Authored
<1>6. /\ \A d \in There(content) : RowOK(d, content.entities[d], There(content))
      /\ \A d \in Codes : content.collections[d] # None =>
            content.collections[d].entities \subseteq There(content)
  BY <1>5, WellFormedIs
<1>7. \A d \in There(after) : RowOK(d, after.entities[d], There(after))
  BY <1>2, <1>3, <1>6
<1>8. \A d \in Codes : after.collections[d] # None =>
          after.collections[d].entities \subseteq There(after)
  BY <1>1, <1>2, <1>3, <1>6
<1>9. WellFormed(after)  BY <1>7, <1>8, WellFormedIs
<1> QED  BY <1>2, <1>4, <1>9 DEF Authored, after

-----------------------------------------------------------------------------
(* Edits                                                                   *)

\* A new entity.
LEMMA CreateKeeps ==
    ASSUME NEW content, Authored(content), NEW e \in Entities
    PROVE  Authored([content EXCEPT !.entities[e] = NewEntity])
<1>1. RowOK(e, NewEntity, There(content) \cup {e})
  BY NewRow, NoHistory DEF RowOK, NewEntity
<1> QED  BY <1>1, NewRow, RowWritten

\* A next version, which becomes the draft.
LEMMA NextVersionKeeps ==
    ASSUME NEW content, Authored(content), NEW e \in There(content), NEW held \in Contents[e],
           Container(e) => \A i \in DOMAIN held : held[i].entity \in There(content),
           NEW n, n = Max({0} \cup DOMAIN content.entities[e].versions) + 1, n <= MaxVersion
    PROVE  Authored([content EXCEPT !.entities[e] =
                        [content.entities[e] EXCEPT
                            !.versions = With(content.entities[e].versions, n, held), !.draft = n]])
<1> DEFINE old == content.entities[e]
           row == [old EXCEPT !.versions = With(old.versions, n, held), !.draft = n]
           numbers == {0} \cup DOMAIN old.versions
<1>1. e \in Entities /\ AuthoredRow(e, old)
  BY DEF There, Authored, AuthoredRows
<1>2. RowOK(e, old, There(content))
  <2>1. WellFormed(content)  BY DEF Authored
  <2> QED  BY <2>1, WellFormedIs
<1>3. old \in EntityRow  BY <1>1 DEF AuthoredRow
<1>4. n \in 1 .. MaxVersion
  <2>1. MaxVersion \in Nat  BY BackupAssumption
  <2>2. DOMAIN old.versions \subseteq 1 .. MaxVersion  BY <1>3, RowShape
  <2>3. numbers \subseteq Nat /\ numbers # {} /\ \A k \in numbers : k <= MaxVersion
    BY <2>1, <2>2
  <2>4. Max(numbers) \in numbers
    <3> HIDE DEF numbers
    <3> QED  BY <2>1, <2>3, MaxOfBounded
  <2>5. Max(numbers) \in Nat  BY <2>3, <2>4
  <2>6. n = Max(numbers) + 1  OBVIOUS
  <2> HIDE DEF numbers
  <2> QED  BY <2>1, <2>5, <2>6
<1>5. held \in (SUBSET File) \cup Seq(Child)  BY <1>1, ContentsHeld
<1> DEFINE h == With(old.versions, n, held)
<1> HIDE DEF old, h
<1>6. /\ h \in Histories
      /\ DOMAIN h = DOMAIN old.versions \cup {n}
      /\ \A m \in DOMAIN h : h[m] = IF m = n THEN held ELSE old.versions[m]
  <2>1. h = With(old.versions, n, held)  BY DEF h
  <2>2. old \in EntityRow  BY <1>3
  <2>3. n \in 1 .. MaxVersion  BY <1>4
  <2>4. held \in (SUBSET File) \cup Seq(Child)  BY <1>5
  <2>5. h \in Histories  BY <2>1, <2>2, <2>3, <2>4, HistoryGrows
  <2>6. DOMAIN h = DOMAIN old.versions \cup {n}  BY <2>1 DEF With
  <2>7. \A m \in DOMAIN h : h[m] = IF m = n THEN held ELSE old.versions[m]
    BY <2>1 DEF With
  <2> QED  BY <2>5, <2>6, <2>7
<1>7. row = [old EXCEPT !.versions = h, !.draft = n]  BY DEF h
<1>8. /\ row \in EntityRow /\ row.versions = h /\ row.draft = n
      /\ row.published = old.published
  <2>1. n \in 0 .. MaxVersion  BY <1>4
  <2> QED  BY <1>3, <1>6, <1>7, <2>1 DEF EntityRow
<1> HIDE DEF row
<1>9. AuthoredRow(e, row)
  <2>1. ASSUME NEW m \in DOMAIN h PROVE h[m] \in Contents[e]
    BY <1>1, <1>6, <2>1 DEF AuthoredRow
  <2> QED  BY <1>8, <2>1 DEF AuthoredRow
<1>10. RowOK(e, row, There(content) \cup {e})
  <2>1. VersionNumbers(row) \subseteq DOMAIN row.versions
    BY <1>2, <1>6, <1>8 DEF RowOK, VersionNumbers
  <2>2. ASSUME Container(e), NEW m \in DOMAIN h, NEW i \in DOMAIN h[m]
        PROVE  h[m][i].entity \in There(content)
    <3>1. CASE m = n  BY <1>6, <2>2, <3>1
    <3>2. CASE m # n
      <4>1. m \in DOMAIN old.versions /\ h[m] = old.versions[m]  BY <1>6, <3>2
      <4> QED  BY <1>2, <2>2, <4>1 DEF RowOK
    <3> QED  BY <3>1, <3>2
  <2> QED  BY <1>8, <2>1, <2>2 DEF RowOK
<1>11. Authored([content EXCEPT !.entities[e] = row])
  BY <1>1, <1>9, <1>10, RowWritten
<1> QED  BY <1>11 DEF row, old

\* A soft deletion.
LEMMA DeleteKeeps ==
    ASSUME NEW content, Authored(content), NEW e \in There(content)
    PROVE  Authored([content EXCEPT !.entities[e].draft = 0])
<1> DEFINE old == content.entities[e]
           row == [old EXCEPT !.draft = 0]
<1>1. e \in Entities /\ AuthoredRow(e, old)
  BY DEF There, Authored, AuthoredRows
<1>2. RowOK(e, old, There(content))
  <2>1. WellFormed(content)  BY DEF Authored
  <2> QED  BY <2>1, WellFormedIs
<1>3. old \in EntityRow  BY <1>1 DEF AuthoredRow
<1> HIDE DEF old
<1>4. /\ row \in EntityRow /\ row.versions = old.versions /\ row.draft = 0
      /\ row.published = old.published
  <2>1. MaxVersion \in Nat  BY BackupAssumption
  <2>2. 0 \in 0 .. MaxVersion  BY <2>1
  <2> QED  BY <1>3, <2>2 DEF EntityRow
<1> HIDE DEF row
<1>5. AuthoredRow(e, row)  BY <1>1, <1>4 DEF AuthoredRow
<1>6. RowOK(e, row, There(content) \cup {e})  BY <1>2, <1>4 DEF RowOK, VersionNumbers
<1>7. Authored([content EXCEPT !.entities[e] = row])
  BY <1>1, <1>5, <1>6, RowWritten
<1>8. [content EXCEPT !.entities[e].draft = 0] = [content EXCEPT !.entities[e] = row]
  BY DEF row, old
<1> QED  BY <1>7, <1>8

\* One row is published.
LEMMA RowPublished ==
    ASSUME NEW e, NEW row, AuthoredRow(e, row), NEW there, RowOK(e, row, there)
    PROVE  LET after == [row EXCEPT !.published = row.draft]
           IN  /\ AuthoredRow(e, after) /\ RowOK(e, after, there) /\ after \in EntityRow
               /\ after # None
               /\ after.versions = row.versions /\ after.draft = row.draft
               /\ after.published = row.draft
<1> DEFINE after == [row EXCEPT !.published = row.draft]
<1>1. row \in EntityRow  BY DEF AuthoredRow
<1>2. /\ after \in EntityRow /\ after.versions = row.versions /\ after.draft = row.draft
      /\ after.published = row.draft
  BY <1>1 DEF EntityRow
<1> HIDE DEF after
<1>3. AuthoredRow(e, after)  BY <1>2 DEF AuthoredRow
<1>4. RowOK(e, after, there)  BY <1>2 DEF RowOK, VersionNumbers
<1>5. after # None  BY <1>2, RowShape
<1> QED  BY <1>2, <1>3, <1>4, <1>5 DEF after

\* A publication of all drafts.
LEMMA PublishKeeps ==
    ASSUME NEW content, Authored(content)
    PROVE  Authored(WithAllPublished(content))
<1> DEFINE after == WithAllPublished(content)
           published(e) == [content.entities[e] EXCEPT !.published = content.entities[e].draft]
<1>1. content \in Content /\ WellFormed(content) /\ AuthoredRows(content)  BY DEF Authored
<1>2. /\ after.collections = content.collections
      /\ after.entities = [e \in Entities |->
            IF content.entities[e] = None THEN None ELSE published(e)]
      /\ after = [entities |-> after.entities, collections |-> after.collections]
  BY <1>1 DEF Content, WithAllPublished
<1>3. ASSUME NEW e \in Entities, content.entities[e] # None
      PROVE  /\ AuthoredRow(e, published(e)) /\ RowOK(e, published(e), There(content))
             /\ published(e) \in EntityRow /\ published(e) # None
  <2>1. AuthoredRow(e, content.entities[e])  BY <1>1, <1>3 DEF AuthoredRows
  <2>2. RowOK(e, content.entities[e], There(content))  BY <1>1, <1>3, WellFormedIs DEF There
  <2> QED  BY <2>1, <2>2, RowPublished
<1> HIDE DEF after, published
<1>4. \A e \in Entities :
          /\ content.entities[e] = None => after.entities[e] = None
          /\ content.entities[e] # None => after.entities[e] = published(e)
  BY <1>2
<1>5. There(after) = There(content)  BY <1>3, <1>4 DEF There
<1>6. after \in Content
  <2>1. after.entities \in [Entities -> EntityRow \cup {None}]  BY <1>2, <1>3
  <2>2. after.collections \in [Codes -> CollectionRow \cup {None}]  BY <1>1, <1>2 DEF Content
  <2> QED  BY <1>2, <2>1, <2>2 DEF Content
<1>7. AuthoredRows(after)  BY <1>3, <1>4 DEF AuthoredRows
<1>8. WellFormed(after)
  <2>1. \A e \in There(after) : RowOK(e, after.entities[e], There(after))
    BY <1>3, <1>4, <1>5 DEF There
  <2>2. \A c \in Codes : after.collections[c] # None =>
            after.collections[c].entities \subseteq There(after)
    BY <1>1, <1>2, <1>5, WellFormedIs
  <2> QED  BY <2>1, <2>2, WellFormedIs
<1> QED  BY <1>6, <1>7, <1>8 DEF Authored, after

\* An entity that is added to a collection, ...
LEMMA CollectKeeps ==
    ASSUME NEW content, Authored(content), NEW c \in Codes, NEW e \in There(content)
    PROVE  Authored([content EXCEPT !.collections[c] =
               IF content.collections[c] = None THEN [enabled |-> TRUE, entities |-> {e}]
               ELSE [content.collections[c] EXCEPT
                        !.entities = content.collections[c].entities \cup {e}]])
<1> DEFINE old == content.collections[c]
           row == IF old = None THEN [enabled |-> TRUE, entities |-> {e}]
                  ELSE [old EXCEPT !.entities = old.entities \cup {e}]
<1>1. content \in Content /\ WellFormed(content)  BY DEF Authored
<1>2. e \in Entities  BY DEF There
<1>3. old # None => old \in CollectionRow /\ old.entities \subseteq There(content)
  BY <1>1, WellFormedIs DEF Content
<1> HIDE DEF old
<1>4. row \in CollectionRow /\ row.entities \subseteq There(content)
  BY <1>2, <1>3 DEF CollectionRow
<1> HIDE DEF row
<1>5. Authored([content EXCEPT !.collections[c] = row])  BY <1>4, CollectionWritten
<1> QED  BY <1>5 DEF row, old

\* ... and a collection that is deleted softly.
LEMMA DisableKeeps ==
    ASSUME NEW content, Authored(content), NEW c \in Codes, content.collections[c] # None
    PROVE  Authored([content EXCEPT !.collections[c].enabled = FALSE])
<1> DEFINE old == content.collections[c]
           row == [old EXCEPT !.enabled = FALSE]
<1>1. content \in Content /\ WellFormed(content)  BY DEF Authored
<1>2. old \in CollectionRow /\ old.entities \subseteq There(content)
  BY <1>1, WellFormedIs DEF Content
<1> HIDE DEF old
<1>3. row \in CollectionRow /\ row.entities \subseteq There(content)
  BY <1>2 DEF CollectionRow
<1> HIDE DEF row
<1>4. Authored([content EXCEPT !.collections[c] = row])  BY <1>3, CollectionWritten
<1>5. [content EXCEPT !.collections[c].enabled = FALSE] = [content EXCEPT !.collections[c] = row]
  BY DEF row, old
<1> QED  BY <1>4, <1>5

-----------------------------------------------------------------------------
(* Files and their names                                                   *)

TypeFolder(e) == IF Container(e) THEN "" ELSE KindOf[e]
EntityPath(e, name, n, file) == Path("entities", TypeFolder(e), name, n, file)
CollectionPath(name) == Path("collections", "", name, 0, "")

\* The names a file can get: the slug alone, or with the hash of the name.
NamesOf(name) == {[slug |-> Slug[name], hash |-> NoHash], [slug |-> Slug[name], hash |-> name]}

\* The parts of a path, and the TOML file of its folder.
LEMMA PathParts ==
    ASSUME NEW a, NEW b, NEW c, NEW d, NEW f
    PROVE  /\ Path(a, b, c, d, f).folder = a
           /\ Path(a, b, c, d, f).type = b
           /\ Path(a, b, c, d, f).name = c
           /\ Path(a, b, c, d, f).version = d
           /\ Path(a, b, c, d, f).file = f
           /\ RootOf(Path(a, b, c, d, f)) = Path(a, b, c, 0, "")
BY DEF Path, RootOf, TomlPath

\* Paths are the same if their parts are.
LEMMA SamePath ==
    ASSUME NEW a, NEW b, NEW c, NEW d, NEW f, NEW a1, NEW b1, NEW c1, NEW d1, NEW f1,
           Path(a, b, c, d, f) = Path(a1, b1, c1, d1, f1)
    PROVE  a = a1 /\ b = b1 /\ c = c1 /\ d = d1 /\ f = f1
BY DEF Path

\* The same of a file of an entity, ...
LEMMA EntityPathParts ==
    ASSUME NEW e, NEW name, NEW n, NEW file
    PROVE  /\ EntityPath(e, name, n, file).folder = "entities"
           /\ EntityPath(e, name, n, file).type = TypeFolder(e)
           /\ EntityPath(e, name, n, file).name = name
           /\ EntityPath(e, name, n, file).version = n
           /\ EntityPath(e, name, n, file).file = file
           /\ RootOf(EntityPath(e, name, n, file)) = EntityPath(e, name, 0, "")
BY DEF EntityPath, Path, TomlPath, RootOf

\* ... of the file of a collection, ...
LEMMA CollectionPathParts ==
    ASSUME NEW name
    PROVE  /\ CollectionPath(name).folder = "collections"
           /\ CollectionPath(name).name = name
           /\ CollectionPath(name).version = 0
           /\ RootOf(CollectionPath(name)) = CollectionPath(name)
<1>1. RootOf(CollectionPath(name)) = CollectionPath(name)
  BY DEF CollectionPath, Path, TomlPath, RootOf
<1> QED  BY <1>1 DEF CollectionPath, Path

\* ... and of package.toml.
LEMMA PackageFileParts ==
    PackageFile.folder = "" /\ PackageFile.version = 0
BY DEF PackageFile, Path

\* get_entity_toml_filename gives one of the two names, ...
LEMMA NameIsOf ==
    ASSUME NEW used, NEW name
    PROVE  /\ FileName(used, name) \in NamesOf(name)
           /\ FileName(used, name).slug = Slug[name]
           /\ FileName(used, name).hash = IF Slug[name] \in used THEN name ELSE NoHash
BY DEF FileName, NamesOf

\* ... each of which has the slug.
LEMMA NameParts ==
    ASSUME NEW name, NEW x \in NamesOf(name)
    PROVE  x.slug = Slug[name] /\ x.hash \in {NoHash, name}
BY DEF NamesOf

\* Components have a folder for their type, containers have not, and two entities of one
\* folder differ in name.
LEMMA FoldersTell ==
    ASSUME NEW d \in Entities, NEW e \in Entities, TypeFolder(d) = TypeFolder(e)
    PROVE  /\ Container(d) <=> Container(e)
           /\ NameOf[d] = NameOf[e] => d = e
<1>1. /\ \A x \in Entities : KindOf[x] # ""
      /\ NameOf[d] = NameOf[e] /\ (KindOf[d] = KindOf[e] \/ (Container(d) /\ Container(e)))
            => d = e
  BY BackupAssumption
<1>2. KindOf[d] # "" /\ KindOf[e] # ""  BY <1>1
<1>3. CASE Container(d) /\ Container(e)  BY <1>1, <1>3
<1>4. CASE ~ Container(d) /\ ~ Container(e)
  <2>1. KindOf[d] = KindOf[e]  BY <1>4 DEF TypeFolder
  <2> QED  BY <1>1, <1>4, <2>1
<1>5. CASE Container(d) /\ ~ Container(e)  BY <1>2, <1>5 DEF TypeFolder
<1>6. CASE ~ Container(d) /\ Container(e)  BY <1>2, <1>6 DEF TypeFolder
<1> QED  BY <1>3, <1>4, <1>5, <1>6

\* Containers lie beside the folders of the component types.
LEMMA FolderOfContainer ==
    ASSUME NEW e \in Entities
    PROVE  TypeFolder(e) = "" <=> Container(e)
<1>1. KindOf[e] # ""  BY BackupAssumption
<1> QED  BY <1>1 DEF TypeFolder

\* A name whose slug is taken gets a hash that no other name of the folder has.
LEMMA NamesDiffer ==
    ASSUME NEW used, NEW name, name # NoHash, NEW other, NEW x \in NamesOf(other),
           x.slug \in used, x = FileName(used, name)
    PROVE  other = name
<1>1. x.slug = Slug[name] /\ x.hash = name  BY NameIsOf
<1>2. x.hash \in {NoHash, other}  BY NameParts
<1> QED  BY <1>1, <1>2

-----------------------------------------------------------------------------
(* The files of versions                                                   *)

\* What authors put into a version.
LEMMA AuthoredVersion ==
    ASSUME NEW e \in Entities, NEW row, AuthoredRow(e, row), NEW there, RowOK(e, row, there),
           NEW n \in VersionNumbers(row)
    PROVE  /\ n \in DOMAIN row.versions /\ n \in 1 .. MaxVersion /\ n # 0
           /\ row.versions[n] \in Contents[e]
           /\ Container(e) =>
                /\ row.versions[n] \in Seq(Child)
                /\ \A i \in DOMAIN row.versions[n] :
                     /\ row.versions[n][i].entity \in there
                     /\ KindOf[e] \in Restorable =>
                          LevelOf(row.versions[n][i].entity) = LevelBelow[KindOf[e]]
           /\ ~ Container(e) =>
                /\ row.versions[n] \in SUBSET File
                /\ \A f, g \in row.versions[n] : f.path = g.path => f = g
<1>1. n \in DOMAIN row.versions  BY DEF RowOK
<1>2. row.versions[n] \in Contents[e] /\ row \in EntityRow  BY <1>1 DEF AuthoredRow
<1>3. n \in 1 .. MaxVersion  BY <1>1, <1>2, RowShape
<1>4. MaxVersion \in Nat  BY BackupAssumption
<1>5. n # 0  BY <1>3, <1>4
<1>6. \A content \in Contents[e] :
          IF Container(e)
          THEN /\ content \in Seq(Child)
               /\ KindOf[e] \in Restorable => \A i \in DOMAIN content :
                     LevelOf(content[i].entity) = LevelBelow[KindOf[e]]
          ELSE /\ content \in SUBSET File
               /\ \A f, g \in content : f.path = g.path => f = g
  BY BackupAssumption
<1>7. Container(e) => \A i \in DOMAIN row.versions[n] : row.versions[n][i].entity \in there
  BY <1>1 DEF RowOK
<1> QED  BY <1>1, <1>2, <1>3, <1>5, <1>6, <1>7

\* A static file and the version and the path it comes from.
ComesFrom(e, row, name, path, body) ==
    \E n \in VersionNumbers(row) : \E f \in row.versions[n] :
        /\ f.data # EmptyText /\ path = EntityPath(e, name, n, f.path)
        /\ body = [data |-> f.data]

\* The static files of a component, by the versions and the paths they come from.
LEMMA StaticsAre ==
    ASSUME NEW e \in Entities, NEW row, AuthoredRow(e, row), NEW there, RowOK(e, row, there),
           NEW name, NEW statics, statics = StaticFiles(e, row, EntityPath(e, name, 0, ""))
    PROVE  /\ Container(e) => DOMAIN statics = {}
           /\ \A path \in DOMAIN statics :
                 ~ Container(e) /\ ComesFrom(e, row, name, path, statics[path])
           /\ \A n \in VersionNumbers(row) : \A f \in row.versions[n] :
                 ~ Container(e) /\ f.data # EmptyText =>
                     EntityPath(e, name, n, f.path) \in DOMAIN statics
<1>1. CASE Container(e)
  <2>1. statics = << >>  BY <1>1 DEF StaticFiles
  <2>2. DOMAIN statics = {}  BY <2>1, NoHistory
  <2> QED  BY <1>1, <2>2
<1>2. CASE ~ Container(e)
  <2> DEFINE root == EntityPath(e, name, 0, "")
             all == UNION {{<<n, f>> : f \in row.versions[n]} : n \in VersionNumbers(row)}
             written == {w \in all : w[2].data # EmptyText}
             at(w) == Path(root.folder, root.type, root.name, w[1], w[2].path)
             source(path) == CHOOSE w \in written : at(w) = path
  <2>1. statics = [path \in {at(w) : w \in written} |-> [data |-> source(path)[2].data]]
    BY <1>2 DEF StaticFiles
  <2>2. ASSUME NEW w \in written
        PROVE  \E n \in VersionNumbers(row) : \E f \in row.versions[n] :
                  w = <<n, f>> /\ f.data # EmptyText
    <3>1. PICK n \in VersionNumbers(row) : w \in {<<n, f>> : f \in row.versions[n]}
      BY <2>2
    <3>2. PICK f \in row.versions[n] : w = <<n, f>>  BY <3>1
    <3>3. f.data # EmptyText  BY <2>2, <3>2
    <3> QED  BY <3>2, <3>3
  <2>3. ASSUME NEW n \in VersionNumbers(row), NEW f \in row.versions[n], f.data # EmptyText
        PROVE  <<n, f>> \in written
    <3>1. <<n, f>> \in {<<n, g>> : g \in row.versions[n]} /\ <<n, f>>[2] = f  BY <2>3
    <3>2. <<n, f>> \in all  BY <3>1
    <3> QED  BY <2>3, <3>1, <3>2
  <2>4. ASSUME NEW n, NEW f PROVE at(<<n, f>>) = EntityPath(e, name, n, f.path)
    <3>1. <<n, f>>[1] = n /\ <<n, f>>[2] = f  OBVIOUS
    <3>2. root.folder = "entities" /\ root.type = TypeFolder(e) /\ root.name = name
      BY DEF EntityPath, Path
    <3> HIDE DEF root
    <3> QED  BY <3>1, <3>2 DEF EntityPath
  <2> HIDE DEF written, at
  <2>5. ASSUME NEW path \in DOMAIN statics
        PROVE  ComesFrom(e, row, name, path, statics[path])
    <3> DEFINE w == source(path)
    <3>1. \E x \in written : at(x) = path
      <4> HIDE DEF source
      <4> QED  BY <2>1, <2>5
    <3>2. w \in written /\ at(w) = path  BY <3>1
    <3> HIDE DEF source
    <3>3. statics[path] = [data |-> w[2].data]  BY <2>1, <2>5
    <3> HIDE DEF w
    <3>3a. PICK n \in VersionNumbers(row) : \E f \in row.versions[n] :
              w = <<n, f>> /\ f.data # EmptyText
      BY <2>2, <3>2
    <3>4. PICK f \in row.versions[n] : w = <<n, f>> /\ f.data # EmptyText
      BY <3>3a
    <3>5. path = EntityPath(e, name, n, f.path)  BY <2>4, <3>2, <3>4
    <3>6. w[2] = f  BY <3>4
    <3>7. statics[path] = [data |-> f.data]  BY <3>3, <3>6
    <3> QED  BY <3>4, <3>5, <3>7 DEF ComesFrom
  <2>6. ASSUME NEW n \in VersionNumbers(row), NEW f \in row.versions[n], f.data # EmptyText
        PROVE  EntityPath(e, name, n, f.path) \in DOMAIN statics
    <3>1. <<n, f>> \in written /\ at(<<n, f>>) = EntityPath(e, name, n, f.path)
      BY <2>3, <2>4, <2>6
    <3> HIDE DEF source
    <3> QED  BY <2>1, <3>1
  <2> QED  BY <1>2, <2>5, <2>6
<1> QED  BY <1>1, <1>2

\* The same, of one static file.
LEMMA StaticComesFrom ==
    ASSUME NEW e \in Entities, NEW row, AuthoredRow(e, row), NEW there, RowOK(e, row, there),
           NEW name, NEW statics, statics = StaticFiles(e, row, EntityPath(e, name, 0, "")),
           NEW path \in DOMAIN statics
    PROVE  ~ Container(e) /\ ComesFrom(e, row, name, path, statics[path])
BY StaticsAre

-----------------------------------------------------------------------------
(* The files of an archive                                                 *)

\* The TOML file of an entity as it is written, but for a field that may be gone.
TomlOf(e, row, valid) ==
    [valid |-> valid, key |-> e,
     container |-> IF KindOf[e] \in Restorable THEN {KindOf[e]} ELSE {},
     draft |-> row.draft, published |-> row.published,
     versions |-> VersionTables(e, row)]

TomlAt(files, path, source, e, name) ==
    /\ name \in NamesOf(NameOf[e])
    /\ path = EntityPath(e, name, 0, "")
    /\ files[path].valid \in BOOLEAN
    /\ files[path] = TomlOf(e, source.entities[e], files[path].valid)

\* A static file of a version, whose folder has the TOML file of its entity or none.
StaticAt(files, path, source, e, name, n, f) ==
    /\ ~ Container(e)
    /\ name \in NamesOf(NameOf[e])
    /\ n \in VersionNumbers(source.entities[e])
    /\ f \in source.entities[e].versions[n]
    /\ path = EntityPath(e, name, n, f.path)
    /\ files[path].data = f.data /\ f.data # EmptyText
    /\ EntityPath(e, name, 0, "") \in DOMAIN files => files[EntityPath(e, name, 0, "")].key = e

CollectionAt(files, path, source, c, name) ==
    /\ name \in NamesOf(c)
    /\ path = CollectionPath(name)
    /\ files[path].valid \in BOOLEAN
    /\ files[path] = [valid |-> files[path].valid, key |-> c,
                      entities |-> source.collections[c].entities]

PackageAt(files, path) ==
    /\ path = PackageFile
    /\ files[path].valid \in BOOLEAN
    /\ files[path] = [valid |-> files[path].valid, key |-> files[path].key]

IsToml(files, path, source, done) ==
    \E e \in done : \E name : TomlAt(files, path, source, e, name)
IsStaticFile(files, path, source, done) ==
    \E e \in done : \E name, n, f : StaticAt(files, path, source, e, name, n, f)
IsCollection(files, path, source, codes) ==
    \E c \in codes : \E name : CollectionAt(files, path, source, c, name)

\* Every file is of one of these kinds; `done` and `codes` have been written.
Sorted(files, source, done, codes) ==
    \A path \in DOMAIN files :
        \/ PackageAt(files, path)
        \/ IsToml(files, path, source, done)
        \/ IsStaticFile(files, path, source, done)
        \/ IsCollection(files, path, source, codes)

\* An entity and a collection have one TOML file each.
OneToml(files) ==
    \A p, q \in DOMAIN files :
        (/\ p.folder = q.folder /\ p.folder # "" /\ p.version = 0 /\ q.version = 0
         /\ files[p].key = files[q].key) => p = q

SlugsUsed(files, used) ==
    \A path \in DOMAIN files : path # PackageFile => path.name.slug \in used

\* Where the TOML file of an entity is, ...
LEMMA TomlPlace ==
    ASSUME NEW files, NEW path, NEW source, NEW e, NEW name,
           TomlAt(files, path, source, e, name)
    PROVE  /\ path.folder = "entities" /\ path.type = TypeFolder(e) /\ path.name = name
           /\ path.version = 0 /\ name \in NamesOf(NameOf[e])
BY DEF TomlAt, EntityPath, Path

\* ... which is the one of its own folder, ...
LEMMA TomlRoot ==
    ASSUME NEW files, NEW path, NEW source, NEW e, NEW name,
           TomlAt(files, path, source, e, name)
    PROVE  RootOf(path) = path
BY DEF TomlAt, EntityPath, Path, RootOf, TomlPath

\* ... whose key it has, ...
LEMMA TomlKey ==
    ASSUME NEW files, NEW path, NEW source, NEW e, NEW name,
           TomlAt(files, path, source, e, name)
    PROVE  files[path].key = e
<1>1. files[path] = TomlOf(e, source.entities[e], files[path].valid)  BY DEF TomlAt
<1> QED  BY <1>1 DEF TomlOf

\* ... and what it says: the draft, ...
LEMMA TomlDraft ==
    ASSUME NEW files, NEW path, NEW source, NEW e, NEW name,
           TomlAt(files, path, source, e, name)
    PROVE  files[path].draft = source.entities[e].draft
<1>1. files[path] = TomlOf(e, source.entities[e], files[path].valid)  BY DEF TomlAt
<1> QED  BY <1>1 DEF TomlOf

\* ... the published version, ...
LEMMA TomlPublished ==
    ASSUME NEW files, NEW path, NEW source, NEW e, NEW name,
           TomlAt(files, path, source, e, name)
    PROVE  files[path].published = source.entities[e].published
<1>1. files[path] = TomlOf(e, source.entities[e], files[path].valid)  BY DEF TomlAt
<1> QED  BY <1>1 DEF TomlOf

\* ... the children of each version, ...
LEMMA TomlVersions ==
    ASSUME NEW files, NEW path, NEW source, NEW e, NEW name,
           TomlAt(files, path, source, e, name)
    PROVE  files[path].versions = VersionTables(e, source.entities[e])
<1>1. files[path] = TomlOf(e, source.entities[e], files[path].valid)  BY DEF TomlAt
<1> QED  BY <1>1 DEF TomlOf

\* ... and of what kind the container is.
LEMMA TomlContainer ==
    ASSUME NEW files, NEW path, NEW source, NEW e, NEW name,
           TomlAt(files, path, source, e, name)
    PROVE  files[path].container = IF KindOf[e] \in Restorable THEN {KindOf[e]} ELSE {}
<1>1. files[path] = TomlOf(e, source.entities[e], files[path].valid)  BY DEF TomlAt
<1> QED  BY <1>1 DEF TomlOf

\* Where a static file is, ...
LEMMA StaticPlace ==
    ASSUME NEW files, NEW path, NEW source, NEW e, NEW name, NEW n, NEW f,
           StaticAt(files, path, source, e, name, n, f)
    PROVE  /\ path.folder = "entities" /\ path.type = TypeFolder(e) /\ path.name = name
           /\ path.version = n /\ n # 0 /\ path.file = f.path
           /\ name \in NamesOf(NameOf[e])
<1>1. n # 0  BY DEF StaticAt, VersionNumbers
<1>2. path = EntityPath(e, name, n, f.path) /\ name \in NamesOf(NameOf[e])  BY DEF StaticAt
<1> QED  BY <1>1, <1>2 DEF EntityPath, Path

\* ... and in whose folder.
LEMMA StaticRoot ==
    ASSUME NEW files, NEW path, NEW source, NEW e, NEW name, NEW n, NEW f,
           StaticAt(files, path, source, e, name, n, f)
    PROVE  RootOf(path) = EntityPath(e, name, 0, "")
BY DEF StaticAt, EntityPath, Path, RootOf, TomlPath

\* Where the file of a collection is, ...
LEMMA CollectionPlace ==
    ASSUME NEW files, NEW path, NEW source, NEW c, NEW name,
           CollectionAt(files, path, source, c, name)
    PROVE  /\ path.folder = "collections" /\ path.name = name /\ path.version = 0
           /\ path.type = "" /\ name \in NamesOf(c)
BY DEF CollectionAt, CollectionPath, Path

\* ... and what it says.
LEMMA CollectionSays ==
    ASSUME NEW files, NEW path, NEW source, NEW c, NEW name,
           CollectionAt(files, path, source, c, name)
    PROVE  files[path].key = c /\ files[path].entities = source.collections[c].entities
<1>1. files[path] = [valid |-> files[path].valid, key |-> c,
                      entities |-> source.collections[c].entities]
  BY DEF CollectionAt
<1> QED  BY <1>1

\* The file of the package.
LEMMA PackageAtIs ==
    ASSUME NEW files, NEW path, PackageAt(files, path)
    PROVE  /\ path.folder = "" /\ path.version = 0 /\ path = PackageFile
           /\ files[path].valid \in BOOLEAN
BY PackageFileParts DEF PackageAt

-----------------------------------------------------------------------------
(* What kind a file is of                                                  *)

\* A TOML file among the entities is one of an entity, ...
LEMMA WhichToml ==
    ASSUME NEW files, NEW source, NEW done, NEW codes, Sorted(files, source, done, codes),
           NEW path \in DOMAIN files, path.folder = "entities", path.version = 0
    PROVE  IsToml(files, path, source, done)
<1>1. ~ PackageAt(files, path)  BY PackageAtIs
<1>2. ~ IsStaticFile(files, path, source, done)  BY StaticPlace DEF IsStaticFile
<1>3. ~ IsCollection(files, path, source, codes)  BY CollectionPlace DEF IsCollection
<1> QED  BY <1>1, <1>2, <1>3 DEF Sorted

\* ... a file of a version is a static file of one, ...
LEMMA WhichStatic ==
    ASSUME NEW files, NEW source, NEW done, NEW codes, Sorted(files, source, done, codes),
           NEW path \in DOMAIN files, path.version # 0
    PROVE  IsStaticFile(files, path, source, done)
<1>1. ~ PackageAt(files, path)  BY PackageAtIs
<1>2. ~ IsToml(files, path, source, done)  BY TomlPlace DEF IsToml
<1>3. ~ IsCollection(files, path, source, codes)  BY CollectionPlace DEF IsCollection
<1> QED  BY <1>1, <1>2, <1>3 DEF Sorted

\* ... and a file among the collections is one of a collection.
LEMMA WhichCollection ==
    ASSUME NEW files, NEW source, NEW done, NEW codes, Sorted(files, source, done, codes),
           NEW path \in DOMAIN files, path.folder = "collections"
    PROVE  IsCollection(files, path, source, codes)
<1>1. ~ PackageAt(files, path)  BY PackageAtIs
<1>2. ~ IsToml(files, path, source, done)  BY TomlPlace DEF IsToml
<1>3. ~ IsStaticFile(files, path, source, done)  BY StaticPlace DEF IsStaticFile
<1> QED  BY <1>1, <1>2, <1>3 DEF Sorted

\* A folder belongs to an entity that was written, ...
LEMMA FolderOwner ==
    ASSUME NEW files, NEW source, NEW done, NEW codes, Sorted(files, source, done, codes),
           NEW path \in DOMAIN files, path.folder = "entities"
    PROVE  \E e \in done : path.type = TypeFolder(e) /\ path.name \in NamesOf(NameOf[e])
<1>1. CASE path.version = 0
  <2>1. IsToml(files, path, source, done)  BY <1>1, WhichToml
  <2>2. PICK e \in done : \E x : TomlAt(files, path, source, e, x)  BY <2>1 DEF IsToml
  <2>3. PICK x : TomlAt(files, path, source, e, x)  BY <2>2
  <2>4. x \in NamesOf(NameOf[e])  BY <2>3 DEF TomlAt
  <2>5. path.type = TypeFolder(e) /\ path.name = x  BY <2>3 DEF TomlAt, EntityPath, Path
  <2> QED  BY <2>4, <2>5
<1>2. CASE path.version # 0
  <2>1. IsStaticFile(files, path, source, done)  BY <1>2, WhichStatic
  <2>2. PICK e \in done : \E x, n, f : StaticAt(files, path, source, e, x, n, f)
    BY <2>1 DEF IsStaticFile
  <2>3. PICK x, n, f : StaticAt(files, path, source, e, x, n, f)  BY <2>2
  <2>4. x \in NamesOf(NameOf[e])  BY <2>3 DEF StaticAt
  <2>5. path.type = TypeFolder(e) /\ path.name = x  BY <2>3 DEF StaticAt, EntityPath, Path
  <2> QED  BY <2>4, <2>5
<1> QED  BY <1>1, <1>2

\* ... and a file among the collections to such a collection.
LEMMA CollectionOwner ==
    ASSUME NEW files, NEW source, NEW done, NEW codes, Sorted(files, source, done, codes),
           NEW path \in DOMAIN files, path.folder = "collections"
    PROVE  \E c \in codes : path.name \in NamesOf(c)
<1>1. IsCollection(files, path, source, codes)  BY WhichCollection
<1>2. PICK c \in codes : \E x : CollectionAt(files, path, source, c, x)
  BY <1>1 DEF IsCollection
<1>3. PICK x : CollectionAt(files, path, source, c, x)  BY <1>2
<1>4. x \in NamesOf(c)  BY <1>3 DEF CollectionAt
<1>5. path.name = x  BY <1>3 DEF CollectionAt, CollectionPath, Path
<1> QED  BY <1>4, <1>5

\* The folder of an entity that is not written yet is new.
LEMMA FreshFolder ==
    ASSUME NEW files, NEW source, NEW done, done \subseteq Entities, NEW codes,
           Sorted(files, source, done, codes),
           NEW used, SlugsUsed(files, used),
           NEW e \in Entities, e \notin done,
           NEW path \in DOMAIN files, path.folder = "entities", path.type = TypeFolder(e),
           path.name = FileName(used, NameOf[e])
    PROVE  FALSE
<1>1. PICK d \in done : path.type = TypeFolder(d) /\ path.name \in NamesOf(NameOf[d])
  BY FolderOwner
<1>2. path.name.slug \in used
  <2>1. path # PackageFile  BY PackageFileParts
  <2> QED  BY <2>1 DEF SlugsUsed
<1>3. NameOf[e] # NoHash  BY BackupAssumption
<1>4. NameOf[d] = NameOf[e]  BY <1>1, <1>2, <1>3, NamesDiffer
<1>5. d = e  BY <1>1, <1>4, FoldersTell
<1> QED  BY <1>5

\* Nor is there a file where that of the next collection goes.
LEMMA FreshCollection ==
    ASSUME NEW files, NEW source, NEW done, NEW codes, codes \subseteq Codes,
           Sorted(files, source, done, codes),
           NEW used, SlugsUsed(files, used),
           NEW c \in Codes, c \notin codes,
           NEW path \in DOMAIN files, path.folder = "collections", path.name = FileName(used, c)
    PROVE  FALSE
<1>1. PICK d \in codes : path.name \in NamesOf(d)  BY CollectionOwner
<1>2. path.name.slug \in used
  <2>1. path # PackageFile  BY PackageFileParts
  <2> QED  BY <2>1 DEF SlugsUsed
<1>3. c # NoHash  BY BackupAssumption
<1>4. d = c  BY <1>1, <1>2, <1>3, NamesDiffer
<1> QED  BY <1>4

-----------------------------------------------------------------------------
(* Writing files                                                           *)

\* The folder of an entity, with its TOML file and all its static files.
HasFolder(files, source, e, name) ==
    /\ EntityPath(e, name, 0, "") \in DOMAIN files
    /\ TomlAt(files, EntityPath(e, name, 0, ""), source, e, name)
    /\ ~ Container(e) =>
          \A n \in VersionNumbers(source.entities[e]) : \A f \in source.entities[e].versions[n] :
             f.data # EmptyText => EntityPath(e, name, n, f.path) \in DOMAIN files

HasCollection(files, source, c, name) ==
    /\ CollectionPath(name) \in DOMAIN files
    /\ CollectionAt(files, CollectionPath(name), source, c, name)

\* Nothing of what has been written is missing.
Whole(files, source, done, codes) ==
    /\ PackageFile \in DOMAIN files
    /\ \A path \in DOMAIN files : path.version # 0 => RootOf(path) \in DOMAIN files
    /\ \A e \in done : \E name : HasFolder(files, source, e, name)
    /\ \A c \in codes : \E name : HasCollection(files, source, c, name)

\* No TOML file has a field that is blank or missing.
AllValid(files) == \A path \in DOMAIN files : path.version = 0 => files[path].valid = TRUE

\* What With and WithAll make.
LEMMA WithIs ==
    ASSUME NEW f, NEW x, NEW v
    PROVE  /\ DOMAIN With(f, x, v) = DOMAIN f \cup {x}
           /\ With(f, x, v)[x] = v
           /\ \A y \in DOMAIN f : y # x => With(f, x, v)[y] = f[y]
BY DEF With

\* The same, of another function.
LEMMA WithAllIs ==
    ASSUME NEW f, NEW g
    PROVE  /\ DOMAIN WithAll(f, g) = DOMAIN f \cup DOMAIN g
           /\ \A y \in DOMAIN g : WithAll(f, g)[y] = g[y]
           /\ \A y \in DOMAIN f : y \notin DOMAIN g => WithAll(f, g)[y] = f[y]
BY DEF WithAll

\* What a file is depends on the file and, for a static file, on the TOML file of its folder.
LEMMA SameFile ==
    ASSUME NEW files, NEW after, NEW path, after[path] = files[path]
    PROVE  /\ PackageAt(files, path) => PackageAt(after, path)
           /\ \A source, e, name : TomlAt(files, path, source, e, name)
                                      => TomlAt(after, path, source, e, name)
           /\ \A source, c, name : CollectionAt(files, path, source, c, name)
                                      => CollectionAt(after, path, source, c, name)
<1>1. PackageAt(files, path) => PackageAt(after, path)  BY DEF PackageAt
<1>2. ASSUME NEW source, NEW e, NEW name, TomlAt(files, path, source, e, name)
      PROVE  TomlAt(after, path, source, e, name)
  BY <1>2 DEF TomlAt
<1>3. ASSUME NEW source, NEW c, NEW name, CollectionAt(files, path, source, c, name)
      PROVE  CollectionAt(after, path, source, c, name)
  BY <1>3 DEF CollectionAt
<1> QED  BY <1>1, <1>2, <1>3

\* The TOML file as it is written.
LEMMA TomlIsNew ==
    ASSUME NEW files, NEW source, NEW e, NEW name, name \in NamesOf(NameOf[e]),
           NEW path, path = EntityPath(e, name, 0, ""),
           files[path] = EntityToml(e, source.entities[e])
    PROVE  TomlAt(files, path, source, e, name) /\ files[path].valid = TRUE
<1>1. EntityToml(e, source.entities[e]) = TomlOf(e, source.entities[e], TRUE)
  BY DEF EntityToml, TomlOf
<1>2. files[path].valid = TRUE
  <2>1. TomlOf(e, source.entities[e], TRUE).valid = TRUE  BY DEF TomlOf
  <2> QED  BY <1>1, <2>1
<1> QED  BY <1>1, <1>2 DEF TomlAt

\* What is in a static file.
LEMMA DataOf ==
    ASSUME NEW v
    PROVE  [data |-> v].data = v
OBVIOUS

\* A turn of the loop over the entities: whatever slugs are used, the files of the
\* entity are added, and no other file is overwritten.
LEMMA EntityWritten ==
    ASSUME NEW files, NEW source, NEW done, done \subseteq Entities, NEW codes,
           Sorted(files, source, done, codes), OneToml(files),
           NEW used, SlugsUsed(files, used),
           NEW e \in Entities, e \notin done,
           NEW there, AuthoredRow(e, source.entities[e]), RowOK(e, source.entities[e], there),
           NEW root, root = EntityPath(e, FileName(used, NameOf[e]), 0, ""),
           NEW after, after = WithAll(With(files, root, EntityToml(e, source.entities[e])),
                                      StaticFiles(e, source.entities[e], root))
    PROVE  /\ Sorted(after, source, done \cup {e}, codes)
           /\ OneToml(after)
           /\ SlugsUsed(after, used \cup {Slug[NameOf[e]]})
           /\ Whole(files, source, done, codes) => Whole(after, source, done \cup {e}, codes)
<1> DEFINE name == FileName(used, NameOf[e])
           row == source.entities[e]
           statics == StaticFiles(e, row, root)
<1>1. name \in NamesOf(NameOf[e]) /\ name.slug = Slug[NameOf[e]]
  <2>1. name \in NamesOf(NameOf[e])  BY NameIsOf
  <2>2. name.slug = Slug[NameOf[e]]  BY DEF FileName
  <2> QED  BY <2>1, <2>2
<1>2. /\ root.folder = "entities" /\ root.type = TypeFolder(e) /\ root.name = name
      /\ root.version = 0 /\ root.file = ""
  BY DEF EntityPath, Path
<1>3. statics = StaticFiles(e, row, EntityPath(e, name, 0, ""))  OBVIOUS
<1>4. root = EntityPath(e, name, 0, "")  OBVIOUS
<1> HIDE DEF name
<1>5. /\ Container(e) => DOMAIN statics = {}
      /\ \A path \in DOMAIN statics :
            /\ ~ Container(e)
            /\ \E n \in VersionNumbers(row) : \E f \in row.versions[n] :
                  /\ f.data # EmptyText /\ path = EntityPath(e, name, n, f.path)
                  /\ statics[path] = [data |-> f.data]
      /\ \A n \in VersionNumbers(row) : \A f \in row.versions[n] :
            ~Container(e) /\ f.data # EmptyText =>
                EntityPath(e, name, n, f.path) \in DOMAIN statics
  <2> HIDE DEF statics
  <2>1. Container(e) => DOMAIN statics = {}  BY <1>3, StaticsAre
  <2>2. \A path \in DOMAIN statics :
            /\ ~ Container(e)
            /\ \E n \in VersionNumbers(row) : \E f \in row.versions[n] :
                  /\ f.data # EmptyText /\ path = EntityPath(e, name, n, f.path)
                  /\ statics[path] = [data |-> f.data]
    <3>1. ASSUME NEW path \in DOMAIN statics
          PROVE  ~ Container(e) /\ ComesFrom(e, row, name, path, statics[path])
      BY <1>3, <3>1, StaticComesFrom
    <3> QED  BY <3>1 DEF ComesFrom
  <2>3. \A n \in VersionNumbers(row) : \A f \in row.versions[n] :
            ~Container(e) /\ f.data # EmptyText =>
                EntityPath(e, name, n, f.path) \in DOMAIN statics
    BY <1>3, StaticsAre
  <2> QED  BY <2>1, <2>2, <2>3
<1>6. ASSUME NEW path \in DOMAIN statics
      PROVE  /\ path.folder = "entities" /\ path.type = TypeFolder(e) /\ path.name = name
             /\ path.version # 0 /\ RootOf(path) = root
  <2> HIDE DEF row, statics
  <2>1. PICK n \in VersionNumbers(row) :
          \E f \in row.versions[n] : path = EntityPath(e, name, n, f.path)
    BY <1>5
  <2>2. PICK f \in row.versions[n] : path = EntityPath(e, name, n, f.path)
    BY <2>1
  <2>3. n # 0  BY DEF VersionNumbers
  <2>4. /\ path.folder = "entities" /\ path.type = TypeFolder(e) /\ path.name = name
        /\ path.version = n
    BY <2>2 DEF EntityPath, Path
  <2>5. RootOf(path) = root  BY <1>4, <2>2 DEF EntityPath, Path, RootOf, TomlPath
  <2> QED  BY <2>3, <2>4, <2>5
<1>7. ASSUME NEW path \in DOMAIN files
      PROVE  ~ (path.folder = "entities" /\ path.type = TypeFolder(e) /\ path.name = name)
  BY FreshFolder DEF name
<1> DEFINE toml == EntityToml(e, row)
           first == With(files, root, toml)
<1>8. /\ DOMAIN first = DOMAIN files \cup {root} /\ first[root] = toml
      /\ \A path \in DOMAIN files : path # root => first[path] = files[path]
  <2> HIDE DEF toml
  <2> QED  BY DEF With
<1>9. after = WithAll(first, statics)  OBVIOUS
<1> HIDE DEF toml, first, row, statics
<1>10. /\ DOMAIN after = DOMAIN first \cup DOMAIN statics
       /\ \A path \in DOMAIN statics : after[path] = statics[path]
       /\ \A path \in DOMAIN first : path \notin DOMAIN statics => after[path] = first[path]
  BY <1>9 DEF WithAll
<1>11. root \notin DOMAIN statics /\ root \notin DOMAIN files
  BY <1>2, <1>6, <1>7
<1>12. /\ DOMAIN after = DOMAIN files \cup {root} \cup DOMAIN statics
       /\ after[root] = toml
  BY <1>8, <1>10, <1>11
<1>13. \A path \in DOMAIN files :
          path # root /\ path \notin DOMAIN statics /\ after[path] = files[path]
  <2>1. \A path \in DOMAIN files : path # root /\ path \notin DOMAIN statics
    BY <1>6, <1>7, <1>11
  <2> QED  BY <1>8, <1>10, <2>1
<1>14. TomlAt(after, root, source, e, name) /\ after[root].valid = TRUE
  BY <1>1, <1>4, <1>12, TomlIsNew DEF toml, row
<1>15. after[root].key = e  BY <1>14, TomlKey
<1>16. Sorted(after, source, done \cup {e}, codes)
  <2> SUFFICES ASSUME NEW path \in DOMAIN after
               PROVE  \/ PackageAt(after, path)
                      \/ IsToml(after, path, source, done \cup {e})
                      \/ IsStaticFile(after, path, source, done \cup {e})
                      \/ IsCollection(after, path, source, codes)
    BY DEF Sorted
  <2>1. CASE path = root
    <3>1. IsToml(after, path, source, done \cup {e})  BY <1>14, <2>1 DEF IsToml
    <3> QED  BY <3>1
  <2>2. CASE path \in DOMAIN statics
    <3>1. PICK n \in VersionNumbers(row) : \E f \in row.versions[n] :
                  /\ f.data # EmptyText /\ path = EntityPath(e, name, n, f.path)
                  /\ statics[path] = [data |-> f.data]
      BY <1>5, <2>2
    <3>2. PICK f \in row.versions[n] :
                  /\ f.data # EmptyText /\ path = EntityPath(e, name, n, f.path)
                  /\ statics[path] = [data |-> f.data]
      BY <3>1
    <3>3. ~ Container(e)  BY <1>5, <2>2
    <3>4. after[path].data = f.data
      <4>1. after[path] = statics[path]  BY <1>10, <2>2
      <4>2. after[path] = [data |-> f.data]  BY <3>2, <4>1
      <4> QED  BY <4>2, DataOf
    <3>5. StaticAt(after, path, source, e, name, n, f)
      BY <1>1, <1>4, <1>15, <3>2, <3>3, <3>4 DEF StaticAt, row
    <3>6. IsStaticFile(after, path, source, done \cup {e})  BY <3>5 DEF IsStaticFile
    <3> QED  BY <3>6
  <2>3. CASE path \in DOMAIN files
    <3>1. after[path] = files[path]  BY <1>13, <2>3
    <3>2. CASE PackageAt(files, path)  BY <3>1, <3>2, SameFile
    <3>3. CASE IsToml(files, path, source, done)
      <4>1. PICK d \in done : \E x : TomlAt(files, path, source, d, x)
        BY <3>3 DEF IsToml
      <4>2. PICK x : TomlAt(files, path, source, d, x)  BY <4>1
      <4>3. TomlAt(after, path, source, d, x)  BY <3>1, <4>2, SameFile
      <4>4. IsToml(after, path, source, done \cup {e})  BY <4>3 DEF IsToml
      <4> QED  BY <4>4
    <3>4. CASE IsStaticFile(files, path, source, done)
      <4>1. PICK d \in done : \E x, n, f : StaticAt(files, path, source, d, x, n, f)
        BY <3>4 DEF IsStaticFile
      <4>2. PICK x, n, f : StaticAt(files, path, source, d, x, n, f)  BY <4>1
      <4> DEFINE folder == EntityPath(d, x, 0, "")
      <4>3. /\ folder.folder = path.folder /\ folder.type = path.type
            /\ folder.name = path.name /\ folder.version = 0 /\ path.folder = "entities"
        BY <4>2 DEF StaticAt, EntityPath, Path
      <4>4. folder \in DOMAIN files => files[folder].key = d
        BY <4>2 DEF StaticAt
      <4> HIDE DEF folder
      <4>5. folder # root  BY <1>2, <1>7, <2>3, <4>3
      <4>6. folder \notin DOMAIN statics  BY <1>6, <4>3
      <4>7. folder \in DOMAIN after => after[folder].key = d
        BY <1>12, <1>13, <4>4, <4>5, <4>6
      <4>8. StaticAt(after, path, source, d, x, n, f)
        BY <3>1, <4>2, <4>7 DEF StaticAt, folder
      <4>9. IsStaticFile(after, path, source, done \cup {e})  BY <4>8 DEF IsStaticFile
      <4> QED  BY <4>9
    <3>5. CASE IsCollection(files, path, source, codes)
      <4>1. PICK c \in codes : \E x : CollectionAt(files, path, source, c, x)
        BY <3>5 DEF IsCollection
      <4>2. PICK x : CollectionAt(files, path, source, c, x)  BY <4>1
      <4>3. CollectionAt(after, path, source, c, x)  BY <3>1, <4>2, SameFile
      <4>4. IsCollection(after, path, source, codes)  BY <4>3 DEF IsCollection
      <4> QED  BY <4>4
    <3> QED  BY <2>3, <3>2, <3>3, <3>4, <3>5 DEF Sorted
  <2> QED  BY <1>12, <2>1, <2>2, <2>3
<1>17. OneToml(after)
  <2>1. ASSUME NEW q \in DOMAIN files, q.folder = "entities", q.version = 0
        PROVE  files[q].key # e
    <3>1. IsToml(files, q, source, done)  BY <2>1, WhichToml
    <3>2. PICK d \in done : \E x : TomlAt(files, q, source, d, x)  BY <3>1 DEF IsToml
    <3>3. PICK x : TomlAt(files, q, source, d, x)  BY <3>2
    <3>4. files[q].key = d  BY <3>3, TomlKey
    <3> QED  BY <3>4
  <2>2. SUFFICES ASSUME NEW p \in DOMAIN after, NEW q \in DOMAIN after,
                        p.folder = q.folder, p.folder # "", p.version = 0, q.version = 0,
                        after[p].key = after[q].key
                 PROVE  p = q
    BY DEF OneToml
  <2>3. (p = root \/ p \in DOMAIN files) /\ (q = root \/ q \in DOMAIN files)
    BY <1>6, <1>12, <2>2
  <2>4. CASE p = root /\ q = root  BY <2>4
  <2>5. CASE p = root /\ q \in DOMAIN files
    BY <1>2, <1>13, <1>15, <2>1, <2>2, <2>5
  <2>6. CASE p \in DOMAIN files /\ q = root
    BY <1>2, <1>13, <1>15, <2>1, <2>2, <2>6
  <2>7. CASE p \in DOMAIN files /\ q \in DOMAIN files
    <3>1. files[p].key = files[q].key  BY <1>13, <2>2, <2>7
    <3> QED  BY <2>2, <2>7, <3>1 DEF OneToml
  <2> QED  BY <2>3, <2>4, <2>5, <2>6, <2>7
<1>18. SlugsUsed(after, used \cup {Slug[NameOf[e]]})
  <2>1. ASSUME NEW path \in DOMAIN after, path # PackageFile
        PROVE  path.name.slug \in used \cup {Slug[NameOf[e]]}
    <3>1. CASE path \in DOMAIN files  BY <2>1, <3>1 DEF SlugsUsed
    <3>2. CASE path \notin DOMAIN files
      <4>1. path.name = name  BY <1>2, <1>6, <1>12, <3>2
      <4> QED  BY <1>1, <4>1
    <3> QED  BY <3>1, <3>2
  <2> QED  BY <2>1 DEF SlugsUsed
<1>19. ASSUME Whole(files, source, done, codes)
       PROVE  Whole(after, source, done \cup {e}, codes)
  <2>1. PackageFile \in DOMAIN after  BY <1>12, <1>19 DEF Whole
  <2>3. ASSUME NEW path \in DOMAIN after, path.version # 0
        PROVE  RootOf(path) \in DOMAIN after
    BY <1>2, <1>6, <1>12, <1>19, <2>3 DEF Whole
  <2>4. ASSUME NEW d \in done \cup {e} PROVE \E x : HasFolder(after, source, d, x)
    <3>1. CASE d = e
      <4>1. HasFolder(after, source, e, name)
        BY <1>4, <1>5, <1>12, <1>14 DEF HasFolder, row
      <4> QED  BY <3>1, <4>1
    <3>2. CASE d \in done
      <4>1. PICK x : HasFolder(files, source, d, x)  BY <1>19, <3>2 DEF Whole
      <4> DEFINE folder == EntityPath(d, x, 0, "")
      <4>2. folder \in DOMAIN files /\ TomlAt(files, folder, source, d, x)
        BY <4>1 DEF HasFolder
      <4> HIDE DEF folder
      <4>3. folder \in DOMAIN after /\ TomlAt(after, folder, source, d, x)
        BY <1>12, <1>13, <4>2, SameFile
      <4>4. HasFolder(after, source, d, x)
        BY <1>12, <4>1, <4>3 DEF HasFolder, folder
      <4> QED  BY <4>4
    <3> QED  BY <3>1, <3>2
  <2>5. ASSUME NEW c \in codes PROVE \E x : HasCollection(after, source, c, x)
    <3>1. PICK x : HasCollection(files, source, c, x)  BY <1>19 DEF Whole
    <3>2. CollectionPath(x) \in DOMAIN files /\ CollectionAt(files, CollectionPath(x), source, c, x)
      BY <3>1 DEF HasCollection
    <3>3. CollectionPath(x) \in DOMAIN after /\ CollectionAt(after, CollectionPath(x), source, c, x)
      BY <1>12, <1>13, <3>2, SameFile
    <3> QED  BY <3>3 DEF HasCollection
  <2> QED  BY <2>1, <2>3, <2>4, <2>5 DEF Whole
<1> QED  BY <1>16, <1>17, <1>18, <1>19

\* The files of an entity have every field.
LEMMA EntityStaysValid ==
    ASSUME NEW files, AllValid(files), NEW e \in Entities, NEW row, AuthoredRow(e, row),
           NEW there, RowOK(e, row, there), NEW name, NEW root, root = EntityPath(e, name, 0, ""),
           NEW after, after = WithAll(With(files, root, EntityToml(e, row)),
                                      StaticFiles(e, row, root))
    PROVE  AllValid(after)
<1>1. PICK toml : toml = EntityToml(e, row)  OBVIOUS
<1>2. PICK first : first = With(files, root, toml)  OBVIOUS
<1>3. PICK statics : statics = StaticFiles(e, row, EntityPath(e, name, 0, ""))  OBVIOUS
<1>4. after = WithAll(first, statics)  BY <1>1, <1>2, <1>3
<1>5. toml.valid = TRUE  BY <1>1 DEF EntityToml
<1>6. ASSUME NEW path \in DOMAIN statics PROVE path.version # 0
  <2>1. ComesFrom(e, row, name, path, statics[path])  BY <1>3, StaticComesFrom
  <2>2. PICK n \in VersionNumbers(row) :
            \E f \in row.versions[n] : path = EntityPath(e, name, n, f.path)
    BY <2>1 DEF ComesFrom
  <2>3. n # 0  BY DEF VersionNumbers
  <2>4. PICK file : path = EntityPath(e, name, n, file)  BY <2>2
  <2>5. path.version = n  BY <2>4 DEF EntityPath, Path
  <2> QED  BY <2>3, <2>5
<1>7. ASSUME NEW path \in DOMAIN after, path.version = 0 PROVE after[path].valid = TRUE
  <2>1. path \notin DOMAIN statics  BY <1>6, <1>7
  <2>2. /\ DOMAIN after = DOMAIN first \cup DOMAIN statics
        /\ path \in DOMAIN first => after[path] = first[path]
    BY <1>4, <2>1 DEF WithAll
  <2>3. path \in DOMAIN first /\ after[path] = first[path]  BY <1>7, <2>1, <2>2
  <2>4. /\ DOMAIN first = DOMAIN files \cup {root} /\ first[root] = toml
        /\ path \in DOMAIN files /\ path # root => first[path] = files[path]
    BY <1>2 DEF With
  <2>5. CASE path = root  BY <1>5, <2>3, <2>4, <2>5
  <2>6. CASE path # root  BY <1>7, <2>3, <2>4, <2>6 DEF AllValid
  <2> QED  BY <2>5, <2>6
<1> QED  BY <1>7 DEF AllValid

\* The archive as it is opened.
LEMMA FirstFile ==
    ASSUME NEW p, NEW ok \in BOOLEAN,
           NEW files, files = [path \in {PackageFile} |-> [valid |-> ok, key |-> p]],
           NEW source
    PROVE  /\ Sorted(files, source, {}, {}) /\ OneToml(files) /\ SlugsUsed(files, {})
           /\ Whole(files, source, {}, {})
           /\ ok = TRUE => AllValid(files)
<1>1. DOMAIN files = {PackageFile} /\ files[PackageFile] = [valid |-> ok, key |-> p]
  OBVIOUS
<1>2. files[PackageFile].valid = ok /\ files[PackageFile].key = p
  <2>1. [valid |-> ok, key |-> p].valid = ok /\ [valid |-> ok, key |-> p].key = p  OBVIOUS
  <2> QED  BY <1>1, <2>1
<1>3. PackageAt(files, PackageFile)  BY <1>1, <1>2 DEF PackageAt
<1>4. PackageFile.folder = "" /\ PackageFile.version = 0  BY PackageFileParts
<1>5. Sorted(files, source, {}, {})  BY <1>1, <1>3 DEF Sorted
<1>6. OneToml(files)  BY <1>1 DEF OneToml
<1>7. SlugsUsed(files, {})  BY <1>1 DEF SlugsUsed
<1>8. Whole(files, source, {}, {})  BY <1>1, <1>4 DEF Whole
<1>9. ok = TRUE => AllValid(files)  BY <1>1, <1>2 DEF AllValid
<1> QED  BY <1>5, <1>6, <1>7, <1>8, <1>9

\* What has been written depends on the entities and on the collections written.
LEMMA SameSource ==
    ASSUME NEW files, NEW source, NEW after, NEW done, NEW codes,
           after.entities = source.entities,
           \A c \in codes : after.collections[c].entities = source.collections[c].entities
    PROVE  /\ Sorted(files, source, done, codes) => Sorted(files, after, done, codes)
           /\ Whole(files, source, done, codes) => Whole(files, after, done, codes)
<1>1. ASSUME NEW path, NEW e, NEW name, TomlAt(files, path, source, e, name)
      PROVE  TomlAt(files, path, after, e, name)
  BY <1>1 DEF TomlAt
<1>2. ASSUME NEW path, NEW e, NEW name, NEW n, NEW f, StaticAt(files, path, source, e, name, n, f)
      PROVE  StaticAt(files, path, after, e, name, n, f)
  BY <1>2 DEF StaticAt
<1>3. ASSUME NEW path, NEW c \in codes, NEW name, CollectionAt(files, path, source, c, name)
      PROVE  CollectionAt(files, path, after, c, name)
  BY <1>3 DEF CollectionAt
<1>4. ASSUME NEW path
      PROVE  /\ IsToml(files, path, source, done) => IsToml(files, path, after, done)
             /\ IsStaticFile(files, path, source, done) => IsStaticFile(files, path, after, done)
             /\ IsCollection(files, path, source, codes) => IsCollection(files, path, after, codes)
  <2>1. IsToml(files, path, source, done) => IsToml(files, path, after, done)
    BY <1>1 DEF IsToml
  <2>2. IsStaticFile(files, path, source, done) => IsStaticFile(files, path, after, done)
    BY <1>2 DEF IsStaticFile
  <2>3. IsCollection(files, path, source, codes) => IsCollection(files, path, after, codes)
    BY <1>3 DEF IsCollection
  <2> QED  BY <2>1, <2>2, <2>3
<1>5. Sorted(files, source, done, codes) => Sorted(files, after, done, codes)
  BY <1>4 DEF Sorted
<1>6. ASSUME NEW e, NEW name, HasFolder(files, source, e, name)
      PROVE  HasFolder(files, after, e, name)
  BY <1>1, <1>6 DEF HasFolder
<1>7. ASSUME NEW c \in codes, NEW name, HasCollection(files, source, c, name)
      PROVE  HasCollection(files, after, c, name)
  BY <1>3, <1>7 DEF HasCollection
<1>8. Whole(files, source, done, codes) => Whole(files, after, done, codes)
  BY <1>6, <1>7 DEF Whole
<1> QED  BY <1>5, <1>8

\* What has been written may also be said to be among more.
LEMMA SortedGrows ==
    ASSUME NEW files, NEW source, NEW done, NEW codes, Sorted(files, source, done, codes),
           NEW more, done \subseteq more, NEW moreCodes, codes \subseteq moreCodes
    PROVE  Sorted(files, source, more, moreCodes)
<1>1. ASSUME NEW path
      PROVE  /\ IsToml(files, path, source, done) => IsToml(files, path, source, more)
             /\ IsStaticFile(files, path, source, done) => IsStaticFile(files, path, source, more)
             /\ IsCollection(files, path, source, codes)
                   => IsCollection(files, path, source, moreCodes)
  BY DEF IsToml, IsStaticFile, IsCollection
<1> QED  BY <1>1 DEF Sorted

\* The file of a collection that is not written yet is new, and so on as for entities.
LEMMA CollectionFileWritten ==
    ASSUME NEW files, NEW source, NEW done, NEW codes, codes \subseteq Codes,
           Sorted(files, source, done, codes), OneToml(files),
           NEW used, SlugsUsed(files, used),
           NEW c \in Codes, c \notin codes,
           NEW root, root = CollectionPath(FileName(used, c)), NEW ok \in BOOLEAN,
           NEW after, after = With(files, root, [valid |-> ok, key |-> c,
                                                 entities |-> source.collections[c].entities])
    PROVE  /\ Sorted(after, source, done, codes \cup {c})
           /\ OneToml(after)
           /\ SlugsUsed(after, used \cup {Slug[c]})
           /\ Whole(files, source, done, codes) => Whole(after, source, done, codes \cup {c})
<1> DEFINE name == FileName(used, c)
           body == [valid |-> ok, key |-> c, entities |-> source.collections[c].entities]
<1>1. name \in NamesOf(c) /\ name.slug = Slug[c]
  <2>1. name \in NamesOf(c)  BY NameIsOf
  <2>2. name.slug = Slug[c]  BY DEF FileName
  <2> QED  BY <2>1, <2>2
<1>2. root.folder = "collections" /\ root.name = name /\ root.version = 0
  BY DEF CollectionPath, Path
<1>3. root = CollectionPath(name)  OBVIOUS
<1>4. root \notin DOMAIN files  BY <1>2, FreshCollection
<1> HIDE DEF name, body
<1>5. after = With(files, root, body)  BY DEF body
<1>6. /\ DOMAIN after = DOMAIN files \cup {root} /\ after[root] = body
      /\ \A path \in DOMAIN files : path # root /\ after[path] = files[path]
  BY <1>4, <1>5 DEF With
<1>7. CollectionAt(after, root, source, c, name) /\ after[root].valid = ok
  <2>1. PICK x : x = source.collections[c].entities  OBVIOUS
  <2>2. [valid |-> ok, key |-> c, entities |-> x].valid = ok  OBVIOUS
  <2>3. after[root] = [valid |-> ok, key |-> c, entities |-> x]  BY <1>6, <2>1 DEF body
  <2>4. after[root].valid = ok  BY <2>2, <2>3
  <2> QED  BY <1>1, <1>3, <2>1, <2>3, <2>4 DEF CollectionAt
<1>8. after[root].key = c  BY <1>7 DEF CollectionAt
<1>9. Sorted(after, source, done, codes \cup {c})
  <2> SUFFICES ASSUME NEW path \in DOMAIN after
               PROVE  \/ PackageAt(after, path)
                      \/ IsToml(after, path, source, done)
                      \/ IsStaticFile(after, path, source, done)
                      \/ IsCollection(after, path, source, codes \cup {c})
    BY DEF Sorted
  <2>1. CASE path = root
    <3>1. IsCollection(after, path, source, codes \cup {c})  BY <1>7, <2>1 DEF IsCollection
    <3> QED  BY <3>1
  <2>2. CASE path \in DOMAIN files
    <3>1. after[path] = files[path]  BY <1>6, <2>2
    <3>2. CASE PackageAt(files, path)  BY <3>1, <3>2, SameFile
    <3>3. CASE IsToml(files, path, source, done)
      <4>1. PICK d \in done : \E x : TomlAt(files, path, source, d, x)
        BY <3>3 DEF IsToml
      <4>2. PICK x : TomlAt(files, path, source, d, x)  BY <4>1
      <4>3. TomlAt(after, path, source, d, x)  BY <3>1, <4>2, SameFile
      <4>4. IsToml(after, path, source, done)  BY <4>3 DEF IsToml
      <4> QED  BY <4>4
    <3>4. CASE IsStaticFile(files, path, source, done)
      <4>1. PICK d \in done : \E x, n, f : StaticAt(files, path, source, d, x, n, f)
        BY <3>4 DEF IsStaticFile
      <4>2. PICK x, n, f : StaticAt(files, path, source, d, x, n, f)  BY <4>1
      <4> DEFINE folder == EntityPath(d, x, 0, "")
      <4>3. folder.folder = "entities"  BY DEF EntityPath, Path
      <4>4. folder \in DOMAIN files => files[folder].key = d
        BY <4>2 DEF StaticAt
      <4> HIDE DEF folder
      <4>5. folder # root  BY <1>2, <4>3
      <4>6. folder \in DOMAIN after => after[folder].key = d  BY <1>6, <4>4, <4>5
      <4>7. StaticAt(after, path, source, d, x, n, f)
        BY <3>1, <4>2, <4>6 DEF StaticAt, folder
      <4>8. IsStaticFile(after, path, source, done)  BY <4>7 DEF IsStaticFile
      <4> QED  BY <4>8
    <3>5. CASE IsCollection(files, path, source, codes)
      <4>1. PICK d \in codes : \E x : CollectionAt(files, path, source, d, x)
        BY <3>5 DEF IsCollection
      <4>2. PICK x : CollectionAt(files, path, source, d, x)  BY <4>1
      <4>3. CollectionAt(after, path, source, d, x)  BY <3>1, <4>2, SameFile
      <4>4. IsCollection(after, path, source, codes \cup {c})  BY <4>3 DEF IsCollection
      <4> QED  BY <4>4
    <3> QED  BY <2>2, <3>2, <3>3, <3>4, <3>5 DEF Sorted
  <2> QED  BY <1>6, <2>1, <2>2
<1>10. OneToml(after)
  <2>1. ASSUME NEW q \in DOMAIN files, q.folder = "collections"
        PROVE  files[q].key # c
    <3>1. IsCollection(files, q, source, codes)  BY <2>1, WhichCollection
    <3>2. PICK d \in codes : \E x : CollectionAt(files, q, source, d, x)  BY <3>1 DEF IsCollection
    <3>3. PICK x : CollectionAt(files, q, source, d, x)  BY <3>2
    <3>4. files[q].key = d  BY <3>3 DEF CollectionAt
    <3> QED  BY <3>4
  <2>2. SUFFICES ASSUME NEW p \in DOMAIN after, NEW q \in DOMAIN after,
                        p.folder = q.folder, p.folder # "", p.version = 0, q.version = 0,
                        after[p].key = after[q].key
                 PROVE  p = q
    BY DEF OneToml
  <2>3. (p = root \/ p \in DOMAIN files) /\ (q = root \/ q \in DOMAIN files)
    BY <1>6, <2>2
  <2>4. CASE p = root /\ q = root  BY <2>4
  <2>5. CASE p = root /\ q \in DOMAIN files
    BY <1>2, <1>6, <1>8, <2>1, <2>2, <2>5
  <2>6. CASE p \in DOMAIN files /\ q = root
    BY <1>2, <1>6, <1>8, <2>1, <2>2, <2>6
  <2>7. CASE p \in DOMAIN files /\ q \in DOMAIN files
    <3>1. files[p].key = files[q].key  BY <1>6, <2>2, <2>7
    <3> QED  BY <2>2, <2>7, <3>1 DEF OneToml
  <2> QED  BY <2>3, <2>4, <2>5, <2>6, <2>7
<1>11. SlugsUsed(after, used \cup {Slug[c]})
  <2>1. ASSUME NEW path \in DOMAIN after, path # PackageFile
        PROVE  path.name.slug \in used \cup {Slug[c]}
    <3>1. CASE path \in DOMAIN files  BY <2>1, <3>1 DEF SlugsUsed
    <3>2. CASE path = root  BY <1>1, <1>2, <3>2
    <3> QED  BY <1>6, <3>1, <3>2
  <2> QED  BY <2>1 DEF SlugsUsed
<1>12. ASSUME Whole(files, source, done, codes)
       PROVE  Whole(after, source, done, codes \cup {c})
  <2>1. PackageFile \in DOMAIN after  BY <1>6, <1>12 DEF Whole
  <2>3. ASSUME NEW path \in DOMAIN after, path.version # 0
        PROVE  RootOf(path) \in DOMAIN after
    BY <1>2, <1>6, <1>12, <2>3 DEF Whole
  <2>4. ASSUME NEW d \in done PROVE \E x : HasFolder(after, source, d, x)
    <3>1. PICK x : HasFolder(files, source, d, x)  BY <1>12 DEF Whole
    <3> DEFINE folder == EntityPath(d, x, 0, "")
    <3>2. folder \in DOMAIN files /\ TomlAt(files, folder, source, d, x)
      BY <3>1 DEF HasFolder
    <3> HIDE DEF folder
    <3>3. folder \in DOMAIN after /\ TomlAt(after, folder, source, d, x)
      BY <1>6, <3>2, SameFile
    <3>4. HasFolder(after, source, d, x)  BY <1>6, <3>1, <3>3 DEF HasFolder, folder
    <3> QED  BY <3>4
  <2>5. ASSUME NEW d \in codes \cup {c} PROVE \E x : HasCollection(after, source, d, x)
    <3>1. CASE d = c
      <4>1. HasCollection(after, source, c, name)  BY <1>3, <1>6, <1>7 DEF HasCollection
      <4> QED  BY <3>1, <4>1
    <3>2. CASE d \in codes
      <4>1. PICK x : HasCollection(files, source, d, x)  BY <1>12, <3>2 DEF Whole
      <4>2. /\ CollectionPath(x) \in DOMAIN files
            /\ CollectionAt(files, CollectionPath(x), source, d, x)
        BY <4>1 DEF HasCollection
      <4>3. /\ CollectionPath(x) \in DOMAIN after
            /\ CollectionAt(after, CollectionPath(x), source, d, x)
        BY <1>6, <4>2, SameFile
      <4> QED  BY <4>3 DEF HasCollection
    <3> QED  BY <3>1, <3>2
  <2> QED  BY <2>1, <2>3, <2>4, <2>5 DEF Whole
<1> QED  BY <1>9, <1>10, <1>11, <1>12

\* And so has a file that is given one more.
LEMMA FileStaysValid ==
    ASSUME NEW files, AllValid(files), NEW root, NEW body, body.valid = TRUE
    PROVE  AllValid(With(files, root, body))
BY DEF AllValid, With

-----------------------------------------------------------------------------
(* Losing files                                                            *)

\* Files that are lost, or lose a field, leave what the others are.
LEMMA Thinner ==
    ASSUME NEW files, NEW source, NEW done, NEW codes,
           Sorted(files, source, done, codes), OneToml(files),
           NEW after, DOMAIN after \subseteq DOMAIN files,
           \A p \in DOMAIN after : p.version # 0 => after[p] = files[p],
           \A p \in DOMAIN after : p.version = 0 =>
                after[p] = files[p] \/ after[p] = [files[p] EXCEPT !.valid = FALSE]
    PROVE  Sorted(after, source, done, codes) /\ OneToml(after)
<1>1. ASSUME NEW p \in DOMAIN after, PackageAt(files, p) PROVE PackageAt(after, p)
  <2>1. p.version = 0  BY <1>1, PackageAtIs
  <2>2. CASE after[p] = files[p]  BY <1>1, <2>2, SameFile
  <2>3. CASE after[p] = [files[p] EXCEPT !.valid = FALSE]
    <3>1. PICK k : k = files[p].key  OBVIOUS
    <3>2. PICK v : v = files[p].valid  OBVIOUS
    <3>3. files[p] = [valid |-> v, key |-> k]  BY <1>1, <3>1, <3>2 DEF PackageAt
    <3>4. PICK w : w = FALSE  OBVIOUS
    <3>5. after[p] = [files[p] EXCEPT !.valid = w]  BY <2>3, <3>4
    <3>6. after[p] = [valid |-> w, key |-> k]  BY <3>3, <3>5
    <3>7. after[p].valid = w /\ after[p].key = k  BY <3>6
    <3> QED  BY <1>1, <3>4, <3>6, <3>7 DEF PackageAt
  <2> QED  BY <2>1, <2>2, <2>3
<1>2. ASSUME NEW p \in DOMAIN after, NEW e, NEW name, TomlAt(files, p, source, e, name)
      PROVE  TomlAt(after, p, source, e, name)
  <2>1. p.version = 0  BY <1>2 DEF TomlAt, EntityPath, Path
  <2>2. CASE after[p] = files[p]  BY <1>2, <2>2, SameFile
  <2>3. CASE after[p] = [files[p] EXCEPT !.valid = FALSE]
    <3>1. PICK v : v = files[p].valid  OBVIOUS
    <3>2. files[p] = TomlOf(e, source.entities[e], v)  BY <1>2, <3>1 DEF TomlAt
    <3>3. PICK w : w = FALSE  OBVIOUS
    <3>4. after[p] = [files[p] EXCEPT !.valid = w]  BY <2>3, <3>3
    <3>5. after[p] = TomlOf(e, source.entities[e], w)
      <4> DEFINE row == source.entities[e]
      <4>1. PICK c : c = IF KindOf[e] \in Restorable THEN {KindOf[e]} ELSE {}  OBVIOUS
      <4>2. PICK h : h = VersionTables(e, row)  OBVIOUS
      <4>3. PICK d, q : d = row.draft /\ q = row.published  OBVIOUS
      <4>4. \A x : TomlOf(e, row, x) = [valid |-> x, key |-> e, container |-> c, draft |-> d,
                                        published |-> q, versions |-> h]
        BY <4>1, <4>2, <4>3 DEF TomlOf
      <4> HIDE DEF row
      <4>5. files[p] = [valid |-> v, key |-> e, container |-> c, draft |-> d,
                        published |-> q, versions |-> h]
        BY <3>2, <4>4 DEF row
      <4>6. after[p] = [valid |-> w, key |-> e, container |-> c, draft |-> d,
                        published |-> q, versions |-> h]
        BY <3>4, <4>5
      <4>7. after[p] = TomlOf(e, row, w)  BY <4>4, <4>6
      <4> QED  BY <4>7 DEF row
    <3>6. after[p].valid = w
      <4>1. TomlOf(e, source.entities[e], w).valid = w  BY DEF TomlOf
      <4> QED  BY <3>5, <4>1
    <3> QED  BY <1>2, <3>3, <3>5, <3>6 DEF TomlAt
  <2> QED  BY <2>1, <2>2, <2>3
<1>3. ASSUME NEW p \in DOMAIN after, NEW c, NEW name, CollectionAt(files, p, source, c, name)
      PROVE  CollectionAt(after, p, source, c, name)
  <2>1. p.version = 0  BY <1>3 DEF CollectionAt, CollectionPath, Path
  <2>2. CASE after[p] = files[p]  BY <1>3, <2>2, SameFile
  <2>3. CASE after[p] = [files[p] EXCEPT !.valid = FALSE]
    <3>1. PICK v : v = files[p].valid  OBVIOUS
    <3>2. PICK x : x = source.collections[c].entities  OBVIOUS
    <3>3. files[p] = [valid |-> v, key |-> c, entities |-> x]
      BY <1>3, <3>1, <3>2 DEF CollectionAt
    <3>4. PICK w : w = FALSE  OBVIOUS
    <3>5. after[p] = [files[p] EXCEPT !.valid = w]  BY <2>3, <3>4
    <3>6. after[p] = [valid |-> w, key |-> c, entities |-> x]  BY <3>3, <3>5
    <3>7. after[p].valid = w  BY <3>6
    <3> QED  BY <1>3, <3>2, <3>4, <3>6, <3>7 DEF CollectionAt
  <2> QED  BY <2>1, <2>2, <2>3
<1>4. ASSUME NEW p \in DOMAIN after, IsToml(files, p, source, done)
      PROVE  IsToml(after, p, source, done)
  BY <1>2, <1>4 DEF IsToml
<1>5. ASSUME NEW p \in DOMAIN after, IsCollection(files, p, source, codes)
      PROVE  IsCollection(after, p, source, codes)
  BY <1>3, <1>5 DEF IsCollection
\* The file of an entity or a collection keeps its key.
<1>6. ASSUME NEW p \in DOMAIN after, p.version = 0, p.folder # ""
      PROVE  after[p].key = files[p].key
  <2>1. \/ IsToml(files, p, source, done) \/ IsCollection(files, p, source, codes)
    <3>1. ~ PackageAt(files, p)  BY <1>6, PackageAtIs
    <3>2. ~ IsStaticFile(files, p, source, done)  BY <1>6, StaticPlace DEF IsStaticFile
    <3> QED  BY <3>1, <3>2 DEF Sorted
  <2>2. CASE IsToml(files, p, source, done)
    <3>1. PICK e \in done : \E x : TomlAt(files, p, source, e, x)  BY <2>2 DEF IsToml
    <3>2. PICK x : TomlAt(files, p, source, e, x)  BY <3>1
    <3>3. TomlAt(after, p, source, e, x)  BY <1>2, <3>2
    <3>4. files[p].key = e  BY <3>2, TomlKey
    <3>5. after[p].key = e  BY <3>3, TomlKey
    <3> QED  BY <3>4, <3>5
  <2>3. CASE IsCollection(files, p, source, codes)
    <3>1. PICK c \in codes : \E x : CollectionAt(files, p, source, c, x)
      BY <2>3 DEF IsCollection
    <3>2. PICK x : CollectionAt(files, p, source, c, x)  BY <3>1
    <3>3. CollectionAt(after, p, source, c, x)  BY <1>3, <3>2
    <3>4. files[p].key = c  BY <3>2 DEF CollectionAt
    <3>5. after[p].key = c  BY <3>3 DEF CollectionAt
    <3> QED  BY <3>4, <3>5
  <2> QED  BY <2>1, <2>2, <2>3
<1>7. ASSUME NEW p \in DOMAIN after, IsStaticFile(files, p, source, done)
      PROVE  IsStaticFile(after, p, source, done)
  <2>1. PICK e \in done : \E x, n, f : StaticAt(files, p, source, e, x, n, f)
    BY <1>7 DEF IsStaticFile
  <2>2. PICK x, n, f : StaticAt(files, p, source, e, x, n, f)  BY <2>1
  <2>3. p.version # 0
    <3>1. p.version = n  BY <2>2 DEF StaticAt, EntityPath, Path
    <3>2. n # 0  BY <2>2 DEF StaticAt, VersionNumbers
    <3> QED  BY <3>1, <3>2
  <2>4. after[p] = files[p]  BY <2>3
  <2> DEFINE folder == EntityPath(e, x, 0, "")
  <2>5. folder.version = 0 /\ folder.folder = "entities"  BY DEF EntityPath, Path
  <2>6. folder \in DOMAIN files => files[folder].key = e  BY <2>2 DEF StaticAt
  <2> HIDE DEF folder
  <2>7. folder \in DOMAIN after => after[folder].key = e  BY <1>6, <2>5, <2>6
  <2>8. StaticAt(after, p, source, e, x, n, f)  BY <2>2, <2>4, <2>7 DEF StaticAt, folder
  <2> QED  BY <2>8 DEF IsStaticFile
<1>8. Sorted(after, source, done, codes)  BY <1>1, <1>4, <1>5, <1>7 DEF Sorted
<1>9. OneToml(after)  BY <1>6 DEF OneToml
<1> QED  BY <1>8, <1>9

\* A file that is removed, ...
LEMMA FileLost ==
    ASSUME NEW files, NEW source, NEW done, NEW codes,
           Sorted(files, source, done, codes), OneToml(files), NEW path,
           NEW after, after = [p \in DOMAIN files \ {path} |-> files[p]]
    PROVE  Sorted(after, source, done, codes) /\ OneToml(after)
<1>1. /\ DOMAIN after \subseteq DOMAIN files
      /\ \A p \in DOMAIN after : after[p] = files[p]
  OBVIOUS
<1>2. \A p \in DOMAIN after : p.version # 0 => after[p] = files[p]  BY <1>1
<1>3. \A p \in DOMAIN after : p.version = 0 =>
          after[p] = files[p] \/ after[p] = [files[p] EXCEPT !.valid = FALSE]
  BY <1>1
<1> QED  BY <1>1, <1>2, <1>3, Thinner

\* ... and a field that is removed.
LEMMA FieldLost ==
    ASSUME NEW files, NEW source, NEW done, NEW codes,
           Sorted(files, source, done, codes), OneToml(files),
           NEW path \in DOMAIN files, path.version = 0,
           NEW after, after = [files EXCEPT ![path].valid = FALSE]
    PROVE  Sorted(after, source, done, codes) /\ OneToml(after)
<1> DEFINE body == [files[path] EXCEPT !.valid = FALSE]
<1>1. after = [files EXCEPT ![path] = body]  OBVIOUS
<1> HIDE DEF body
<1>2. /\ DOMAIN after = DOMAIN files
      /\ after[path] = body
      /\ \A p \in DOMAIN after : p # path => after[p] = files[p]
  BY <1>1
<1>3. \A p \in DOMAIN after : p.version # 0 => after[p] = files[p]  BY <1>2
<1>4. \A p \in DOMAIN after : p.version = 0 =>
          after[p] = files[p] \/ after[p] = [files[p] EXCEPT !.valid = FALSE]
  BY <1>2 DEF body
<1>5. DOMAIN after \subseteq DOMAIN files  BY <1>2
<1> QED  BY <1>3, <1>4, <1>5, Thinner

-----------------------------------------------------------------------------
(* Reading an archive                                                      *)

EntitiesOK(source) == \A e \in There(source) : RowOK(e, source.entities[e], There(source))

\* What a dump may have seen: the entities as they were at its start, the collections later.
SourceOK(source) == source \in Content /\ AuthoredRows(source) /\ EntitiesOK(source)

Enabled(source) == {c \in Codes : source.collections[c] # None /\ source.collections[c].enabled}

Readable ==
    /\ SourceOK(archive.source)
    /\ Sorted(archive.files, archive.source, There(archive.source), Enabled(archive.source))
    /\ OneToml(archive.files)

TomlFileOf(path, e) == \E name : TomlAt(archive.files, path, archive.source, e, name)

\* A row that the dump has seen.
LEMMA SourceRow ==
    ASSUME NEW source, SourceOK(source), NEW e \in There(source)
    PROVE  /\ e \in Entities /\ source.entities[e] # None
           /\ AuthoredRow(e, source.entities[e])
           /\ RowOK(e, source.entities[e], There(source))
           /\ source.entities[e] \in EntityRow
<1>1. e \in Entities /\ source.entities[e] # None  BY DEF There
<1>2. AuthoredRow(e, source.entities[e])  BY <1>1 DEF SourceOK, AuthoredRows
<1>3. RowOK(e, source.entities[e], There(source))  BY DEF SourceOK, EntitiesOK
<1> QED  BY <1>1, <1>2, <1>3 DEF AuthoredRow

\* Each TOML file that a load reads is of an entity that was dumped, ...
LEMMA TomlFile ==
    ASSUME Readable, NEW path \in ComponentTomls \cup ContainerTomls
    PROVE  \E e \in There(archive.source) : TomlFileOf(path, e)
<1>1. /\ Sorted(archive.files, archive.source, There(archive.source), Enabled(archive.source))
      /\ path \in DOMAIN archive.files /\ path.folder = "entities"
  BY DEF Readable, ComponentTomls, ContainerTomls, Files
<1>2. path.version = 0
  <2>1. CASE path \in ComponentTomls  BY <2>1 DEF ComponentTomls, IsStatic
  <2>2. CASE path \in ContainerTomls /\ path.version # 0
    <3>1. path.type = ""  BY <2>2 DEF ContainerTomls
    <3>2. IsStaticFile(archive.files, path, archive.source, There(archive.source))
      BY <1>1, <2>2, WhichStatic
    <3>3. PICK e \in There(archive.source) :
              \E x, n, f : StaticAt(archive.files, path, archive.source, e, x, n, f)
      BY <3>2 DEF IsStaticFile
    <3>4. PICK x, n, f : StaticAt(archive.files, path, archive.source, e, x, n, f)  BY <3>3
    <3>5. path.type = TypeFolder(e) /\ ~ Container(e)  BY <3>4 DEF StaticAt, EntityPath, Path
    <3>6. e \in Entities  BY DEF There
    <3> QED  BY <3>1, <3>5, <3>6, FolderOfContainer
  <2> QED  BY <2>1, <2>2
<1>3. IsToml(archive.files, path, archive.source, There(archive.source))
  BY <1>1, <1>2, WhichToml
<1> QED  BY <1>3 DEF IsToml, TomlFileOf

\* ... in the folder of its kind, ...
LEMMA TomlFolder ==
    ASSUME NEW path \in Files, NEW e \in Entities, TomlFileOf(path, e)
    PROVE  /\ Container(e) => path \in ContainerTomls /\ path \notin ComponentTomls
           /\ ~ Container(e) => path \in ComponentTomls /\ path \notin ContainerTomls
                                  /\ path.type = KindOf[e]
<1>1. PICK name : TomlAt(archive.files, path, archive.source, e, name)  BY DEF TomlFileOf
<1>2. path.folder = "entities" /\ path.type = TypeFolder(e) /\ path.version = 0
  BY <1>1 DEF TomlAt, EntityPath, Path
<1>3. TypeFolder(e) = "" <=> Container(e)  BY FolderOfContainer
<1>4. ~ Container(e) => TypeFolder(e) = KindOf[e]  BY DEF TypeFolder
<1> QED  BY <1>2, <1>3, <1>4 DEF ContainerTomls, ComponentTomls, IsStatic

\* ... and has its key.
LEMMA KeyOfFile ==
    ASSUME NEW path, NEW e, TomlFileOf(path, e)
    PROVE  Body(path).key = e
<1>1. PICK name : TomlAt(archive.files, path, archive.source, e, name)  BY DEF TomlFileOf
<1>2. archive.files[path].key = e  BY <1>1, TomlKey
<1> QED  BY <1>2 DEF Body

\* An entity that is restored has one file, and is an entity of the source.
LEMMA RestoredHas ==
    ASSUME Readable, NEW e \in Restored
    PROVE  /\ e \in There(archive.source)
           /\ FileOf(e) \in Files /\ FileOf(e) \in ValidEntities
           /\ TomlFileOf(FileOf(e), e)
<1>1. PICK path \in ValidEntities : Body(path).key = e  BY DEF Restored
<1>2. FileOf(e) \in ValidEntities /\ Body(FileOf(e)).key = e  BY <1>1 DEF FileOf
<1> DEFINE file == FileOf(e)
<1> HIDE DEF file
<1>3. file \in ComponentTomls \cup ContainerTomls  BY <1>2 DEF ValidEntities, file
<1>4. PICK d \in There(archive.source) : TomlFileOf(file, d)  BY <1>3, TomlFile
<1>5. Body(file).key = d  BY <1>4, KeyOfFile
<1>6. d = e  BY <1>2, <1>5 DEF file
<1>7. file \in Files  BY <1>3 DEF ComponentTomls, ContainerTomls
<1> QED  BY <1>2, <1>4, <1>6, <1>7 DEF file

\* The file of an entity that is restored is at its place, ...
LEMMA FileIs ==
    ASSUME Readable, NEW e \in Restored
    PROVE  \E name : FileOf(e) = EntityPath(e, name, 0, "")
<1>1. TomlFileOf(FileOf(e), e)  BY RestoredHas
<1>2. PICK name : TomlAt(archive.files, FileOf(e), archive.source, e, name)
  BY <1>1 DEF TomlFileOf
<1> QED  BY <1>2 DEF TomlAt

\* ... has its version numbers, ...
LEMMA TomlNumbers ==
    ASSUME Readable, NEW e \in Restored
    PROVE  /\ Body(FileOf(e)).draft = archive.source.entities[e].draft
           /\ Body(FileOf(e)).published = archive.source.entities[e].published
<1> DEFINE file == FileOf(e)
<1>1. TomlFileOf(file, e)  BY RestoredHas
<1> HIDE DEF file
<1>2. PICK name : TomlAt(archive.files, file, archive.source, e, name)
  BY <1>1 DEF TomlFileOf
<1>3. archive.files[file].draft = archive.source.entities[e].draft  BY <1>2, TomlDraft
<1>4. archive.files[file].published = archive.source.entities[e].published  BY <1>2, TomlPublished
<1> QED  BY <1>3, <1>4 DEF Body, file

\* ... and its children.
LEMMA TomlTables ==
    ASSUME Readable, NEW e \in Restored
    PROVE  Body(FileOf(e)).versions = VersionTables(e, archive.source.entities[e])
<1> DEFINE file == FileOf(e)
<1>1. TomlFileOf(file, e)  BY RestoredHas
<1> HIDE DEF file
<1>2. PICK name : TomlAt(archive.files, file, archive.source, e, name)
  BY <1>1 DEF TomlFileOf
<1>3. archive.files[file].versions = VersionTables(e, archive.source.entities[e])
  BY <1>2, TomlVersions
<1> QED  BY <1>3 DEF Body, file

-----------------------------------------------------------------------------
(* The static files of a version                                           *)

\* _resolve_static_files finds what was in the version, ...
LEMMA StaticsHeld ==
    ASSUME Readable, NEW e \in Restored, NEW n, n # 0,
           NEW x \in StaticContent(FileOf(e), n)
    PROVE  /\ n \in VersionNumbers(archive.source.entities[e])
           /\ x \in archive.source.entities[e].versions[n]
           /\ x.data # EmptyText
<1> DEFINE files == archive.files
           source == archive.source
           there == There(archive.source)
<1>1. PICK path \in Files : /\ path.version = n /\ RootOf(path) = FileOf(e)
                            /\ x = [path |-> path.file, data |-> Body(path).data]
  BY DEF StaticContent
<1>2. Sorted(files, source, there, Enabled(source)) /\ path \in DOMAIN files
  BY DEF Readable, Files
<1>3. FileOf(e) \in DOMAIN files /\ files[FileOf(e)].key = e
  <2>1. TomlFileOf(FileOf(e), e) /\ FileOf(e) \in Files  BY RestoredHas
  <2>2. Body(FileOf(e)).key = e  BY <2>1, KeyOfFile
  <2> QED  BY <2>1, <2>2 DEF Body, Files
<1>4. SourceOK(source)  BY DEF Readable
<1> HIDE DEF files, source, there
<1>5. IsStaticFile(files, path, source, there)  BY <1>1, <1>2, WhichStatic
<1>6. PICK d \in there : \E y, m, f : StaticAt(files, path, source, d, y, m, f)
  BY <1>5 DEF IsStaticFile
<1>7. PICK y, m, f : StaticAt(files, path, source, d, y, m, f)  BY <1>6
<1>8. RootOf(path) = EntityPath(d, y, 0, "")  BY <1>7, StaticRoot
<1>9. EntityPath(d, y, 0, "") = FileOf(e)  BY <1>1, <1>8
<1>10. d = e  BY <1>3, <1>7, <1>9 DEF StaticAt
<1>11. /\ path.version = m /\ path.file = f.path
  BY <1>7 DEF StaticAt, EntityPath, Path
<1>12. /\ m = n /\ n \in VersionNumbers(source.entities[e]) /\ f \in source.entities[e].versions[n]
       /\ files[path].data = f.data /\ f.data # EmptyText /\ ~ Container(e)
  BY <1>1, <1>7, <1>10, <1>11 DEF StaticAt
<1>13. f \in File
  <2>1. /\ e \in Entities /\ AuthoredRow(e, source.entities[e])
        /\ RowOK(e, source.entities[e], there)
    BY <1>4, <1>6, <1>10, SourceRow DEF there, source
  <2>2. source.entities[e].versions[n] \in SUBSET File  BY <1>12, <2>1, AuthoredVersion
  <2> QED  BY <1>12, <2>2
<1>14. Body(path) = files[path]  BY DEF Body, files
<1>15. x = [path |-> f.path, data |-> f.data]  BY <1>1, <1>11, <1>12, <1>14
<1>16. f = [path |-> f.path, data |-> f.data]  BY <1>13 DEF File
<1> QED  BY <1>12, <1>15, <1>16 DEF source

\* When nothing is missing, all of them are there.
LEMMA StaticsFound ==
    ASSUME Readable,
           Whole(archive.files, archive.source, There(archive.source), Enabled(archive.source)),
           NEW e \in Restored, ~ Container(e),
           NEW n \in VersionNumbers(archive.source.entities[e]),
           NEW f \in archive.source.entities[e].versions[n], f.data # EmptyText
    PROVE  f \in StaticContent(FileOf(e), n)
<1> DEFINE files == archive.files
           source == archive.source
           there == There(archive.source)
           file == FileOf(e)
<1>1. /\ e \in there /\ file \in DOMAIN files /\ TomlFileOf(file, e)
  BY RestoredHas DEF Files
<1>2. /\ Sorted(files, source, there, Enabled(source)) /\ OneToml(files)
      /\ SourceOK(source)
  BY DEF Readable
<1>3. Whole(files, source, there, Enabled(source))  OBVIOUS
<1>4. n \in VersionNumbers(source.entities[e]) /\ f \in source.entities[e].versions[n]
  OBVIOUS
<1>5. StaticContent(file, n) =
         {[path |-> path.file, data |-> files[path].data] :
            path \in {p \in DOMAIN files : p.version = n /\ RootOf(p) = file}}
  BY DEF StaticContent, Files, Body
<1>6. Body(file).key = e  BY <1>1, KeyOfFile
<1>7. files[file].key = e  BY <1>6 DEF Body
<1>8. PICK name : TomlAt(files, file, source, e, name)  BY <1>1 DEF TomlFileOf
<1> HIDE DEF files, source, there, file
<1>9. file.folder = "entities" /\ file.version = 0
  BY <1>8 DEF TomlAt, EntityPath, Path
<1>10. PICK x : HasFolder(files, source, e, x)  BY <1>1, <1>3 DEF Whole
<1> DEFINE root == EntityPath(e, x, 0, "")
           path == EntityPath(e, x, n, f.path)
<1>11. root \in DOMAIN files /\ TomlAt(files, root, source, e, x)  BY <1>10 DEF HasFolder
<1>12. path \in DOMAIN files  BY <1>4, <1>10 DEF HasFolder
<1>13. root.folder = "entities" /\ root.version = 0  BY DEF EntityPath, Path
<1>14. path.version = n /\ path.file = f.path /\ RootOf(path) = root
  BY DEF EntityPath, Path, TomlPath, RootOf
<1> HIDE DEF root, path
<1>15. files[root].key = e  BY <1>11, TomlKey
<1>16. root = file  BY <1>1, <1>2, <1>7, <1>9, <1>11, <1>13, <1>15 DEF OneToml
<1>17. /\ e \in Entities /\ AuthoredRow(e, source.entities[e])
       /\ RowOK(e, source.entities[e], there)
  BY <1>1, <1>2, SourceRow DEF there, source
<1>18. /\ n # 0 /\ source.entities[e].versions[n] \in SUBSET File
       /\ \A g, h \in source.entities[e].versions[n] : g.path = h.path => g = h
  BY <1>4, <1>17, AuthoredVersion
<1> DEFINE found == [path |-> path.file, data |-> files[path].data]
<1>19. found \in StaticContent(file, n)  BY <1>5, <1>12, <1>14, <1>16
<1>20. found \in source.entities[e].versions[n]
  BY <1>18, <1>19, StaticsHeld DEF file, source
<1>21. found.path = f.path  BY <1>14
<1>22. found = f  BY <1>4, <1>18, <1>20, <1>21
<1> QED  BY <1>19, <1>22 DEF file

-----------------------------------------------------------------------------
(* The children of a version                                               *)

\* _resolve_children finds children that are restored, ...
LEMMA ResolvedAmong ==
    ASSUME NEW e, NEW children, NEW there \in SUBSET Entities, NEW n \in Nat,
           DOMAIN children = 1 .. n,
           NEW found, found = ResolveChildren(e, children, there)
    PROVE  /\ found \in Seq(Child)
           /\ \A i \in DOMAIN found :
                found[i].entity \in there /\ \E j \in 1 .. n : children[j] = found[i].entity
<1> DEFINE Held == [entity : {d \in there : \E j \in 1 .. n : children[j] = d}, pin : {0}]
<1>1. PICK g : /\ g[0] = << >>
               /\ \A k \in 1 .. n : g[k] = Resolve(e, children[k], there, g[k - 1])
               /\ ResolveChildren(e, children, there) = g[n]
  BY LoopRuns
<1> DEFINE S == {k \in 0 .. n : g[k] \in Seq(Held)}
<1>2. 0 \in S
  <2>1. << >> \in Seq(Held) /\ 0 \in 0 .. n  OBVIOUS
  <2> HIDE DEF Held
  <2>2. g[0] \in Seq(Held)  BY <1>1, <2>1
  <2> QED  BY <2>1, <2>2
<1>3. ASSUME NEW k \in 1 .. n, k - 1 \in S PROVE k \in S
  <2>1. k \in 0 .. n /\ g[k - 1] \in Seq(Held)  BY <1>3
  <2>2. CASE children[k] \in there /\ LevelOf(children[k]) = LevelBelow[KindOf[e]]
    <3> DEFINE child == [entity |-> children[k], pin |-> 0]
    <3>1. child \in Held  BY <2>2
    <3>2. g[k] = Append(g[k - 1], child)  BY <1>1, <2>2 DEF Resolve
    <3> HIDE DEF child, Held
    <3>3. Append(g[k - 1], child) \in Seq(Held)  BY <2>1, <3>1
    <3> QED  BY <2>1, <3>2, <3>3
  <2>3. CASE ~ (children[k] \in there /\ LevelOf(children[k]) = LevelBelow[KindOf[e]])
    <3>1. g[k] = g[k - 1]  BY <1>1, <2>3 DEF Resolve
    <3> HIDE DEF Held
    <3> QED  BY <2>1, <3>1
  <2> QED  BY <2>2, <2>3
<1>4. n \in S
  <2> HIDE DEF S
  <2>1. 0 .. n \subseteq S  BY <1>2, <1>3, RoundByRound
  <2> QED  BY <2>1
<1>5. found \in Seq(Held)  BY <1>1, <1>4
<1>6. Held \subseteq Child  BY DEF Child
<1>7. ASSUME NEW i \in DOMAIN found
      PROVE  found[i].entity \in there /\ \E j \in 1 .. n : children[j] = found[i].entity
  <2>1. found[i] \in Held
    <3> HIDE DEF Held
    <3> QED  BY <1>5, <1>7
  <2> QED  BY <2>1
<1>8. found \in Seq(Child)
  <2> HIDE DEF Held
  <2>1. Len(found) \in Nat /\ found \in [1 .. Len(found) -> Held]  BY <1>5
  <2>2. found \in [1 .. Len(found) -> Child]  BY <1>6, <2>1
  <2> QED  BY <2>1, <2>2, SeqDef
<1> QED  BY <1>7, <1>8

\* ... and all of them if they are all of the level below.
LEMMA ResolvedAll ==
    ASSUME NEW e, NEW children, NEW there \in SUBSET Entities, NEW n \in Nat,
           DOMAIN children = 1 .. n,
           \A i \in 1 .. n :
              children[i] \in there /\ LevelOf(children[i]) = LevelBelow[KindOf[e]],
           NEW found, found = ResolveChildren(e, children, there)
    PROVE  /\ DOMAIN found = 1 .. n
           /\ \A i \in 1 .. n : found[i].entity = children[i]
<1> DEFINE child(i) == [entity |-> children[i], pin |-> 0]
<1>1. PICK g : /\ g[0] = << >>
               /\ \A k \in 1 .. n : g[k] = Resolve(e, children[k], there, g[k - 1])
               /\ ResolveChildren(e, children, there) = g[n]
  BY LoopRuns
<1>2. \A i \in 1 .. n : child(i) \in Child  BY DEF Child
<1>3. \A k \in 1 .. n : g[k] = Append(g[k - 1], child(k))  BY <1>1 DEF Resolve
<1>4. \A i \in 1 .. n : child(i).entity = children[i]  OBVIOUS
<1> HIDE DEF child
<1> DEFINE S == {k \in 0 .. n : /\ g[k] \in Seq(Child) /\ Len(g[k]) = k
                                /\ \A i \in 1 .. k : g[k][i] = child(i)}
<1>5. 0 \in S
  <2>1. << >> \in Seq(Child) /\ Len(<< >>) = 0  OBVIOUS
  <2>2. g[0] \in Seq(Child) /\ Len(g[0]) = 0  BY <1>1, <2>1
  <2> QED  BY <2>2
<1>6. ASSUME NEW k \in 1 .. n, k - 1 \in S PROVE k \in S
  <2>1. k \in 0 .. n /\ k - 1 \in Nat  OBVIOUS
  <2>2. /\ g[k - 1] \in Seq(Child) /\ Len(g[k - 1]) = k - 1
        /\ \A i \in 1 .. k - 1 : g[k - 1][i] = child(i)
    BY <1>6
  <2>3. PICK s : s = g[k - 1]  OBVIOUS
  <2>4. s \in Seq(Child) /\ Len(s) = k - 1 /\ \A i \in 1 .. k - 1 : s[i] = child(i)
    BY <2>2, <2>3
  <2>5. g[k] = Append(s, child(k)) /\ child(k) \in Child  BY <1>2, <1>3, <2>3
  <2>6. /\ Append(s, child(k)) \in Seq(Child)
        /\ Len(Append(s, child(k))) = Len(s) + 1
        /\ \A i \in 1 .. Len(s) : Append(s, child(k))[i] = s[i]
        /\ Append(s, child(k))[Len(s) + 1] = child(k)
    BY <2>4, <2>5
  <2>7. Len(s) + 1 = k  BY <2>4
  <2>8. \A i \in 1 .. k : i \in 1 .. k - 1 \/ i = k  OBVIOUS
  <2>9. \A i \in 1 .. k : g[k][i] = child(i)  BY <2>4, <2>5, <2>6, <2>7, <2>8
  <2>10. g[k] \in Seq(Child) /\ Len(g[k]) = k  BY <2>5, <2>6, <2>7
  <2> QED  BY <2>1, <2>9, <2>10
<1>7. n \in S
  <2> HIDE DEF S
  <2>1. 0 .. n \subseteq S  BY <1>5, <1>6, RoundByRound
  <2> QED  BY <2>1
<1>8. found \in Seq(Child) /\ Len(found) = n /\ \A i \in 1 .. n : found[i] = child(i)
  BY <1>1, <1>7
<1> QED  BY <1>4, <1>8

\* The children a file lists.
LEMMA ListedChildren ==
    ASSUME Readable, NEW e \in Restored, Container(e),
           NEW n \in VersionNumbers(archive.source.entities[e])
    PROVE  LET held == archive.source.entities[e].versions[n]
               listed == Body(FileOf(e)).versions[n]
           IN  /\ held \in Seq(Child)
               /\ DOMAIN listed = 1 .. Len(held)
               /\ \A i \in 1 .. Len(held) : listed[i] = held[i].entity
<1> DEFINE row == archive.source.entities[e]
           held == row.versions[n]
           listed == Body(FileOf(e)).versions[n]
           there == There(archive.source)
<1>1. e \in there  BY RestoredHas
<1>2. e \in Entities /\ AuthoredRow(e, row) /\ RowOK(e, row, there)
  BY <1>1, SourceRow DEF Readable
<1>3. Body(FileOf(e)).versions = VersionTables(e, row)  BY TomlTables
<1> HIDE DEF row, there
<1>4. n \in VersionNumbers(row)  BY DEF row
<1>5. held \in Seq(Child)  BY <1>2, <1>4, AuthoredVersion
<1>6. listed = [i \in DOMAIN held |-> held[i].entity]  BY <1>3, <1>4 DEF VersionTables
<1> HIDE DEF held, listed
<1>7. DOMAIN held = 1 .. Len(held)  BY <1>5
<1>8. DOMAIN listed = 1 .. Len(held) /\ \A i \in 1 .. Len(held) : listed[i] = held[i].entity
  BY <1>6, <1>7
<1> QED  BY <1>5, <1>8 DEF held, listed, row

\* Nothing is restored that was not dumped.
LEMMA RestoredThere ==
    ASSUME Readable
    PROVE  Restored \subseteq There(archive.source) /\ Restored \in SUBSET Entities
BY RestoredHas DEF There

\* What a container's version holds after the restore: children of the source's.
LEMMA ChildrenHeld ==
    ASSUME Readable, NEW e \in Restored, Container(e),
           NEW n \in VersionNumbers(archive.source.entities[e]),
           NEW found, found = RestoredVersion(e, n)
    PROVE  /\ found \in Seq(Child)
           /\ \A i \in DOMAIN found :
                /\ found[i].entity \in Restored
                /\ \E j \in DOMAIN archive.source.entities[e].versions[n] :
                     archive.source.entities[e].versions[n][j].entity = found[i].entity
<1> DEFINE held == archive.source.entities[e].versions[n]
           listed == Body(FileOf(e)).versions[n]
<1>1. held \in Seq(Child) /\ DOMAIN listed = 1 .. Len(held)
      /\ \A i \in 1 .. Len(held) : listed[i] = held[i].entity
  BY ListedChildren
<1>2. found = ResolveChildren(e, listed, Restored)  BY DEF RestoredVersion
<1>3. Restored \in SUBSET Entities  BY RestoredThere
<1> HIDE DEF held, listed
<1>4. Len(held) \in Nat /\ DOMAIN held = 1 .. Len(held)  BY <1>1
<1>5. /\ found \in Seq(Child)
      /\ \A i \in DOMAIN found : /\ found[i].entity \in Restored
                                 /\ \E j \in 1 .. Len(held) : listed[j] = found[i].entity
  BY <1>1, <1>2, <1>3, <1>4, ResolvedAmong
<1>6. ASSUME NEW i \in DOMAIN found
      PROVE  \E j \in DOMAIN held : held[j].entity = found[i].entity
  <2>1. PICK j \in 1 .. Len(held) : listed[j] = found[i].entity  BY <1>5
  <2> QED  BY <1>1, <1>4, <2>1
<1> QED  BY <1>5, <1>6 DEF held

\* When all the children are restored, a version has them all.
LEMMA ChildrenFound ==
    ASSUME Readable, Restored = There(archive.source),
           NEW e \in Restored, KindOf[e] \in Restorable,
           NEW n \in VersionNumbers(archive.source.entities[e])
    PROVE  Reads(e, RestoredVersion(e, n)) = Reads(e, archive.source.entities[e].versions[n])
<1> DEFINE row == archive.source.entities[e]
           held == row.versions[n]
           listed == Body(FileOf(e)).versions[n]
           there == There(archive.source)
           found == RestoredVersion(e, n)
<1>1. Container(e)  BY DEF Container
<1>2. held \in Seq(Child) /\ DOMAIN listed = 1 .. Len(held)
      /\ \A i \in 1 .. Len(held) : listed[i] = held[i].entity
  BY <1>1, ListedChildren
<1>3. e \in Entities /\ AuthoredRow(e, row) /\ RowOK(e, row, there)
  <2>1. e \in there  OBVIOUS
  <2> QED  BY <2>1, SourceRow DEF Readable
<1>4. \A i \in DOMAIN held :
          held[i].entity \in there /\ LevelOf(held[i].entity) = LevelBelow[KindOf[e]]
  <2>1. n \in VersionNumbers(row)  OBVIOUS
  <2> HIDE DEF row, there
  <2> QED  BY <1>1, <1>3, <2>1, AuthoredVersion
<1>5. found = ResolveChildren(e, listed, Restored)  BY <1>1 DEF RestoredVersion
<1>6. there \in SUBSET Entities /\ Restored = there  BY DEF There
<1> HIDE DEF held, listed, there, found
<1>7. Len(held) \in Nat /\ DOMAIN held = 1 .. Len(held)  BY <1>2
<1>8. \A i \in 1 .. Len(held) :
          listed[i] \in Restored /\ LevelOf(listed[i]) = LevelBelow[KindOf[e]]
  BY <1>2, <1>4, <1>6, <1>7
<1>9. /\ DOMAIN found = 1 .. Len(held)
      /\ \A i \in 1 .. Len(held) : found[i].entity = listed[i]
  BY <1>2, <1>5, <1>6, <1>7, <1>8, ResolvedAll
<1>10. [i \in DOMAIN found |-> found[i].entity] = [i \in DOMAIN held |-> held[i].entity]
  BY <1>2, <1>7, <1>9
<1>11. Reads(e, found) = Reads(e, held)  BY <1>1, <1>10 DEF Reads
<1> QED  BY <1>11 DEF found, held

-----------------------------------------------------------------------------
(* The package a load makes                                                *)

\* What is restored as a version is files or children.
LEMMA VersionTyped ==
    ASSUME Readable, NEW e \in Restored, NEW n \in VersionNumbers(archive.source.entities[e])
    PROVE  RestoredVersion(e, n) \in (SUBSET File) \cup Seq(Child)
<1> DEFINE row == archive.source.entities[e]
           there == There(archive.source)
<1>1. e \in there  BY RestoredHas
<1>2. e \in Entities /\ AuthoredRow(e, row) /\ RowOK(e, row, there)
  BY <1>1, SourceRow DEF Readable
<1>3. CASE Container(e)
  <2>1. PICK found : found = RestoredVersion(e, n)  OBVIOUS
  <2>2. found \in Seq(Child)  BY <1>3, <2>1, ChildrenHeld
  <2> QED  BY <2>1, <2>2
<1>4. CASE ~ Container(e)
  <2>1. n # 0 /\ row.versions[n] \in SUBSET File
    <3>1. n \in VersionNumbers(row)  OBVIOUS
    <3> HIDE DEF row, there
    <3> QED  BY <1>2, <1>4, <3>1, AuthoredVersion
  <2>2. RestoredVersion(e, n) = StaticContent(FileOf(e), n)  BY <1>4 DEF RestoredVersion
  <2>3. \A x \in StaticContent(FileOf(e), n) : x \in row.versions[n]  BY <2>1, StaticsHeld
  <2> QED  BY <2>1, <2>2, <2>3
<1> QED  BY <1>3, <1>4

\* A version that is saved.
LEMMA VersionSaved ==
    ASSUME Readable, NEW e \in Restored, NEW n \in VersionNumbers(archive.source.entities[e]),
           NEW row \in EntityRow,
           NEW after, after = WithVersion(row, e, n)
    PROVE  /\ after \in EntityRow /\ after # None
           /\ DOMAIN after.versions = DOMAIN row.versions \cup {n}
           /\ \A k \in DOMAIN after.versions :
                after.versions[k] = IF k = n THEN RestoredVersion(e, n) ELSE row.versions[k]
           /\ after.draft = n /\ after.published = row.published
<1> DEFINE h == With(row.versions, n, RestoredVersion(e, n))
<1>1. e \in There(archive.source)  BY RestoredHas
<1>2. archive.source.entities[e] \in EntityRow  BY <1>1, SourceRow DEF Readable
<1>3. n \in 1 .. MaxVersion  BY <1>2, RowShape
<1>4. RestoredVersion(e, n) \in (SUBSET File) \cup Seq(Child)  BY VersionTyped
<1>5. h \in Histories  BY <1>3, <1>4, HistoryGrows
<1>6. /\ DOMAIN h = DOMAIN row.versions \cup {n}
      /\ \A k \in DOMAIN h : h[k] = IF k = n THEN RestoredVersion(e, n) ELSE row.versions[k]
  BY DEF With
<1>7. after = [row EXCEPT !.versions = h, !.draft = n]  BY DEF WithVersion
<1>8. n \in 0 .. MaxVersion
  <2>1. MaxVersion \in Nat  BY BackupAssumption
  <2> QED  BY <1>3, <2>1
<1> HIDE DEF h
<1>9. /\ after \in EntityRow /\ after.versions = h /\ after.draft = n
      /\ after.published = row.published
  BY <1>5, <1>7, <1>8 DEF EntityRow
<1>10. after # None  BY <1>9, RowShape
<1> QED  BY <1>6, <1>9, <1>10

\* The row of e after each stage.
SavedRow(e) ==
    IF archive.source.entities[e].published = 0 THEN NewEntity
    ELSE WithVersion(NewEntity, e, archive.source.entities[e].published)

\* The published version is saved first, ...
LEMMA SavedRowIs ==
    ASSUME Readable, NEW e \in Restored, NEW row, row = SavedRow(e)
    PROVE  /\ row \in EntityRow /\ row # None
           /\ DOMAIN row.versions = {archive.source.entities[e].published} \ {0}
           /\ \A k \in DOMAIN row.versions : row.versions[k] = RestoredVersion(e, k)
           /\ row.draft = archive.source.entities[e].published
<1> DEFINE n == archive.source.entities[e].published
<1>1. NewEntity \in EntityRow /\ NewEntity # None  BY NewRow DEF AuthoredRow
<1>2. /\ DOMAIN NewEntity.versions = {} /\ NewEntity.draft = 0
  BY NoHistory DEF NewEntity
<1>3. CASE n = 0
  <2>1. row = NewEntity  BY <1>3 DEF SavedRow
  <2> HIDE DEF n
  <2>2. DOMAIN row.versions = {n} \ {0} /\ row.draft = n  BY <1>2, <1>3, <2>1
  <2> QED  BY <1>1, <1>2, <2>1, <2>2 DEF n
<1>4. CASE n # 0
  <2>1. n \in VersionNumbers(archive.source.entities[e])  BY <1>4 DEF VersionNumbers
  <2>2. row = WithVersion(NewEntity, e, n)  BY <1>4 DEF SavedRow
  <2> HIDE DEF n
  <2>3. /\ row \in EntityRow /\ row # None
        /\ DOMAIN row.versions = DOMAIN NewEntity.versions \cup {n}
        /\ \A k \in DOMAIN row.versions :
             row.versions[k] = IF k = n THEN RestoredVersion(e, n) ELSE NewEntity.versions[k]
        /\ row.draft = n
    BY <1>1, <2>1, <2>2, VersionSaved DEF n
  <2>4. DOMAIN row.versions = {n} \ {0}  BY <1>2, <1>4, <2>3
  <2> QED  BY <2>3, <2>4 DEF n
<1> QED  BY <1>3, <1>4

PublishedRow(row) == [row EXCEPT !.published = row.draft]

\* ... and published, before the draft.
LEMMA PublishedRowIs ==
    ASSUME NEW row \in EntityRow, NEW after, after = PublishedRow(row)
    PROVE  /\ after \in EntityRow /\ after # None
           /\ after.versions = row.versions /\ after.draft = row.draft
           /\ after.published = row.draft
<1>1. /\ after \in EntityRow
      /\ after.versions = row.versions /\ after.draft = row.draft
      /\ after.published = row.draft
  BY DEF EntityRow, PublishedRow
<1> QED  BY <1>1, RowShape

DraftedRow(row, e) ==
    IF \/ archive.source.entities[e].draft = 0
       \/ archive.source.entities[e].draft \in DOMAIN row.versions
    THEN row ELSE WithVersion(row, e, archive.source.entities[e].draft)

\* All that a restored row is.
LEMMA RestoredRowIs ==
    ASSUME Readable, NEW e \in Restored, NEW source, source = archive.source.entities[e],
           NEW row, row = DraftedRow(PublishedRow(SavedRow(e)), e)
    PROVE  /\ row # None
           /\ DOMAIN row.versions = VersionNumbers(source)
           /\ \A k \in VersionNumbers(source) : row.versions[k] = RestoredVersion(e, k)
           /\ row.draft = IF source.draft = 0 THEN source.published ELSE source.draft
           /\ row.published = source.published
<1>1. PICK saved : saved = SavedRow(e)  OBVIOUS
<1>2. /\ saved \in EntityRow
      /\ DOMAIN saved.versions = {source.published} \ {0}
      /\ \A k \in DOMAIN saved.versions : saved.versions[k] = RestoredVersion(e, k)
      /\ saved.draft = source.published
  BY <1>1, SavedRowIs
<1>3. PICK published : published = PublishedRow(saved)  OBVIOUS
<1>4. /\ published \in EntityRow /\ published # None
      /\ published.versions = saved.versions /\ published.draft = saved.draft
      /\ published.published = saved.draft
  BY <1>2, <1>3, PublishedRowIs
<1>5. VersionNumbers(source) = {source.draft, source.published} \ {0}  BY DEF VersionNumbers
<1>6. row = DraftedRow(published, e)  BY <1>1, <1>3
<1>7. CASE source.draft = 0 \/ source.draft \in DOMAIN published.versions
  <2>1. row = published  BY <1>6, <1>7 DEF DraftedRow
  <2>2. source.draft = 0 \/ source.draft = source.published  BY <1>2, <1>4, <1>7
  <2>3. DOMAIN row.versions = VersionNumbers(source)  BY <1>2, <1>4, <1>5, <2>1, <2>2
  <2> QED  BY <1>2, <1>4, <2>1, <2>2, <2>3
<1>8. CASE ~ (source.draft = 0 \/ source.draft \in DOMAIN published.versions)
  <2> DEFINE n == source.draft
  <2>1. n \in VersionNumbers(source)  BY <1>5, <1>8
  <2>2. row = WithVersion(published, e, n)  BY <1>6, <1>8 DEF DraftedRow
  <2>3. n \in VersionNumbers(archive.source.entities[e])  BY <2>1
  <2>4. n # 0  BY <1>8
  <2> HIDE DEF n
  <2>5. /\ row # None
        /\ DOMAIN row.versions = DOMAIN published.versions \cup {n}
        /\ \A k \in DOMAIN row.versions :
             row.versions[k] = IF k = n THEN RestoredVersion(e, n) ELSE published.versions[k]
        /\ row.draft = n /\ row.published = published.published
    BY <1>4, <2>2, <2>3, VersionSaved
  <2>6. DOMAIN row.versions = VersionNumbers(source)
    BY <1>2, <1>4, <1>5, <2>4, <2>5 DEF n
  <2>7. \A k \in VersionNumbers(source) : row.versions[k] = RestoredVersion(e, k)
    BY <1>2, <1>4, <2>5, <2>6
  <2> QED  BY <1>2, <1>4, <2>4, <2>5, <2>6, <2>7 DEF n
<1> QED  BY <1>7, <1>8

\* The contents of the three stages.
LEMMA StagesAre ==
    ASSUME Readable,
           NEW saved, saved = PublishedContent,
           NEW published, published = WithAllPublished(saved),
           NEW drafted, drafted = WithDrafts(published)
    PROVE  /\ \A e \in Entities :
                drafted.entities[e] = IF e \in Restored
                                      THEN DraftedRow(PublishedRow(SavedRow(e)), e) ELSE None
           /\ drafted.collections = saved.collections
<1> DEFINE entities1 == [e \in Entities |->
               IF e \notin Restored THEN None
               ELSE LET n == VersionToPublish(Body(FileOf(e)))
                    IN  IF n = 0 THEN NewEntity ELSE WithVersion(NewEntity, e, n)]
           collections1 == [c \in Codes |->
               IF \A path \in CollectionTomls : Body(path).key # c THEN None
               ELSE [enabled |-> TRUE,
                     entities |-> Restored \cap
                         Body(CHOOSE path \in CollectionTomls : Body(path).key = c).entities]]
<1>1. saved = [entities |-> entities1, collections |-> collections1]
  BY DEF PublishedContent
<1>2. ASSUME NEW e \in Restored PROVE entities1[e] = SavedRow(e)
  <2>1. Body(FileOf(e)).published = archive.source.entities[e].published  BY TomlNumbers
  <2>2. e \in Entities  BY RestoredThere
  <2>3. PICK n : n = archive.source.entities[e].published  OBVIOUS
  <2>4. VersionToPublish(Body(FileOf(e))) = n  BY <2>1, <2>3 DEF VersionToPublish
  <2>5. entities1[e] = IF n = 0 THEN NewEntity ELSE WithVersion(NewEntity, e, n)
    BY <2>2, <2>4
  <2> HIDE DEF entities1
  <2> QED  BY <2>3, <2>5 DEF SavedRow
<1>3. \A e \in Entities : e \notin Restored => entities1[e] = None  OBVIOUS
<1> HIDE DEF entities1, collections1
<1>4. saved.entities = entities1 /\ saved.collections = collections1  BY <1>1
<1> DEFINE entities2 == [e \in Entities |->
               IF saved.entities[e] = None THEN None
               ELSE [saved.entities[e] EXCEPT !.published = saved.entities[e].draft]]
<1>5. published = [entities |-> entities2, collections |-> collections1]
  <2>1. published = [saved EXCEPT !.entities = entities2]  BY DEF WithAllPublished
  <2> HIDE DEF entities2
  <2> QED  BY <1>1, <2>1
<1>6. ASSUME NEW e \in Restored
      PROVE  entities2[e] = PublishedRow(SavedRow(e)) /\ entities2[e] # None
  <2>1. e \in Entities  BY RestoredThere
  <2>2. saved.entities[e] = SavedRow(e)  BY <1>2, <1>4
  <2>3. PICK row : row = SavedRow(e)  OBVIOUS
  <2>4. row \in EntityRow /\ row # None  BY <2>3, SavedRowIs
  <2>5. entities2[e] = [row EXCEPT !.published = row.draft]  BY <2>1, <2>2, <2>3, <2>4
  <2> HIDE DEF entities2
  <2>6. entities2[e] = PublishedRow(row)  BY <2>5 DEF PublishedRow
  <2> QED  BY <2>3, <2>4, <2>6, PublishedRowIs
<1>7. \A e \in Entities : e \notin Restored => entities2[e] = None
  BY <1>3, <1>4
<1> HIDE DEF entities2
<1>8. published.entities = entities2  BY <1>5
<1> DEFINE entities3 == [e \in Entities |->
               LET row == published.entities[e]
                   n == IF row = None THEN 0 ELSE Body(FileOf(e)).draft
               IN  IF n = 0 \/ n \in DOMAIN row.versions THEN row ELSE WithVersion(row, e, n)]
<1>9. drafted = [published EXCEPT !.entities = entities3]  BY DEF WithDrafts
<1>10. ASSUME NEW e \in Restored
       PROVE  entities3[e] = DraftedRow(PublishedRow(SavedRow(e)), e)
  <2>1. e \in Entities  BY RestoredThere
  <2>2. PICK row : row = published.entities[e]  OBVIOUS
  <2>3. row = PublishedRow(SavedRow(e)) /\ row # None  BY <1>6, <1>8, <2>2
  <2>4. PICK n : n = archive.source.entities[e].draft  OBVIOUS
  <2>5. Body(FileOf(e)).draft = n  BY <2>4, TomlNumbers
  <2>6. entities3[e] = IF n = 0 \/ n \in DOMAIN row.versions THEN row ELSE WithVersion(row, e, n)
    BY <2>1, <2>2, <2>3, <2>5
  <2> HIDE DEF entities3
  <2>7. entities3[e] = DraftedRow(row, e)  BY <2>4, <2>6 DEF DraftedRow
  <2> QED  BY <2>3, <2>7
<1>11. \A e \in Entities : e \notin Restored => entities3[e] = None
  <2>1. ASSUME NEW e \in Entities, e \notin Restored PROVE entities3[e] = None
    <3>1. published.entities[e] = None  BY <1>7, <1>8, <2>1
    <3> QED  BY <3>1
  <2> QED  BY <2>1
<1> HIDE DEF entities3
<1>12. drafted = [entities |-> entities3, collections |-> collections1]
  BY <1>5, <1>9
<1>13. drafted.entities = entities3 /\ drafted.collections = saved.collections
  BY <1>4, <1>12
<1> QED  BY <1>10, <1>11, <1>13

IsRestored(content) ==
    content = WithDrafts(WithAllPublished(PublishedContent))

\* The rows of the package that a load makes, ...
LEMMA RestoredRowOf ==
    ASSUME Readable, NEW content, IsRestored(content), NEW e \in Entities
    PROVE  /\ e \notin Restored => content.entities[e] = None
           /\ e \in Restored => content.entities[e] = DraftedRow(PublishedRow(SavedRow(e)), e)
<1>1. PICK saved : saved = PublishedContent  OBVIOUS
<1>2. PICK published : published = WithAllPublished(saved)  OBVIOUS
<1>3. content = WithDrafts(published)  BY <1>1, <1>2 DEF IsRestored
<1>4. content.entities[e] = IF e \in Restored
                            THEN DraftedRow(PublishedRow(SavedRow(e)), e) ELSE None
  BY <1>1, <1>2, <1>3, StagesAre
<1> QED  BY <1>4

\* ... and its collections, which the drafts leave alone.
LEMMA RestoredCollections ==
    ASSUME Readable, NEW content, IsRestored(content)
    PROVE  content.collections = PublishedContent.collections
<1>1. PICK saved : saved = PublishedContent  OBVIOUS
<1>2. PICK published : published = WithAllPublished(saved)  OBVIOUS
<1>3. content = WithDrafts(published)  BY <1>1, <1>2 DEF IsRestored
<1>4. content.collections = saved.collections  BY <1>1, <1>2, <1>3, StagesAre
<1> QED  BY <1>1, <1>4

\* A collection of the new package.
LEMMA CollectionOf ==
    ASSUME Readable, NEW content, IsRestored(content), NEW c \in Codes
    PROVE  /\ (\A path \in CollectionTomls : Body(path).key # c) => content.collections[c] = None
           /\ \A path \in CollectionTomls : Body(path).key = c =>
                \E file \in CollectionTomls :
                   /\ Body(file).key = c
                   /\ content.collections[c] = [enabled |-> TRUE,
                                                entities |-> Restored \cap Body(file).entities]
<1> DEFINE files == CollectionTomls
           first == CHOOSE path \in files : Body(path).key = c
           all == [d \in Codes |->
               IF \A path \in CollectionTomls : Body(path).key # d THEN None
               ELSE [enabled |-> TRUE,
                     entities |-> Restored \cap
                         Body(CHOOSE path \in CollectionTomls : Body(path).key = d).entities]]
<1>1. PublishedContent.collections = all
  <2>1. PublishedContent.collections
           = [d \in Codes |->
               IF \A path \in CollectionTomls : Body(path).key # d THEN None
               ELSE [enabled |-> TRUE,
                     entities |-> Restored \cap
                         Body(CHOOSE path \in CollectionTomls : Body(path).key = d).entities]]
    BY DEF PublishedContent
  <2> QED  BY <2>1
<1>2. all[c] = IF \A path \in files : Body(path).key # c THEN None
               ELSE [enabled |-> TRUE, entities |-> Restored \cap Body(first).entities]
  OBVIOUS
<1>3. content.collections = all  BY <1>1, RestoredCollections
<1> HIDE DEF all
<1>4. content.collections[c] = IF \A path \in files : Body(path).key # c THEN None
               ELSE [enabled |-> TRUE, entities |-> Restored \cap Body(first).entities]
  BY <1>2, <1>3
<1>5. ASSUME NEW path \in files, Body(path).key = c
      PROVE  first \in files /\ Body(first).key = c
  BY <1>5
<1> HIDE DEF first
<1>6. ASSUME NEW path \in files, Body(path).key = c
      PROVE  \E file \in files :
                   /\ Body(file).key = c
                   /\ content.collections[c] = [enabled |-> TRUE,
                                                entities |-> Restored \cap Body(file).entities]
  <2>1. first \in files /\ Body(first).key = c  BY <1>5, <1>6
  <2>2. content.collections[c] = [enabled |-> TRUE, entities |-> Restored \cap Body(first).entities]
    BY <1>4, <1>6
  <2> QED  BY <2>1, <2>2
<1> QED  BY <1>4, <1>6

-----------------------------------------------------------------------------
(* It is a package                                                         *)

\* Each row has its versions, and its children are there.
LEMMA RestoredRowOK ==
    ASSUME Readable, NEW content, IsRestored(content), NEW e \in Restored
    PROVE  content.entities[e] # None /\ RowOK(e, content.entities[e], Restored)
<1> DEFINE source == archive.source.entities[e]
<1>1. e \in Entities  BY RestoredThere
<1>2. PICK row : row = content.entities[e]  OBVIOUS
<1>3. row = DraftedRow(PublishedRow(SavedRow(e)), e)  BY <1>1, <1>2, RestoredRowOf
<1>4. /\ row # None
      /\ DOMAIN row.versions = VersionNumbers(source)
      /\ \A k \in VersionNumbers(source) : row.versions[k] = RestoredVersion(e, k)
      /\ row.draft = IF source.draft = 0 THEN source.published ELSE source.draft
      /\ row.published = source.published
  BY <1>3, RestoredRowIs
<1>5. VersionNumbers(row) \subseteq DOMAIN row.versions  BY <1>4 DEF VersionNumbers
<1>6. ASSUME Container(e), NEW n \in DOMAIN row.versions, NEW i \in DOMAIN row.versions[n]
      PROVE  row.versions[n][i].entity \in Restored
  <2>1. n \in VersionNumbers(archive.source.entities[e])  BY <1>4
  <2>2. PICK found : found = RestoredVersion(e, n)  OBVIOUS
  <2>3. row.versions[n] = found  BY <1>4, <2>1, <2>2
  <2>4. \A j \in DOMAIN found : found[j].entity \in Restored
    BY <1>6, <2>1, <2>2, ChildrenHeld
  <2> QED  BY <1>6, <2>3, <2>4
<1>7. RowOK(e, row, Restored)  BY <1>5, <1>6 DEF RowOK
<1> QED  BY <1>2, <1>4, <1>7

\* The package is well formed, and holds what is restored.
LEMMA RestoredIsWellFormed ==
    ASSUME Readable, NEW content, IsRestored(content)
    PROVE  /\ WellFormed(content)
           /\ There(content) = Restored
<1>1. There(content) = Restored
  <2>1. \A e \in Entities : e \notin Restored => content.entities[e] = None
    BY RestoredRowOf
  <2>2. \A e \in Restored : content.entities[e] # None  BY RestoredRowOK
  <2>3. Restored \subseteq Entities  BY RestoredThere
  <2> QED  BY <2>1, <2>2, <2>3 DEF There
<1>2. \A e \in There(content) : RowOK(e, content.entities[e], There(content))
  BY <1>1, RestoredRowOK
<1>3. ASSUME NEW c \in Codes, content.collections[c] # None
      PROVE  content.collections[c].entities \subseteq There(content)
  <2>1. PICK path \in CollectionTomls : Body(path).key = c  BY <1>3, CollectionOf
  <2>2. PICK file \in CollectionTomls :
            content.collections[c] = [enabled |-> TRUE,
                                      entities |-> Restored \cap Body(file).entities]
    BY <2>1, CollectionOf
  <2>3. content.collections[c].entities = Restored \cap Body(file).entities  BY <2>2
  <2> QED  BY <1>1, <2>3
<1> QED  BY <1>1, <1>2, <1>3, WellFormedIs

\* The serializer has made the component types by then.
LEMMA TypesAreMade ==
    ASSUME Readable, NEW e \in Restored, ~ Container(e)
    PROVE  KindOf[e] \in {path.type : path \in ComponentTomls \cap ValidEntities}
<1>1. /\ e \in Entities /\ FileOf(e) \in Files /\ FileOf(e) \in ValidEntities
      /\ TomlFileOf(FileOf(e), e)
  BY RestoredHas, RestoredThere
<1>2. FileOf(e) \in ComponentTomls /\ FileOf(e).type = KindOf[e]  BY <1>1, TomlFolder
<1> QED  BY <1>1, <1>2

-----------------------------------------------------------------------------
(* It has nothing that the source had not                                  *)

Invented(e, row, restored) ==
    ~ (/\ row # None
       /\ restored.published \in {0, row.published}
       /\ restored.draft \in VersionNumbers(row) \cup {0}
       /\ \A n \in DOMAIN restored.versions :
            IF Container(e)
            THEN Range(Reads(e, restored.versions[n])) \subseteq Range(Reads(e, row.versions[n]))
            ELSE restored.versions[n] \subseteq row.versions[n])

\* A row of the new package, against the one that was dumped: see RestoreInventsNothing.
LEMMA NothingInvented ==
    ASSUME Readable, NEW content, IsRestored(content), NEW e \in Entities,
           content.entities[e] # None
    PROVE  ~ Invented(e, archive.source.entities[e], content.entities[e])
<1> DEFINE source == archive.source.entities[e]
<1>1. e \in Restored  BY RestoredRowOf
<1>2. PICK row : row = content.entities[e]  OBVIOUS
<1>3. row = DraftedRow(PublishedRow(SavedRow(e)), e)  BY <1>1, <1>2, RestoredRowOf
<1>4. /\ row # None
      /\ DOMAIN row.versions = VersionNumbers(source)
      /\ \A k \in VersionNumbers(source) : row.versions[k] = RestoredVersion(e, k)
      /\ row.draft = IF source.draft = 0 THEN source.published ELSE source.draft
      /\ row.published = source.published
  BY <1>1, <1>3, RestoredRowIs
<1>5. source # None
  <2>1. e \in There(archive.source)  BY <1>1, RestoredHas
  <2> QED  BY <2>1 DEF There
<1>6. row.published \in {0, source.published}  BY <1>4
<1>7. row.draft \in VersionNumbers(source) \cup {0}  BY <1>4 DEF VersionNumbers
<1>8. ASSUME NEW n \in DOMAIN row.versions
      PROVE  IF Container(e)
             THEN Range(Reads(e, row.versions[n])) \subseteq Range(Reads(e, source.versions[n]))
             ELSE row.versions[n] \subseteq source.versions[n]
  <2>1. n \in VersionNumbers(source)  BY <1>4
  <2>2. PICK found : found = RestoredVersion(e, n)  OBVIOUS
  <2>3. row.versions[n] = found  BY <1>4, <2>1, <2>2
  <2>4. PICK held : held = source.versions[n]  OBVIOUS
  <2>5. CASE Container(e)
    <3>1. \A i \in DOMAIN found : \E j \in DOMAIN held : held[j].entity = found[i].entity
      BY <1>1, <2>1, <2>2, <2>4, <2>5, ChildrenHeld
    <3>2. Reads(e, found) = [i \in DOMAIN found |-> found[i].entity]  BY <2>5 DEF Reads
    <3>3. Reads(e, held) = [i \in DOMAIN held |-> held[i].entity]  BY <2>5 DEF Reads
    <3>4. Range(Reads(e, found)) \subseteq Range(Reads(e, held))
      BY <3>1, <3>2, <3>3 DEF Range
    <3> QED  BY <2>3, <2>4, <2>5, <3>4
  <2>6. CASE ~ Container(e)
    <3>1. found = StaticContent(FileOf(e), n)  BY <2>2, <2>6 DEF RestoredVersion
    <3>2. n # 0  BY <2>1 DEF VersionNumbers
    <3>3. \A x \in found : x \in held  BY <1>1, <2>4, <3>1, <3>2, StaticsHeld
    <3> QED  BY <2>3, <2>4, <2>6, <3>3
  <2> QED  BY <2>5, <2>6
<1>9. ~ Invented(e, source, row)  BY <1>5, <1>6, <1>7, <1>8 DEF Invented
<1> QED  BY <1>2, <1>9

-----------------------------------------------------------------------------
(* A whole archive                                                         *)

WholeArchive ==
    Whole(archive.files, archive.source, There(archive.source), Enabled(archive.source))

\* In a whole archive each entity has its file, ...
LEMMA FileOfEntity ==
    ASSUME Readable, WholeArchive, NEW e \in There(archive.source)
    PROVE  \E path \in Files : TomlFileOf(path, e)
<1>1. PICK name : HasFolder(archive.files, archive.source, e, name)
  BY DEF WholeArchive, Whole
<1>2. PICK path : path = EntityPath(e, name, 0, "")  OBVIOUS
<1>3. path \in DOMAIN archive.files /\ TomlAt(archive.files, path, archive.source, e, name)
  BY <1>1, <1>2 DEF HasFolder
<1> QED  BY <1>3 DEF Files, TomlFileOf

\* ... so all of them are restored if there is no error.
LEMMA AllRestored ==
    ASSUME Readable, WholeArchive, ~ ErrorsFound
    PROVE  Restored = There(archive.source)
<1>1. ASSUME NEW e \in There(archive.source) PROVE e \in Restored
  <2>1. PICK path \in Files : TomlFileOf(path, e)  BY FileOfEntity
  <2>2. e \in Entities  BY DEF There
  <2>3. path \in ComponentTomls \cup ContainerTomls  BY <2>1, <2>2, TomlFolder
  <2>4. path \in ValidEntities  BY <2>3 DEF ErrorsFound
  <2>5. Body(path).key = e  BY <2>1, KeyOfFile
  <2> QED  BY <2>4, <2>5 DEF Restored
<1> QED  BY <1>1, RestoredThere

\* A container that is restored is of a kind that is known.
LEMMA KnownKind ==
    ASSUME Readable, NEW e \in Restored, Container(e)
    PROVE  KindOf[e] \in Restorable
<1> DEFINE file == FileOf(e)
<1>1. /\ e \in Entities /\ file \in Files /\ file \in ValidEntities /\ TomlFileOf(file, e)
  BY RestoredHas, RestoredThere
<1>2. PICK name : TomlAt(archive.files, file, archive.source, e, name)
  BY <1>1 DEF TomlFileOf
<1> HIDE DEF file
<1>3. archive.files[file].container = IF KindOf[e] \in Restorable THEN {KindOf[e]} ELSE {}
  BY <1>2, TomlContainer
<1>4. file \in ContainerTomls  BY <1>1, TomlFolder
<1>5. Cardinality(Body(file).container) = 1  BY <1>1, <1>4 DEF ValidEntities, ValidEntity
<1>6. ASSUME KindOf[e] \notin Restorable PROVE FALSE
  <2>1. Body(file).container = {}  BY <1>3, <1>6 DEF Body
  <2>2. Cardinality({}) = 0  BY FS_EmptySet
  <2> QED  BY <1>5, <2>1, <2>2
<1> QED  BY <1>6

\* Then a reader sees the same of each version, ...
LEMMA VersionMatches ==
    ASSUME Readable, WholeArchive, ~ ErrorsFound, NEW e \in Restored,
           NEW n \in VersionNumbers(archive.source.entities[e])
    PROVE  Reads(e, archive.source.entities[e].versions[n]) = Reads(e, RestoredVersion(e, n))
<1>1. CASE Container(e)
  <2>1. KindOf[e] \in Restorable  BY <1>1, KnownKind
  <2>2. Restored = There(archive.source)  BY AllRestored
  <2> QED  BY <2>1, <2>2, ChildrenFound
<1>2. CASE ~ Container(e)
  <2>1. PICK held : held = archive.source.entities[e].versions[n]  OBVIOUS
  <2>2. PICK found : found = StaticContent(FileOf(e), n)  OBVIOUS
  <2>3. RestoredVersion(e, n) = found  BY <1>2, <2>2 DEF RestoredVersion
  <2>4. n # 0  BY DEF VersionNumbers
  <2>5. \A x \in found : x \in held /\ x.data # EmptyText
    BY <2>1, <2>2, <2>4, StaticsHeld
  <2>6. \A f \in held : f.data # EmptyText => f \in found
    BY <1>2, <2>1, <2>2, StaticsFound DEF WholeArchive
  <2>7. {f \in held : f.data # EmptyText} = {f \in found : f.data # EmptyText}
    BY <2>5, <2>6
  <2> QED  BY <1>2, <2>1, <2>3, <2>7 DEF Reads
<1> QED  BY <1>1, <1>2

\* ... an entity has its published version and its draft, ...
LEMMA EntityMatches ==
    ASSUME Readable, WholeArchive, ~ ErrorsFound, NEW content, IsRestored(content),
           NEW e \in Entities
    PROVE  /\ (archive.source.entities[e] = None) <=> (content.entities[e] = None)
           /\ content.entities[e] # None =>
                 /\ ReadAlike(e, archive.source.entities[e], archive.source.entities[e].published,
                              content.entities[e], content.entities[e].published)
                 /\ archive.source.entities[e].draft # 0 =>
                      ReadAlike(e, archive.source.entities[e], archive.source.entities[e].draft,
                                content.entities[e], content.entities[e].draft)
<1>1. PICK source : source = archive.source.entities[e]  OBVIOUS
<1>2. PICK row : row = content.entities[e]  OBVIOUS
<1>3. Restored = There(archive.source)  BY AllRestored
<1>4. source # None <=> e \in Restored  BY <1>1, <1>3 DEF There
<1>5. e \notin Restored => row = None  BY <1>2, RestoredRowOf
<1>6. e \in Restored => row # None  BY <1>2, RestoredRowOK
<1>7. ASSUME e \in Restored
      PROVE  /\ ReadAlike(e, source, source.published, row, row.published)
             /\ source.draft # 0 => ReadAlike(e, source, source.draft, row, row.draft)
  <2>1. row = DraftedRow(PublishedRow(SavedRow(e)), e)  BY <1>2, <1>7, RestoredRowOf
  <2>2. /\ \A k \in VersionNumbers(source) : row.versions[k] = RestoredVersion(e, k)
        /\ row.draft = IF source.draft = 0 THEN source.published ELSE source.draft
        /\ row.published = source.published
    BY <1>1, <1>7, <2>1, RestoredRowIs
  <2>3. \A k \in VersionNumbers(source) :
            Reads(e, source.versions[k]) = Reads(e, RestoredVersion(e, k))
    BY <1>1, <1>7, VersionMatches
  <2>4. \A k \in VersionNumbers(source) :
            Reads(e, source.versions[k]) = Reads(e, row.versions[k])
    BY <2>2, <2>3
  <2>5. /\ source.published # 0 => source.published \in VersionNumbers(source)
        /\ source.draft # 0 => source.draft \in VersionNumbers(source)
    BY DEF VersionNumbers
  <2> QED  BY <2>2, <2>4, <2>5 DEF ReadAlike
<1> QED  BY <1>1, <1>2, <1>4, <1>5, <1>6, <1>7

\* ... and a collection what it had.
LEMMA CollectionMatches ==
    ASSUME Readable, WholeArchive, ~ ErrorsFound, NEW content, IsRestored(content),
           NEW c \in Codes
    PROVE  IF archive.source.collections[c] # None /\ archive.source.collections[c].enabled
           THEN content.collections[c] = archive.source.collections[c]
           ELSE content.collections[c] = None
<1> DEFINE source == archive.source
           codes == Enabled(source)
<1>1. PICK old : old = archive.source.collections[c]  OBVIOUS
<1>2. c \in codes <=> old # None /\ old.enabled  BY <1>1 DEF Enabled
<1>3. Sorted(archive.files, source, There(source), codes)  BY DEF Readable
<1>4. ASSUME NEW path \in CollectionTomls
      PROVE  \E d \in codes :
             Body(path).key = d /\ Body(path).entities = source.collections[d].entities
  <2>1. path \in DOMAIN archive.files /\ path.folder = "collections"
    BY DEF CollectionTomls, Files
  <2>2. IsCollection(archive.files, path, source, codes)
    <3> HIDE DEF source, codes
    <3> QED  BY <1>3, <2>1, WhichCollection
  <2>3. PICK d \in codes : \E x : CollectionAt(archive.files, path, source, d, x)
    BY <2>2 DEF IsCollection
  <2>4. PICK x : CollectionAt(archive.files, path, source, d, x)  BY <2>3
  <2> HIDE DEF source
  <2>5. /\ archive.files[path].key = d
        /\ archive.files[path].entities = source.collections[d].entities
    <3>1. PICK v : v = archive.files[path].valid  OBVIOUS
    <3>2. PICK s : s = source.collections[d].entities  OBVIOUS
    <3>3. archive.files[path] = [valid |-> v, key |-> d, entities |-> s]
      BY <2>4, <3>1, <3>2 DEF CollectionAt
    <3> QED  BY <3>2, <3>3
  <2> QED  BY <2>5 DEF Body
<1>5. CASE c \notin codes
  <2>1. \A path \in CollectionTomls : Body(path).key # c  BY <1>4, <1>5
  <2>2. content.collections[c] = None  BY <2>1, CollectionOf
  <2> QED  BY <1>1, <1>2, <1>5, <2>2
<1>6. CASE c \in codes
  <2>1. PICK name : HasCollection(archive.files, source, c, name)
    BY <1>6 DEF WholeArchive, Whole
  <2>2. PICK path : path = CollectionPath(name)  OBVIOUS
  <2>3. /\ path \in DOMAIN archive.files /\ CollectionAt(archive.files, path, source, c, name)
    BY <2>1, <2>2 DEF HasCollection
  <2>4. path.folder = "collections"  BY <2>2 DEF CollectionPath, Path
  <2>5. path \in CollectionTomls  BY <2>3, <2>4 DEF CollectionTomls, Files
  <2>6. Body(path).key = c  BY <2>3, CollectionSays DEF Body
  <2>7. PICK file \in CollectionTomls :
            /\ Body(file).key = c
            /\ content.collections[c] = [enabled |-> TRUE,
                                          entities |-> Restored \cap Body(file).entities]
    BY <2>5, <2>6, CollectionOf
  <2>8. Body(file).entities = old.entities  BY <1>1, <1>4, <2>7
  <2>9. Body(file).entities \subseteq {Body(f).key : f \in ValidEntities}
    BY <2>7 DEF ErrorsFound
  <2>10. Restored \cap Body(file).entities = old.entities  BY <2>8, <2>9 DEF Restored
  <2>11. old \in CollectionRow
    <3>1. archive.source.collections \in [Codes -> CollectionRow \cup {None}]
      BY DEF Readable, SourceOK, Content
    <3> QED  BY <1>1, <1>2, <1>6, <3>1
  <2>12. old = [enabled |-> old.enabled, entities |-> old.entities] /\ old.enabled \in BOOLEAN
    BY <2>11 DEF CollectionRow
  <2>13. old.enabled = TRUE  BY <1>2, <1>6, <2>12
  <2>14. old = [enabled |-> TRUE, entities |-> old.entities]  BY <2>12, <2>13
  <2>15. content.collections[c] = old  BY <2>7, <2>10, <2>14
  <2> QED  BY <1>1, <1>2, <1>6, <2>15
<1> QED  BY <1>5, <1>6

\* Nothing is missing from a whole archive, and nothing wrong with it.
LEMMA WholeLoads ==
    ASSUME Readable, WholeArchive, Supported(archive.source), AllValid(archive.files),
           \A c \in Codes : archive.source.collections[c] # None =>
               archive.source.collections[c].entities \subseteq There(archive.source)
    PROVE  ~ FilesMissing /\ ~ ErrorsFound
<1> DEFINE source == archive.source
<1>1. ~ FilesMissing
  <2>1. PackageFile \in Files /\ \A path \in Files : IsStatic(path) => RootOf(path) \in Files
    BY DEF WholeArchive, Whole, Files, IsStatic
  <2>2. ASSUME NEW path \in Files, IsStatic(path) PROVE ~ Short(path)
    <3>1. path \in DOMAIN archive.files /\ path.version # 0  BY <2>2 DEF Files, IsStatic
    <3>2. Sorted(archive.files, source, There(source), Enabled(source))  BY DEF Readable
    <3>3. IsStaticFile(archive.files, path, source, There(source))
      <4> HIDE DEF source
      <4> QED  BY <3>1, <3>2, WhichStatic
    <3>4. PICK e \in There(source) :
              \E name, n, f : StaticAt(archive.files, path, source, e, name, n, f)
      BY <3>3 DEF IsStaticFile
    <3>5. PICK name, n, f : StaticAt(archive.files, path, source, e, name, n, f)  BY <3>4
    <3>6. /\ ~ Container(e) /\ name \in NamesOf(NameOf[e])
          /\ path = EntityPath(e, name, n, f.path)
      BY <3>5 DEF StaticAt
    <3>7. path.type = KindOf[e] /\ path.name = name  BY <3>6 DEF EntityPath, TypeFolder, Path
    <3>8. name.slug = Slug[NameOf[e]]  BY <3>6 DEF NamesOf
    <3>9. KindOf[e] \notin OddTypes /\ Slug[NameOf[e]] # ""
      BY <3>6 DEF Supported, There
    <3> QED  BY <3>7, <3>8, <3>9 DEF Short
  <2> QED  BY <2>1, <2>2 DEF FilesMissing
<1>2. Body(PackageFile).valid = TRUE
  BY PackageFileParts DEF WholeArchive, Whole, AllValid, Body
<1>3. ASSUME NEW path \in ComponentTomls \cup ContainerTomls PROVE path \in ValidEntities
  <2>1. PICK e \in There(source) : TomlFileOf(path, e)  BY TomlFile
  <2>2. path \in Files /\ e \in Entities
    BY DEF ComponentTomls, ContainerTomls, There
  <2>3. PICK name : TomlAt(archive.files, path, source, e, name)  BY <2>1 DEF TomlFileOf
  <2>4. path.version = 0  BY <2>3 DEF TomlAt, EntityPath, Path
  <2>5. Body(path).valid = TRUE  BY <2>2, <2>4 DEF AllValid, Body, Files
  <2>6. ASSUME path \in ContainerTomls
        PROVE  Cardinality(Body(path).container) = 1 /\ Body(path).container \subseteq Restorable
    <3>1. Container(e)  BY <2>1, <2>2, <2>6, TomlFolder
    <3>2. KindOf[e] # "plugin"  BY <2>2 DEF Supported, There
    <3>3. KindOf[e] \in Restorable  BY <3>1, <3>2 DEF Container
    <3>4. archive.files[path].container
             = IF KindOf[e] \in Restorable THEN {KindOf[e]} ELSE {}
      BY <2>3, TomlContainer
    <3>5. Body(path).container = {KindOf[e]}  BY <3>3, <3>4 DEF Body
    <3>6. Cardinality({KindOf[e]}) = 1  BY FS_Singleton
    <3> QED  BY <3>3, <3>5, <3>6
  <2>7. ValidEntity(path)  BY <2>5, <2>6 DEF ValidEntity
  <2> QED  BY <2>7 DEF ValidEntities
<1>4. ComponentTomls \cup ContainerTomls = ValidEntities
  <2>1. ValidEntities \subseteq ComponentTomls \cup ContainerTomls  BY DEF ValidEntities
  <2> QED  BY <1>3, <2>1
<1>5. ASSUME NEW e \in There(source) PROVE e \in {Body(f).key : f \in ValidEntities}
  <2>1. PICK path \in Files : TomlFileOf(path, e)  BY FileOfEntity
  <2>2. e \in Entities  BY DEF There
  <2>3. path \in ValidEntities  BY <1>4, <2>1, <2>2, TomlFolder
  <2>4. Body(path).key = e  BY <2>1, KeyOfFile
  <2> QED  BY <2>3, <2>4
<1>6. ASSUME NEW path \in CollectionTomls
      PROVE  Body(path).valid /\ Body(path).entities \subseteq {Body(f).key : f \in ValidEntities}
  <2>1. path \in DOMAIN archive.files /\ path.folder = "collections"
    BY DEF CollectionTomls, Files
  <2>2. Sorted(archive.files, source, There(source), Enabled(source))  BY DEF Readable
  <2>3. IsCollection(archive.files, path, source, Enabled(source))
    <3> HIDE DEF source
    <3> QED  BY <2>1, <2>2, WhichCollection
  <2>4. PICK d \in Enabled(source) : \E x : CollectionAt(archive.files, path, source, d, x)
    BY <2>3 DEF IsCollection
  <2>5. PICK x : CollectionAt(archive.files, path, source, d, x)  BY <2>4
  <2>6. path.version = 0  BY <2>5 DEF CollectionAt, CollectionPath, Path
  <2>7. Body(path).valid = TRUE  BY <2>1, <2>6 DEF AllValid, Body
  <2>8. Body(path).entities = source.collections[d].entities  BY <2>5, CollectionSays DEF Body
  <2>9. source.collections[d].entities \subseteq There(source)  BY DEF Enabled
  <2> QED  BY <1>5, <2>7, <2>8, <2>9
<1>7. ~ ErrorsFound  BY <1>2, <1>4, <1>6 DEF ErrorsFound
<1> QED  BY <1>1, <1>7

-----------------------------------------------------------------------------
(* The invariant                                                           *)

CollectionsOK(source) ==
    \A c \in Codes : source.collections[c] # None =>
        source.collections[c].entities \subseteq There(source)

ArchiveOK(a) ==
    /\ a = [files |-> a.files, complete |-> a.complete, damaged |-> a.damaged,
            quiet |-> a.quiet, blank |-> a.blank, source |-> a.source]
    /\ SourceOK(a.source)
    /\ Sorted(a.files, a.source, There(a.source), Enabled(a.source))
    /\ OneToml(a.files)
    /\ a.complete = TRUE /\ a.damaged # TRUE =>
          /\ Whole(a.files, a.source, There(a.source), Enabled(a.source))
          /\ a.blank # TRUE => AllValid(a.files)
    /\ a.complete = TRUE /\ a.quiet = TRUE => CollectionsOK(a.source)

\* The entities and the collections whose turn has been.
EntitiesDone(d, a) == There(a.source) \ d.todo
CodesDone(d, a) == IF d.listed = TRUE THEN Enabled(a.source) \ d.codes ELSE {}

DumpOK(d, a, ps) ==
    /\ d = [package |-> d.package, content |-> d.content, quiet |-> d.quiet, used |-> d.used,
            todo |-> d.todo, listed |-> d.listed, codes |-> d.codes]
    /\ d.package \in Packages /\ Authored(ps[d.package])
    /\ a.source.entities = d.content.entities
    /\ d.quiet = TRUE => ps[d.package] = d.content /\ a.source = d.content
    /\ d.todo \subseteq There(a.source)
    /\ d.listed = TRUE => d.todo = {}
    /\ d.codes \subseteq (IF d.listed = TRUE THEN Enabled(a.source) ELSE {})
    /\ \A c \in d.codes : ps[d.package].collections[c] \in CollectionRow
    /\ Sorted(a.files, a.source, EntitiesDone(d, a), CodesDone(d, a))
    /\ Whole(a.files, a.source, EntitiesDone(d, a), CodesDone(d, a))
    /\ a.blank # TRUE => AllValid(a.files)
    /\ SlugsUsed(a.files, d.used)
    /\ a.complete = FALSE

LoadOK(l) ==
    /\ l = [ref |-> l.ref, stage |-> l.stage, types |-> l.types, content |-> l.content]
    /\ l.ref \in Packages
    /\ archive # NoArchive /\ dump = None
    /\ l.stage \in {"extract", "save", "publish", "drafts"} => ~ FilesMissing
    /\ l.stage \in {"save", "publish", "drafts"} =>
          ~ ErrorsFound /\ l.types = {path.type : path \in ComponentTomls \cap ValidEntities}
    /\ l.stage = "publish" => l.content = PublishedContent
    /\ l.stage = "drafts" => l.content = WithAllPublished(PublishedContent)
    /\ l.stage = "error" => FilesMissing \/ ErrorsFound

PackagesOK ==
    /\ packages = [p \in Packages |-> packages[p]]
    /\ archive = NoArchive \/ dump # None =>
          \A p \in Packages : packages[p] # None => Authored(packages[p])

BackupInv ==
    /\ PackagesOK
    /\ TypeOK
    /\ archive # NoArchive \/ dump # None => ArchiveOK(archive)
    /\ dump # None => DumpOK(dump, archive, packages)
    /\ load # None => LoadOK(load)

-----------------------------------------------------------------------------
(* Edits                                                                   *)

TypesOf(content, kinds) == \A e \in There(content) : ~ Container(e) => KindOf[e] \in kinds

\* TypeOK, package by package.
LEMMA TypesHeld ==
    ASSUME TypeOK, NEW p \in Packages, packages[p] # None
    PROVE  TypesOf(packages[p], types) /\ WellFormed(packages[p])
BY DEF TypeOK, TypesOf, There, In

\* An edit, before the dump or during it: of the dump only `quiet` changes.
LEMMA EditKeeps ==
    ASSUME BackupInv, NEW p \in Packages, packages[p] # None, NEW content, Edit(p, content),
           Authored(content),
           \A c \in Codes : packages[p].collections[c] \in CollectionRow =>
               content.collections[c] \in CollectionRow,
           types \subseteq types', TypesOf(content, types')
    PROVE  BackupInv'
<1>1. /\ edits < MaxEdits /\ (archive = NoArchive \/ BeingDumped(p))
      /\ edits' = edits + 1
      /\ packages' = [packages EXCEPT ![p] = content]
      /\ dump' = IF BeingDumped(p) THEN [dump EXCEPT !.quiet = FALSE] ELSE dump
      /\ archive' = archive /\ load' = load
  BY DEF Edit
<1>2. /\ packages = [q \in Packages |-> packages[q]]
      /\ (archive = NoArchive \/ dump # None) =>
            \A q \in Packages : packages[q] # None => Authored(packages[q])
  BY DEF BackupInv, PackagesOK
<1>3. /\ packages'[p] = content
      /\ \A q \in Packages : q # p => packages'[q] = packages[q]
      /\ packages' = [q \in Packages |-> packages'[q]]
  BY <1>1, <1>2
<1>4. archive = NoArchive \/ dump # None  BY <1>1 DEF BeingDumped
<1>5. \A q \in Packages : packages'[q] # None => Authored(packages'[q])
  BY <1>2, <1>3, <1>4
<1>6. PackagesOK'  BY <1>3, <1>5 DEF PackagesOK
<1>7. TypeOK'
  <2>1. \A q \in Packages : packages'[q] # None => WellFormed(packages'[q])
    BY <1>5 DEF Authored
  <2>2. \A q \in Packages : packages'[q] # None => TypesOf(packages'[q], types')
    <3>1. ASSUME NEW q \in Packages, q # p, packages[q] # None
          PROVE  TypesOf(packages[q], types')
      <4>1. TypesOf(packages[q], types)  BY <3>1, TypesHeld DEF BackupInv
      <4> QED  BY <4>1 DEF TypesOf
    <3> QED  BY <1>3, <3>1
  <2>3. edits' \in 0 .. MaxEdits
    <3>1. MaxEdits \in Nat /\ edits \in 0 .. MaxEdits  BY BackupAssumption DEF BackupInv, TypeOK
    <3> QED  BY <1>1, <3>1
  <2> QED  BY <2>1, <2>2, <2>3 DEF TypeOK, TypesOf, There, In
<1>8. load = None
  <2>1. load # None => archive # NoArchive /\ dump = None  BY DEF BackupInv, LoadOK
  <2> QED  BY <1>4, <2>1
<1>9. archive' # NoArchive \/ dump' # None => ArchiveOK(archive')
  <2>1. CASE dump # None  BY <1>1, <2>1 DEF BackupInv
  <2>2. CASE dump = None
    <3>1. dump' = dump  BY <1>1, <2>2 DEF BeingDumped
    <3> QED  BY <1>1, <3>1 DEF BackupInv
  <2> QED  BY <2>1, <2>2
<1>10. dump' # None => DumpOK(dump', archive', packages')
  <2>1. CASE BeingDumped(p)
    <3> DEFINE old == dump
    <3>1. DumpOK(old, archive, packages) /\ old.package = p  BY <2>1 DEF BackupInv, BeingDumped
    <3>2. PICK new : new = [old EXCEPT !.quiet = FALSE]  OBVIOUS
    <3>3. dump' = new  BY <1>1, <2>1, <3>2
    <3> HIDE DEF old
    <3>4. old = [package |-> old.package, content |-> old.content, quiet |-> old.quiet,
                 used |-> old.used, todo |-> old.todo, listed |-> old.listed, codes |-> old.codes]
      BY <3>1 DEF DumpOK
    <3>5. PICK no : no = FALSE  OBVIOUS
    <3>6. new = [old EXCEPT !.quiet = no]  BY <3>2, <3>5
    <3>7. new = [package |-> old.package, content |-> old.content, quiet |-> no,
                 used |-> old.used, todo |-> old.todo, listed |-> old.listed, codes |-> old.codes]
      BY <3>4, <3>6
    <3>8. /\ new.package = old.package /\ new.content = old.content /\ new.quiet = no
          /\ new.used = old.used /\ new.todo = old.todo /\ new.listed = old.listed
          /\ new.codes = old.codes
      BY <3>7
    <3>9. new = [package |-> new.package, content |-> new.content, quiet |-> new.quiet,
                 used |-> new.used, todo |-> new.todo, listed |-> new.listed, codes |-> new.codes]
      BY <3>7, <3>8
    <3>10. EntitiesDone(new, archive) = EntitiesDone(old, archive)
      BY <3>8 DEF EntitiesDone
    <3>11. CodesDone(new, archive) = CodesDone(old, archive)
      BY <3>8 DEF CodesDone
    <3>12. packages'[new.package] = content /\ new.package \in Packages
      BY <1>3, <3>1, <3>8
    <3>13. \A c \in new.codes : content.collections[c] \in CollectionRow
      <4>1. \A c \in old.codes : packages[p].collections[c] \in CollectionRow /\ c \in Codes
        BY <3>1 DEF DumpOK, Enabled
      <4> QED  BY <3>8, <4>1
    <3>14. new.quiet # TRUE  BY <3>5, <3>8
    <3>15. DumpOK(new, archive, packages')
      BY <3>1, <3>8, <3>9, <3>10, <3>11, <3>12, <3>13, <3>14 DEF DumpOK
    <3> QED  BY <1>1, <3>3, <3>15
  <2>2. CASE ~ BeingDumped(p)
    <3>1. dump' = dump  BY <1>1, <2>2
    <3>2. ASSUME dump # None PROVE DumpOK(dump, archive, packages')
      <4>1. dump.package # p  BY <2>2, <3>2 DEF BeingDumped
      <4>2. DumpOK(dump, archive, packages)  BY <3>2 DEF BackupInv
      <4>3. packages'[dump.package] = packages[dump.package]  BY <1>3, <4>1, <4>2 DEF DumpOK
      <4> QED  BY <4>2, <4>3 DEF DumpOK
    <3> QED  BY <1>1, <3>1, <3>2
  <2> QED  BY <2>1, <2>2
<1>11. load' = None  BY <1>1, <1>8
<1> QED  BY <1>6, <1>7, <1>9, <1>10, <1>11 DEF BackupInv

\* A change of one row of the entities, and one of the collections.
LEMMA CreateEntityInv ==
    ASSUME BackupInv, NEW p \in Packages, NEW e \in Entities, CreateEntity(p, e)
    PROVE  BackupInv'
<1> DEFINE content == [packages[p] EXCEPT !.entities[e] = NewEntity]
<1>1. /\ packages[p] # None /\ Edit(p, content)
      /\ types' = IF Container(e) THEN types ELSE types \cup {KindOf[e]}
  BY DEF CreateEntity
<1>2. Authored(packages[p])  BY <1>1 DEF BackupInv, PackagesOK, Edit, BeingDumped
<1>3. Authored(content)  BY <1>2, CreateKeeps
<1>4. content.collections = packages[p].collections
  BY <1>2 DEF Authored, Content
<1>5. \A d \in Entities : d # e => content.entities[d] = packages[p].entities[d]
  BY <1>2 DEF Authored, Content
<1> HIDE DEF content
<1>6. types \subseteq types'  BY <1>1
<1>7. TypesOf(content, types')
  <2>1. TypesOf(packages[p], types)  BY <1>1, TypesHeld DEF BackupInv
  <2> QED  BY <1>1, <1>5, <2>1 DEF TypesOf, There
<1> QED  BY <1>1, <1>3, <1>4, <1>6, <1>7, EditKeeps

\* An edit of entities that are there, or of collections.
LEMMA RowEditInv ==
    ASSUME BackupInv, NEW p \in Packages, packages[p] # None, NEW content, Edit(p, content),
           Authored(content), There(content) = There(packages[p]), types' = types,
           \A c \in Codes : packages[p].collections[c] \in CollectionRow =>
               content.collections[c] \in CollectionRow
    PROVE  BackupInv'
<1>1. TypesOf(packages[p], types)  BY TypesHeld DEF BackupInv
<1>2. TypesOf(content, types')  BY <1>1 DEF TypesOf
<1>3. types \subseteq types'  OBVIOUS
<1> QED  BY <1>2, <1>3, EditKeeps

\* A next version has a number within the bound, for a guard says so.
LEMMA CreateNextVersionInv ==
    ASSUME BackupInv, NEW p \in Packages, NEW e \in Entities, NEW held \in Contents[e],
           CreateNextVersion(p, e, held)
    PROVE  BackupInv'
<1> DEFINE row == packages[p].entities[e]
           n == Max({0} \cup DOMAIN row.versions) + 1
           after == [row EXCEPT !.versions = With(row.versions, n, held), !.draft = n]
           content == [packages[p] EXCEPT !.entities[e] = after]
<1>1. /\ packages[p] # None /\ row # None /\ n <= MaxVersion
      /\ Container(e) => \A i \in DOMAIN held : held[i].entity \in In(p)
      /\ Edit(p, content) /\ types' = types
  BY DEF CreateNextVersion
<1>2. Authored(packages[p])  BY <1>1 DEF BackupInv, PackagesOK, Edit, BeingDumped
<1>3. e \in There(packages[p]) /\ In(p) = There(packages[p])  BY <1>1 DEF There, In
<1>4. Authored(content)
  <2>1. PICK old : old = packages[p]  OBVIOUS
  <2>2. PICK m : m = n  OBVIOUS
  <2>3. m = Max({0} \cup DOMAIN old.entities[e].versions) + 1 /\ m <= MaxVersion
    BY <1>1, <2>1, <2>2
  <2>4. Container(e) => \A i \in DOMAIN held : held[i].entity \in There(old)
    BY <1>1, <1>3, <2>1
  <2>5. Authored([old EXCEPT !.entities[e] =
                        [old.entities[e] EXCEPT
                            !.versions = With(old.entities[e].versions, m, held), !.draft = m]])
    BY <1>2, <1>3, <2>1, <2>3, <2>4, NextVersionKeeps
  <2> QED  BY <2>1, <2>2, <2>5
<1> HIDE DEF after
<1>5. content.collections = packages[p].collections  BY <1>2 DEF Authored, Content
<1>6. /\ \A d \in Entities : d # e => content.entities[d] = packages[p].entities[d]
      /\ content.entities[e] = after
  BY <1>2 DEF Authored, Content
<1> HIDE DEF content
<1>7. after # None
  <2>1. after \in EntityRow \cup {None}  BY <1>4, <1>6 DEF Authored, Content
  <2>2. after = [row EXCEPT !.versions = With(row.versions, n, held), !.draft = n]  BY DEF after
  <2>3. row \in EntityRow  BY <1>1, <1>2 DEF Authored, Content
  <2>4. PICK h : h = With(row.versions, n, held)  OBVIOUS
  <2>5. PICK m : m = n  OBVIOUS
  <2>6. after = [row EXCEPT !.versions = h, !.draft = m]  BY <2>2, <2>4, <2>5
  <2>7. n \in 1 .. MaxVersion /\ held \in (SUBSET File) \cup Seq(Child)
    <3>1. MaxVersion \in Nat  BY BackupAssumption
    <3>2. DOMAIN row.versions \subseteq 1 .. MaxVersion  BY <2>3, RowShape
    <3> DEFINE numbers == {0} \cup DOMAIN row.versions
    <3>3. numbers \subseteq Nat /\ numbers # {} /\ \A k \in numbers : k <= MaxVersion
      BY <3>1, <3>2
    <3>4. n = Max(numbers) + 1  OBVIOUS
    <3> HIDE DEF numbers, n
    <3>5. Max(numbers) \in numbers  BY <3>1, <3>3, MaxOfBounded
    <3>6. Max(numbers) \in Nat  BY <3>3, <3>5
    <3>7. n \in 1 .. MaxVersion  BY <1>1, <3>1, <3>4, <3>6
    <3> QED  BY <3>7, ContentsHeld
  <2>8. h \in Histories  BY <2>3, <2>4, <2>7, HistoryGrows
  <2>9. m \in 0 .. MaxVersion
    <3>1. MaxVersion \in Nat  BY BackupAssumption
    <3>2. m \in 1 .. MaxVersion  BY <2>5, <2>7
    <3> QED  BY <3>1, <3>2
  <2>10. after \in EntityRow  BY <2>3, <2>6, <2>8, <2>9 DEF EntityRow
  <2> QED  BY <2>10, RowShape
<1>8. There(content) = There(packages[p])  BY <1>1, <1>6, <1>7 DEF There
<1> QED  BY <1>1, <1>4, <1>5, <1>8, RowEditInv

\* A draft that is deleted stays a row.
LEMMA SoftDeleteInv ==
    ASSUME BackupInv, NEW p \in Packages, NEW e \in Entities, SoftDelete(p, e)
    PROVE  BackupInv'
<1> DEFINE content == [packages[p] EXCEPT !.entities[e].draft = 0]
<1>1. packages[p] # None /\ packages[p].entities[e] # None /\ Edit(p, content) /\ types' = types
  BY DEF SoftDelete
<1>2. Authored(packages[p])  BY <1>1 DEF BackupInv, PackagesOK, Edit, BeingDumped
<1>3. e \in There(packages[p])  BY <1>1 DEF There
<1>4. Authored(content)  BY <1>2, <1>3, DeleteKeeps
<1>5. content.collections = packages[p].collections  BY <1>2 DEF Authored, Content
<1>6. /\ \A d \in Entities : d # e => content.entities[d] = packages[p].entities[d]
      /\ content.entities[e] = [packages[p].entities[e] EXCEPT !.draft = 0]
  BY <1>2 DEF Authored, Content
<1> HIDE DEF content
<1>7. content.entities[e] # None
  <2>1. PICK row : row = packages[p].entities[e]  OBVIOUS
  <2>2. row \in EntityRow  BY <1>1, <1>2, <2>1 DEF Authored, Content
  <2>3. MaxVersion \in Nat  BY BackupAssumption
  <2>4. 0 \in 0 .. MaxVersion  BY <2>3
  <2>5. [row EXCEPT !.draft = 0] \in EntityRow  BY <2>2, <2>4 DEF EntityRow
  <2> QED  BY <1>6, <2>1, <2>5, RowShape
<1>8. There(content) = There(packages[p])  BY <1>1, <1>6, <1>7 DEF There
<1> QED  BY <1>1, <1>4, <1>5, <1>8, RowEditInv

\* Publication takes no entity away.
LEMMA PublishAllInv ==
    ASSUME BackupInv, NEW p \in Packages, PublishAll(p)
    PROVE  BackupInv'
<1> DEFINE content == WithAllPublished(packages[p])
<1>1. packages[p] # None /\ Edit(p, content) /\ types' = types  BY DEF PublishAll
<1>2. Authored(packages[p])  BY <1>1 DEF BackupInv, PackagesOK, Edit, BeingDumped
<1>3. Authored(content)  BY <1>2, PublishKeeps
<1>4. content.collections = packages[p].collections
  BY <1>2 DEF Authored, Content, WithAllPublished
<1>5. content.entities = [e \in Entities |->
        IF packages[p].entities[e] = None THEN None
        ELSE [packages[p].entities[e] EXCEPT !.published = packages[p].entities[e].draft]]
  BY <1>2 DEF Authored, Content, WithAllPublished
<1> HIDE DEF content
<1>6. There(content) = There(packages[p])
  <2>1. ASSUME NEW e \in There(packages[p]) PROVE content.entities[e] # None
    <3>1. PICK row : row = packages[p].entities[e]  OBVIOUS
    <3>2. e \in Entities /\ row # None  BY <3>1 DEF There
    <3>3. row \in EntityRow  BY <1>2, <3>1, <3>2 DEF Authored, Content
    <3>4. content.entities[e] = PublishedRow(row)  BY <1>5, <3>1, <3>2 DEF PublishedRow
    <3> QED  BY <3>3, <3>4, PublishedRowIs
  <2>2. ASSUME NEW e \in Entities, packages[p].entities[e] = None
        PROVE  content.entities[e] = None
    BY <1>5, <2>2
  <2> QED  BY <2>1, <2>2 DEF There
<1> QED  BY <1>1, <1>3, <1>4, <1>6, RowEditInv

\* Collections change what a quiet dump would see, hence `quiet`.
LEMMA CollectInv ==
    ASSUME BackupInv, NEW p \in Packages, NEW c \in Codes, NEW e \in Entities, Collect(p, c, e)
    PROVE  BackupInv'
<1> DEFINE row == packages[p].collections[c]
           after == IF row = None THEN [enabled |-> TRUE, entities |-> {e}]
                    ELSE [row EXCEPT !.entities = row.entities \cup {e}]
           content == [packages[p] EXCEPT !.collections[c] = after]
<1>1. packages[p] # None /\ e \in In(p) /\ Edit(p, content) /\ types' = types
  BY DEF Collect
<1>2. Authored(packages[p])  BY <1>1 DEF BackupInv, PackagesOK, Edit, BeingDumped
<1>3. e \in There(packages[p])  BY <1>1 DEF There, In
<1>4. Authored(content)
  <2>1. PICK old : old = packages[p]  OBVIOUS
  <2>2. Authored([old EXCEPT !.collections[c] =
               IF old.collections[c] = None THEN [enabled |-> TRUE, entities |-> {e}]
               ELSE [old.collections[c] EXCEPT
                        !.entities = old.collections[c].entities \cup {e}]])
    BY <1>2, <1>3, <2>1, CollectKeeps
  <2> QED  BY <2>1, <2>2
<1>5. row \in CollectionRow \cup {None}  BY <1>2 DEF Authored, Content
<1> HIDE DEF row
<1>6. after \in CollectionRow  BY <1>5 DEF CollectionRow
<1> HIDE DEF after
<1>7. /\ content.entities = packages[p].entities
      /\ content.collections = [packages[p].collections EXCEPT ![c] = after]
  BY <1>2 DEF Authored, Content
<1>8. \A d \in Codes : packages[p].collections[d] \in CollectionRow =>
               content.collections[d] \in CollectionRow
  BY <1>2, <1>6, <1>7 DEF Authored, Content
<1> HIDE DEF content
<1>9. There(content) = There(packages[p])  BY <1>7 DEF There
<1> QED  BY <1>1, <1>4, <1>8, <1>9, RowEditInv

\* A collection that the dump has listed stays a row, though disabled.
LEMMA DeleteCollectionInv ==
    ASSUME BackupInv, NEW p \in Packages, NEW c \in Codes, DeleteCollection(p, c)
    PROVE  BackupInv'
<1> DEFINE row == packages[p].collections[c]
           after == [row EXCEPT !.enabled = FALSE]
           content == [packages[p] EXCEPT !.collections[c].enabled = FALSE]
<1>1. packages[p] # None /\ row # None /\ Edit(p, content) /\ types' = types
  BY DEF DeleteCollection
<1>2. Authored(packages[p])  BY <1>1 DEF BackupInv, PackagesOK, Edit, BeingDumped
<1>3. Authored(content)  BY <1>1, <1>2, DisableKeeps
<1>4. row \in CollectionRow  BY <1>1, <1>2 DEF Authored, Content
<1>5. content.entities = packages[p].entities
  BY <1>2 DEF Authored, Content
<1>6. content.collections = [packages[p].collections EXCEPT ![c] = after]
  BY <1>2 DEF Authored, Content
<1> HIDE DEF content, row
<1>7. after \in CollectionRow  BY <1>4 DEF CollectionRow
<1> HIDE DEF after
<1>8. \A d \in Codes : packages[p].collections[d] \in CollectionRow =>
               content.collections[d] \in CollectionRow
  BY <1>2, <1>6, <1>7 DEF Authored, Content
<1>9. There(content) = There(packages[p])  BY <1>5 DEF There
<1> QED  BY <1>1, <1>3, <1>8, <1>9, RowEditInv

-----------------------------------------------------------------------------
(* The initial states                                                      *)

\* The entities that there are at first.
LEMMA EarlyRowIs ==
    ASSUME NEW e \in Entities, NEW published \in BOOLEAN,
           NEW row, row = EarlyRow(e, published)
    PROVE  AuthoredRow(e, row) /\ row # None
<1>1. CASE published = FALSE  BY <1>1, NewRow DEF EarlyRow
<1>2. CASE published = TRUE
  <2>1. PICK held : held = CHOOSE content \in Contents[e] : TRUE  OBVIOUS
  <2>2. Contents[e] # {}  BY BackupAssumption
  <2>3. held \in Contents[e]  BY <2>1, <2>2
  <2>4. PICK h : h = <<held>>  OBVIOUS
  <2>5. PICK one \in Nat : one = 1  OBVIOUS
  <2>6. row = [versions |-> h, draft |-> one, published |-> one]
    BY <1>2, <2>1, <2>4, <2>5 DEF EarlyRow
  <2>7. DOMAIN h = {1} /\ h = [n \in {1} |-> held]  BY <2>4
  <2>8. MaxVersion \in Nat \ {0}  BY BackupAssumption
  <2>9. DOMAIN h \subseteq 1 .. MaxVersion  BY <2>7, <2>8
  <2>10. \A n \in DOMAIN h : h[n] \in Contents[e]  BY <2>7, <2>3
  <2>11. h = [n \in DOMAIN h |-> h[n]]  BY <2>7
  <2>12. \A n \in DOMAIN h : h[n] \in (SUBSET File) \cup Seq(Child)  BY <2>10, ContentsHeld
  <2>13. h \in Histories  BY <2>9, <2>11, <2>12, HistoryIs
  <2>14. one \in 0 .. MaxVersion  BY <2>5, <2>8
  <2>15. row \in EntityRow /\ row.versions = h  BY <2>6, <2>13, <2>14 DEF EntityRow
  <2>16. row # None  BY <2>15, RowShape
  <2> QED  BY <2>10, <2>15, <2>16 DEF AuthoredRow
<1> QED  BY <1>1, <1>2

\* The package that there is at first.
LEMMA FirstContent ==
    ASSUME NEW there \in SUBSET Entities, NEW published \in SUBSET there,
           NEW content,
           content = [NoContent EXCEPT !.entities =
                [e \in Entities |-> IF e \in there THEN EarlyRow(e, e \in published) ELSE None]],
           WellFormed(content)
    PROVE  Authored(content) /\ There(content) = there
<1> DEFINE rows == [e \in Entities |-> IF e \in there THEN EarlyRow(e, e \in published) ELSE None]
           nothing == [c \in Codes |-> None]
<1>1. /\ NoContent.collections = nothing
      /\ NoContent = [entities |-> NoContent.entities, collections |-> nothing]
  BY DEF NoContent
<1>2. \A e \in there : AuthoredRow(e, rows[e]) /\ rows[e] # None
  <2>1. SUFFICES ASSUME NEW e \in there PROVE AuthoredRow(e, rows[e]) /\ rows[e] # None
    OBVIOUS
  <2>2. CASE e \in published
    <3>1. PICK early \in BOOLEAN : early = TRUE  OBVIOUS
    <3>2. (e \in published) = early  BY <2>2, <3>1
    <3>3. rows[e] = EarlyRow(e, early)  BY <3>2
    <3> QED  BY <3>3, EarlyRowIs
  <2>3. CASE e \notin published
    <3>1. PICK early \in BOOLEAN : early = FALSE  OBVIOUS
    <3>2. (e \in published) = early  BY <2>3, <3>1
    <3>3. rows[e] = EarlyRow(e, early)  BY <3>2
    <3> QED  BY <3>3, EarlyRowIs
  <2> QED  BY <2>2, <2>3
<1>3. \A e \in Entities : e \notin there => rows[e] = None  OBVIOUS
<1>4. DOMAIN rows = Entities /\ rows = [e \in Entities |-> rows[e]]  OBVIOUS
<1> HIDE DEF rows
<1>5. content = [entities |-> rows, collections |-> nothing]
  BY <1>1 DEF rows
<1>6. nothing \in [Codes -> CollectionRow \cup {None}]  OBVIOUS
<1>7. content.entities = rows /\ content.collections = nothing  BY <1>5
<1>8. rows \in [Entities -> EntityRow \cup {None}]  BY <1>2, <1>3, <1>4 DEF AuthoredRow
<1>9. content \in Content
  <2>1. PICK g : g = nothing  OBVIOUS
  <2>2. PICK f : f = rows  OBVIOUS
  <2>3. g \in [Codes -> CollectionRow \cup {None}]  BY <1>6, <2>1
  <2>4. f \in [Entities -> EntityRow \cup {None}]  BY <1>8, <2>2
  <2>5. content = [entities |-> f, collections |-> g]  BY <1>5, <2>1, <2>2
  <2> HIDE DEF nothing
  <2>6. [entities |-> f, collections |-> g] \in Content  BY <2>3, <2>4 DEF Content
  <2> QED  BY <2>5, <2>6
<1>10. AuthoredRows(content)  BY <1>2, <1>3, <1>7 DEF AuthoredRows
<1>11. There(content) = there  BY <1>2, <1>3, <1>7 DEF There
<1> QED  BY <1>9, <1>10, <1>11 DEF Authored

\* The invariant holds at first.
LEMMA InitInv ==
    ASSUME BackupInit
    PROVE  BackupInv
<1>1. PICK home \in Packages, there \in SUBSET Entities : \E published \in SUBSET there :
          LET content == [NoContent EXCEPT !.entities =
                [e \in Entities |-> IF e \in there THEN EarlyRow(e, e \in published) ELSE None]]
          IN  /\ WellFormed(content)
              /\ packages = [p \in Packages |-> IF p = home THEN content ELSE None]
              /\ types = {KindOf[e] : e \in {d \in there : ~ Container(d)}}
  BY DEF BackupInit
<1>2. PICK published \in SUBSET there :
          LET content == [NoContent EXCEPT !.entities =
                [e \in Entities |-> IF e \in there THEN EarlyRow(e, e \in published) ELSE None]]
          IN  /\ WellFormed(content)
              /\ packages = [p \in Packages |-> IF p = home THEN content ELSE None]
              /\ types = {KindOf[e] : e \in {d \in there : ~ Container(d)}}
  BY <1>1
<1>3. PICK content : content = [NoContent EXCEPT !.entities =
                [e \in Entities |-> IF e \in there THEN EarlyRow(e, e \in published) ELSE None]]
  OBVIOUS
<1>4. /\ WellFormed(content)
      /\ packages = [p \in Packages |-> IF p = home THEN content ELSE None]
      /\ types = {KindOf[e] : e \in {d \in there : ~ Container(d)}}
  BY <1>2, <1>3
<1>5. Authored(content) /\ There(content) = there  BY <1>3, <1>4, FirstContent
<1>6. /\ packages = [p \in Packages |-> packages[p]]
      /\ \A p \in Packages : packages[p] # None => packages[p] = content
  BY <1>4
<1>7. dump = None /\ archive = NoArchive /\ load = None /\ edits = 0  BY DEF BackupInit
<1>8. PackagesOK  BY <1>5, <1>6 DEF PackagesOK
<1>9. TypeOK
  <2>1. MaxEdits \in Nat  BY BackupAssumption
  <2>2. edits \in 0 .. MaxEdits  BY <1>7, <2>1
  <2>3. \A e \in There(content) : ~ Container(e) => KindOf[e] \in types  BY <1>4, <1>5
  <2>4. ASSUME NEW p \in Packages, packages[p] # None, NEW e \in In(p), ~ Container(e)
        PROVE  KindOf[e] \in types
    <3>1. packages[p] = content  BY <1>6, <2>4
    <3>2. e \in There(content)  BY <2>4, <3>1 DEF In, There
    <3> QED  BY <2>3, <2>4, <3>2
  <2> QED  BY <1>4, <1>6, <2>2, <2>4 DEF TypeOK
<1> QED  BY <1>7, <1>8, <1>9 DEF BackupInv

-----------------------------------------------------------------------------
(* The dump                                                                *)

\* No load runs before the dump is over.
LEMMA NoLoadYet ==
    ASSUME BackupInv, archive = NoArchive \/ dump # None
    PROVE  load = None
BY DEF BackupInv, LoadOK

\* A step of the dump changes the dump and the archive alone.
LEMMA DumpStepKeeps ==
    ASSUME BackupInv, UNCHANGED <<packages, types, load>>, edits' \in {0, edits},
           load = None, archive = NoArchive \/ dump # None,
           ArchiveOK(archive'),
           dump' # None => DumpOK(dump', archive', packages)
    PROVE  BackupInv'
<1>1. PackagesOK'  BY DEF BackupInv, PackagesOK
<1>2. TypeOK'
  <2>1. MaxEdits \in Nat /\ edits \in 0 .. MaxEdits  BY BackupAssumption DEF BackupInv, TypeOK
  <2>2. edits' \in 0 .. MaxEdits  BY <2>1
  <2> QED  BY <2>2 DEF BackupInv, TypeOK, In
<1> QED  BY <1>1, <1>2 DEF BackupInv

\* lp_dump has read the entities, and has written package.toml.
LEMMA DumpStartInv ==
    ASSUME BackupInv, NEW p \in Packages, NEW blank \in BOOLEAN, DumpStart(p, blank)
    PROVE  BackupInv'
<1>1. PICK no : no = FALSE  OBVIOUS
<1>2. PICK yes : yes = TRUE  OBVIOUS
<1>3. PICK content : content = packages[p]  OBVIOUS
<1>4. PICK none : none = {}  OBVIOUS
<1>5. PICK ok \in BOOLEAN : ok = ~ blank  OBVIOUS
<1>24. PICK files : files = [path \in {PackageFile} |-> [valid |-> ok, key |-> p]]  OBVIOUS
<1>6. PICK todo : todo = EntitiesToWrite(content)  OBVIOUS
<1>7. PICK a : a = archive'  OBVIOUS
<1>8. PICK d : d = dump'  OBVIOUS
<1>9. archive = NoArchive /\ content # None  BY <1>3 DEF DumpStart
<1>10. a = [files |-> files, complete |-> no, damaged |-> no, quiet |-> no, blank |-> blank,
            source |-> content]
  BY <1>1, <1>3, <1>5, <1>7, <1>24 DEF DumpStart
<1>11. d = [package |-> p, content |-> content, quiet |-> yes, used |-> none,
            todo |-> todo, listed |-> no, codes |-> none]
  BY <1>1, <1>2, <1>3, <1>4, <1>6, <1>8 DEF DumpStart
<1>12. Authored(content)
  BY <1>3, <1>9 DEF BackupInv, PackagesOK
<1>13. SourceOK(content) /\ CollectionsOK(content)
  BY <1>12, WellFormedIs DEF Authored, SourceOK, EntitiesOK, CollectionsOK
<1>14. Sorted(files, content, {}, {}) /\ OneToml(files) /\ SlugsUsed(files, {})
       /\ Whole(files, content, {}, {}) /\ (ok = TRUE => AllValid(files))
  BY <1>24, FirstFile
<1>15. /\ a.files = files /\ a.complete = no /\ a.damaged = no /\ a.quiet = no
       /\ a.blank = blank /\ a.source = content
       /\ a = [files |-> a.files, complete |-> a.complete, damaged |-> a.damaged,
               quiet |-> a.quiet, blank |-> a.blank, source |-> a.source]
  BY <1>10
<1>16. Sorted(files, content, There(content), Enabled(content))
  BY <1>14, SortedGrows
<1>17. ArchiveOK(a)  BY <1>1, <1>13, <1>14, <1>15, <1>16 DEF ArchiveOK
<1>18. /\ d.package = p /\ d.content = content /\ d.quiet = yes /\ d.used = none
       /\ d.todo = todo /\ d.listed = no /\ d.codes = none
       /\ d = [package |-> d.package, content |-> d.content, quiet |-> d.quiet, used |-> d.used,
               todo |-> d.todo, listed |-> d.listed, codes |-> d.codes]
  BY <1>11
<1>19. todo = There(content)  BY <1>6 DEF EntitiesToWrite, There
<1>20. EntitiesDone(d, a) = {} /\ CodesDone(d, a) = {}
  BY <1>1, <1>15, <1>18, <1>19 DEF EntitiesDone, CodesDone
<1>25. a.blank # TRUE => AllValid(a.files)  BY <1>5, <1>14, <1>15
<1>21. DumpOK(d, a, packages)
  BY <1>1, <1>3, <1>4, <1>12, <1>14, <1>15, <1>18, <1>19, <1>20, <1>25 DEF DumpOK
<1>22. load = None  BY <1>9, NoLoadYet
<1>23. UNCHANGED <<packages, types, load, edits>>  BY DEF DumpStart
<1> QED  BY <1>7, <1>8, <1>9, <1>17, <1>21, <1>22, <1>23, DumpStepKeeps

\* A turn of the loop over the entities, which are those that were read at once.
LEMMA DumpEntityInv ==
    ASSUME BackupInv, DumpEntity
    PROVE  BackupInv'
<1>1. PICK i \in DOMAIN EntityRefs :
          /\ EntityRefs[i] \in dump.todo
          /\ LET e == EntityRefs[i]
                 row == dump.content.entities[e]
                 root == TomlPath("entities", IF Container(e) THEN "" ELSE KindOf[e],
                                  FileName(dump.used, NameOf[e]))
             IN  /\ dump' = [dump EXCEPT !.todo = dump.todo \ {e},
                                         !.used = dump.used \cup {Slug[NameOf[e]]}]
                 /\ archive' = [archive EXCEPT
                       !.files = WithAll(With(archive.files, root, EntityToml(e, row)),
                                         StaticFiles(e, row, root))]
  BY DEF DumpEntity
<1>2. PICK e : e = EntityRefs[i]  OBVIOUS
<1>3. PICK a : a = archive  OBVIOUS
<1>4. PICK d : d = dump  OBVIOUS
<1>5. PICK row : row = d.content.entities[e]  OBVIOUS
<1>6. PICK root : root = EntityPath(e, FileName(d.used, NameOf[e]), 0, "")  OBVIOUS
<1>7. root = TomlPath("entities", IF Container(e) THEN "" ELSE KindOf[e],
                      FileName(d.used, NameOf[e]))
  BY <1>6 DEF EntityPath, TypeFolder, TomlPath
<1>8. PICK todo : todo = d.todo \ {e}  OBVIOUS
<1>9. PICK used : used = d.used \cup {Slug[NameOf[e]]}  OBVIOUS
<1>10. PICK files : files = WithAll(With(a.files, root, EntityToml(e, row)),
                                    StaticFiles(e, row, root))
  OBVIOUS
<1>11. PICK b : b = archive'  OBVIOUS
<1>12. PICK n : n = dump'  OBVIOUS
<1>13. n = [d EXCEPT !.todo = todo, !.used = used]
  BY <1>1, <1>2, <1>4, <1>8, <1>9, <1>12
<1>14. b = [a EXCEPT !.files = files]
  BY <1>1, <1>2, <1>3, <1>4, <1>5, <1>7, <1>10, <1>11
<1>15. dump # None /\ UNCHANGED <<packages, types, load, edits>>  BY DEF DumpEntity
<1>16. ArchiveOK(a) /\ DumpOK(d, a, packages)  BY <1>3, <1>4, <1>15 DEF BackupInv
<1>17. /\ n = [package |-> d.package, content |-> d.content, quiet |-> d.quiet, used |-> used,
               todo |-> todo, listed |-> d.listed, codes |-> d.codes]
       /\ b = [files |-> files, complete |-> a.complete, damaged |-> a.damaged,
               quiet |-> a.quiet, blank |-> a.blank, source |-> a.source]
  <2>1. d = [package |-> d.package, content |-> d.content, quiet |-> d.quiet, used |-> d.used,
             todo |-> d.todo, listed |-> d.listed, codes |-> d.codes]
    BY <1>16 DEF DumpOK
  <2>2. a = [files |-> a.files, complete |-> a.complete, damaged |-> a.damaged,
             quiet |-> a.quiet, blank |-> a.blank, source |-> a.source]
    BY <1>16 DEF ArchiveOK
  <2>3. n = [package |-> d.package, content |-> d.content, quiet |-> d.quiet, used |-> used,
             todo |-> todo, listed |-> d.listed, codes |-> d.codes]
    BY <1>13, <2>1
  <2>4. b = [files |-> files, complete |-> a.complete, damaged |-> a.damaged,
             quiet |-> a.quiet, blank |-> a.blank, source |-> a.source]
    BY <1>14, <2>2
  <2> QED  BY <2>3, <2>4
<1>18. /\ n.package = d.package /\ n.content = d.content /\ n.quiet = d.quiet /\ n.used = used
       /\ n.todo = todo /\ n.listed = d.listed /\ n.codes = d.codes
  BY <1>17
<1>19. /\ b.files = files /\ b.complete = a.complete /\ b.damaged = a.damaged
       /\ b.quiet = a.quiet /\ b.blank = a.blank /\ b.source = a.source
  BY <1>17
<1>20. PICK source : source = a.source  OBVIOUS
<1>21. PICK done : done = EntitiesDone(d, a)  OBVIOUS
<1>22. PICK codes : codes = CodesDone(d, a)  OBVIOUS
<1>23. /\ e \in There(source) /\ e \in d.todo /\ e \in Entities /\ e \notin done
       /\ done \subseteq There(source) /\ d.todo \subseteq There(source)
       /\ done = There(source) \ d.todo
  BY <1>1, <1>2, <1>4, <1>16, <1>20, <1>21 DEF DumpOK, EntitiesDone, There
<1>24. row = source.entities[e]  BY <1>5, <1>16, <1>20 DEF DumpOK
<1>25. SourceOK(source)  BY <1>16, <1>20 DEF ArchiveOK
<1>26. AuthoredRow(e, source.entities[e]) /\ RowOK(e, source.entities[e], There(source))
  BY <1>23, <1>25, SourceRow
<1>27. /\ Sorted(a.files, source, done, codes) /\ Whole(a.files, source, done, codes)
       /\ SlugsUsed(a.files, d.used) /\ OneToml(a.files)
  BY <1>16, <1>20, <1>21, <1>22 DEF DumpOK, ArchiveOK
<1>28. done \subseteq Entities  BY <1>23 DEF There
<1>29. PICK old : old = a.files  OBVIOUS
<1>30. PICK was : was = d.used  OBVIOUS
<1>31. files = WithAll(With(old, root, EntityToml(e, source.entities[e])),
                       StaticFiles(e, source.entities[e], root))
  BY <1>10, <1>24, <1>29
<1>32. root = EntityPath(e, FileName(was, NameOf[e]), 0, "")  BY <1>6, <1>30
<1>33. /\ Sorted(old, source, done, codes) /\ Whole(old, source, done, codes)
       /\ SlugsUsed(old, was) /\ OneToml(old)
  BY <1>27, <1>29, <1>30
<1>34. /\ Sorted(files, source, done \cup {e}, codes)
       /\ OneToml(files)
       /\ SlugsUsed(files, was \cup {Slug[NameOf[e]]})
       /\ Whole(old, source, done, codes) => Whole(files, source, done \cup {e}, codes)
  BY <1>23, <1>26, <1>28, <1>31, <1>32, <1>33, EntityWritten
<1>47. AllValid(old) => AllValid(files)
  BY <1>23, <1>26, <1>31, <1>32, EntityStaysValid
<1>35. EntitiesDone(n, b) = done \cup {e} /\ CodesDone(n, b) = codes
  BY <1>8, <1>18, <1>19, <1>20, <1>21, <1>22, <1>23 DEF EntitiesDone, CodesDone
<1>36. There(source) \subseteq There(source) /\ codes \subseteq Enabled(source)
  BY <1>20, <1>22 DEF CodesDone
<1>37. Sorted(files, source, There(source), Enabled(source))
  BY <1>23, <1>34, <1>36, SortedGrows
<1>38. b = [files |-> b.files, complete |-> b.complete, damaged |-> b.damaged,
            quiet |-> b.quiet, blank |-> b.blank, source |-> b.source]
  BY <1>17, <1>19
<1>39. b.complete = FALSE  BY <1>16, <1>19 DEF DumpOK
<1>40. ArchiveOK(b)
  BY <1>19, <1>20, <1>25, <1>34, <1>37, <1>38, <1>39 DEF ArchiveOK
<1>41. n = [package |-> n.package, content |-> n.content, quiet |-> n.quiet, used |-> n.used,
            todo |-> n.todo, listed |-> n.listed, codes |-> n.codes]
  BY <1>17, <1>18
<1>42. /\ n.package \in Packages /\ Authored(packages[n.package])
       /\ b.source.entities = n.content.entities
       /\ n.quiet = TRUE => packages[n.package] = n.content /\ b.source = n.content
       /\ n.todo \subseteq There(b.source)
       /\ n.listed = TRUE => n.todo = {}
       /\ n.codes \subseteq (IF n.listed = TRUE THEN Enabled(b.source) ELSE {})
       /\ \A c \in n.codes : packages[n.package].collections[c] \in CollectionRow
  BY <1>8, <1>16, <1>18, <1>19, <1>20, <1>23 DEF DumpOK
<1>43. /\ Sorted(b.files, b.source, EntitiesDone(n, b), CodesDone(n, b))
       /\ Whole(b.files, b.source, EntitiesDone(n, b), CodesDone(n, b))
       /\ SlugsUsed(b.files, n.used)
  BY <1>9, <1>18, <1>19, <1>20, <1>30, <1>33, <1>34, <1>35
<1>46. b.blank # TRUE => AllValid(b.files)
  <2>1. a.blank # TRUE => AllValid(a.files)  BY <1>16 DEF DumpOK
  <2> QED  BY <1>19, <1>29, <1>47, <2>1
<1>44. DumpOK(n, b, packages)  BY <1>39, <1>41, <1>42, <1>43, <1>46 DEF DumpOK
<1>45. load = None  BY <1>15, NoLoadYet
<1> QED  BY <1>11, <1>12, <1>15, <1>40, <1>44, <1>45, DumpStepKeeps

\* The collections are read when the entities have been written: the source is of two
\* moments unless the dump is quiet.
LEMMA DumpCollectionsInv ==
    ASSUME BackupInv, DumpCollections
    PROVE  BackupInv'
<1>1. PICK a : a = archive  OBVIOUS
<1>2. PICK d : d = dump  OBVIOUS
<1>3. PICK now : now = packages[d.package].collections  OBVIOUS
<1>4. PICK codes : codes = {c \in Codes : now[c] # None /\ now[c].enabled}  OBVIOUS
<1>5. PICK yes : yes = TRUE  OBVIOUS
<1>6. PICK b : b = archive'  OBVIOUS
<1>7. PICK n : n = dump'  OBVIOUS
<1>8. /\ dump # None /\ d.todo = {} /\ UNCHANGED <<packages, types, load, edits>>
  BY <1>2 DEF DumpCollections
<1>9. n = [d EXCEPT !.listed = yes, !.codes = codes]
  BY <1>2, <1>3, <1>4, <1>5, <1>7 DEF DumpCollections
<1>10. b = [a EXCEPT !.source.collections = now]
  BY <1>1, <1>2, <1>3, <1>6 DEF DumpCollections
<1>11. ArchiveOK(a) /\ DumpOK(d, a, packages)  BY <1>1, <1>2, <1>8 DEF BackupInv
<1>12. PICK old : old = a.source  OBVIOUS
<1>13. PICK source : source = [old EXCEPT !.collections = now]  OBVIOUS
<1>14. SourceOK(old)  BY <1>11, <1>12 DEF ArchiveOK
<1>15. source = [entities |-> old.entities, collections |-> now]
  BY <1>13, <1>14 DEF SourceOK, Content
<1>16. source.entities = old.entities /\ source.collections = now  BY <1>15
<1>17. n = [package |-> d.package, content |-> d.content, quiet |-> d.quiet, used |-> d.used,
            todo |-> d.todo, listed |-> yes, codes |-> codes]
  <2>1. d = [package |-> d.package, content |-> d.content, quiet |-> d.quiet, used |-> d.used,
             todo |-> d.todo, listed |-> d.listed, codes |-> d.codes]
    BY <1>11 DEF DumpOK
  <2> QED  BY <1>9, <2>1
<1>18. b = [files |-> a.files, complete |-> a.complete, damaged |-> a.damaged,
            quiet |-> a.quiet, blank |-> a.blank, source |-> source]
  <2>1. a = [files |-> a.files, complete |-> a.complete, damaged |-> a.damaged,
             quiet |-> a.quiet, blank |-> a.blank, source |-> a.source]
    BY <1>11 DEF ArchiveOK
  <2>2. b = [a EXCEPT !.source = source]  BY <1>10, <1>12, <1>13, <2>1
  <2> QED  BY <2>1, <2>2
<1>19. /\ n.package = d.package /\ n.content = d.content /\ n.quiet = d.quiet /\ n.used = d.used
       /\ n.todo = d.todo /\ n.listed = yes /\ n.codes = codes
  BY <1>17
<1>20. /\ b.files = a.files /\ b.complete = a.complete /\ b.damaged = a.damaged
       /\ b.quiet = a.quiet /\ b.blank = a.blank /\ b.source = source
  BY <1>18
<1>21. Authored(packages[d.package])  BY <1>11 DEF DumpOK
<1>22. now \in [Codes -> CollectionRow \cup {None}]
  BY <1>3, <1>21 DEF Authored, Content
<1>23. SourceOK(source)
  <2>1. old.entities \in [Entities -> EntityRow \cup {None}]  BY <1>14 DEF SourceOK, Content
  <2>2. PICK f : f = old.entities  OBVIOUS
  <2>3. [entities |-> f, collections |-> now] \in Content
    BY <1>22, <2>1, <2>2 DEF Content
  <2>4. source \in Content  BY <1>15, <2>2, <2>3
  <2> QED  BY <1>14, <1>16, <2>4 DEF SourceOK, AuthoredRows, EntitiesOK, There
<1>24. There(source) = There(old)  BY <1>16 DEF There
<1>25. Enabled(source) = codes  BY <1>4, <1>16 DEF Enabled
<1>26. /\ EntitiesDone(d, a) = There(source) /\ EntitiesDone(n, b) = There(source)
  BY <1>8, <1>12, <1>19, <1>20, <1>24 DEF EntitiesDone
<1>27. CodesDone(n, b) = {}
  BY <1>5, <1>19, <1>20, <1>25 DEF CodesDone
<1>28. d.listed # TRUE  BY <1>2 DEF DumpCollections
<1>29. CodesDone(d, a) = {}  BY <1>28 DEF CodesDone
<1>30. /\ Sorted(a.files, old, There(source), {}) /\ Whole(a.files, old, There(source), {})
       /\ SlugsUsed(a.files, d.used) /\ OneToml(a.files) /\ a.complete = FALSE
  BY <1>11, <1>12, <1>26, <1>29 DEF DumpOK, ArchiveOK
<1>31. Sorted(a.files, source, There(source), {}) /\ Whole(a.files, source, There(source), {})
  <2>1. PICK none : none = {}  OBVIOUS
  <2>2. \A c \in none : source.collections[c].entities = old.collections[c].entities  BY <2>1
  <2>3. Sorted(a.files, old, There(source), none) => Sorted(a.files, source, There(source), none)
    BY <1>16, <2>2, SameSource
  <2>4. Whole(a.files, old, There(source), none) => Whole(a.files, source, There(source), none)
    BY <1>16, <2>2, SameSource
  <2> QED  BY <1>30, <2>1, <2>3, <2>4
<1>32. Sorted(a.files, source, There(source), Enabled(source))
  BY <1>31, SortedGrows
<1>33. b = [files |-> b.files, complete |-> b.complete, damaged |-> b.damaged,
            quiet |-> b.quiet, blank |-> b.blank, source |-> b.source]
  BY <1>18, <1>20
<1>34. ArchiveOK(b)
  BY <1>20, <1>23, <1>30, <1>32, <1>33 DEF ArchiveOK
<1>35. n = [package |-> n.package, content |-> n.content, quiet |-> n.quiet, used |-> n.used,
            todo |-> n.todo, listed |-> n.listed, codes |-> n.codes]
  BY <1>17, <1>19
<1>36. n.quiet = TRUE => packages[n.package] = n.content /\ b.source = n.content
  <2>1. ASSUME d.quiet = TRUE PROVE source = d.content
    <3>1. packages[d.package] = d.content /\ old = d.content  BY <1>11, <1>12, <2>1 DEF DumpOK
    <3>2. now = old.collections  BY <1>3, <3>1
    <3>3. old = [entities |-> old.entities, collections |-> old.collections]
      BY <1>14 DEF SourceOK, Content
    <3> QED  BY <1>15, <3>1, <3>2, <3>3
  <2> QED  BY <1>11, <1>19, <1>20, <2>1 DEF DumpOK
<1>37. \A c \in n.codes : packages[n.package].collections[c] \in CollectionRow
  BY <1>3, <1>4, <1>19, <1>22
<1>38. /\ n.package \in Packages /\ Authored(packages[n.package])
       /\ b.source.entities = n.content.entities
       /\ n.todo \subseteq There(b.source)
       /\ n.todo = {} /\ n.codes = Enabled(b.source) /\ n.listed = TRUE
  BY <1>5, <1>8, <1>11, <1>12, <1>16, <1>19, <1>20, <1>25 DEF DumpOK
<1>39. /\ Sorted(b.files, b.source, EntitiesDone(n, b), CodesDone(n, b))
       /\ Whole(b.files, b.source, EntitiesDone(n, b), CodesDone(n, b))
       /\ SlugsUsed(b.files, n.used) /\ b.complete = FALSE
  BY <1>19, <1>20, <1>26, <1>27, <1>30, <1>31
<1>42. b.blank # TRUE => AllValid(b.files)  BY <1>11, <1>20 DEF DumpOK
<1>40. DumpOK(n, b, packages)  BY <1>35, <1>36, <1>37, <1>38, <1>39, <1>42 DEF DumpOK
<1>41. load = None  BY <1>8, NoLoadYet
<1> QED  BY <1>6, <1>7, <1>8, <1>34, <1>40, <1>41, DumpStepKeeps

\* A turn of the loop over the collections, and what the collection has by now.
LEMMA DumpCollectionInv ==
    ASSUME BackupInv, NEW c \in Codes, NEW blank \in BOOLEAN, DumpCollection(c, blank)
    PROVE  BackupInv'
<1>1. PICK a : a = archive  OBVIOUS
<1>2. PICK d : d = dump  OBVIOUS
<1>3. PICK now : now = packages[d.package].collections  OBVIOUS
<1>4. PICK held : held = now[c].entities  OBVIOUS
<1>5. PICK codes : codes = d.codes \ {c}  OBVIOUS
<1>6. PICK used : used = d.used \cup {Slug[c]}  OBVIOUS
<1>7. PICK was : was = d.used  OBVIOUS
<1>8. PICK root : root = CollectionPath(FileName(was, c))  OBVIOUS
<1>9. PICK before : before = a.files  OBVIOUS
<1>59. PICK ok \in BOOLEAN : ok = ~ blank  OBVIOUS
<1>60. PICK bad : bad = (a.blank \/ blank)  OBVIOUS
<1>10. PICK body : body = [valid |-> ok, key |-> c, entities |-> held]  OBVIOUS
<1>11. PICK files : files = With(before, root, body)  OBVIOUS
<1>12. PICK b : b = archive'  OBVIOUS
<1>13. PICK n : n = dump'  OBVIOUS
<1>14. /\ dump # None /\ c \in d.codes /\ UNCHANGED <<packages, types, load, edits>>
  BY <1>2 DEF DumpCollection
<1>15. root = TomlPath("collections", "", FileName(d.used, c))
  BY <1>7, <1>8 DEF CollectionPath, TomlPath
<1>16. n = [d EXCEPT !.codes = codes, !.used = used]
  BY <1>2, <1>5, <1>6, <1>13 DEF DumpCollection
<1>17. b = [a EXCEPT !.files = files, !.blank = bad, !.source.collections[c].entities = held]
  BY <1>1, <1>2, <1>3, <1>4, <1>9, <1>10, <1>11, <1>12, <1>15, <1>59, <1>60 DEF DumpCollection
<1>18. ArchiveOK(a) /\ DumpOK(d, a, packages)  BY <1>1, <1>2, <1>14 DEF BackupInv
<1>19. PICK old : old = a.source  OBVIOUS
<1>20. SourceOK(old)  BY <1>18, <1>19 DEF ArchiveOK
<1>21. /\ d.listed = TRUE /\ d.todo = {} /\ d.codes \subseteq Enabled(old)
       /\ now[c] \in CollectionRow
  BY <1>3, <1>14, <1>18, <1>19 DEF DumpOK
<1>22. old.collections \in [Codes -> CollectionRow \cup {None}]
       /\ old.collections[c] # None /\ old.collections[c] \in CollectionRow
       /\ old.collections[c].enabled
  BY <1>14, <1>20, <1>21 DEF SourceOK, Content, Enabled
<1>23. PICK row : row = old.collections[c]  OBVIOUS
<1>24. PICK after : after = [row EXCEPT !.entities = held]  OBVIOUS
<1>25. /\ after \in CollectionRow /\ after.enabled = row.enabled /\ after.entities = held
       /\ after # None
  <2>1. row \in CollectionRow /\ held \in SUBSET Entities
    BY <1>4, <1>21, <1>22, <1>23 DEF CollectionRow
  <2>2. None \notin CollectionRow  BY BackupAssumption
  <2>3. after \in CollectionRow  BY <1>24, <2>1 DEF CollectionRow
  <2> QED  BY <1>24, <2>1, <2>2, <2>3 DEF CollectionRow
<1>26. PICK rows : rows = [old.collections EXCEPT ![c] = after]  OBVIOUS
<1>27. /\ rows \in [Codes -> CollectionRow \cup {None}] /\ rows[c] = after
       /\ \A k \in Codes : k # c => rows[k] = old.collections[k]
  BY <1>22, <1>25, <1>26
<1>28. PICK source : source = [old EXCEPT !.collections = rows]  OBVIOUS
<1>29. source = [entities |-> old.entities, collections |-> rows]
  BY <1>20, <1>28 DEF SourceOK, Content
<1>30. source.entities = old.entities /\ source.collections = rows  BY <1>29
<1>31. n = [package |-> d.package, content |-> d.content, quiet |-> d.quiet, used |-> used,
            todo |-> d.todo, listed |-> d.listed, codes |-> codes]
  <2>1. d = [package |-> d.package, content |-> d.content, quiet |-> d.quiet, used |-> d.used,
             todo |-> d.todo, listed |-> d.listed, codes |-> d.codes]
    BY <1>18 DEF DumpOK
  <2> QED  BY <1>16, <2>1
<1>32. b = [files |-> files, complete |-> a.complete, damaged |-> a.damaged,
            quiet |-> a.quiet, blank |-> bad, source |-> source]
  <2>1. a = [files |-> a.files, complete |-> a.complete, damaged |-> a.damaged,
             quiet |-> a.quiet, blank |-> a.blank, source |-> a.source]
    BY <1>18 DEF ArchiveOK
  <2>2. b = [a EXCEPT !.files = files, !.blank = bad, !.source = source]
    BY <1>17, <1>19, <1>23, <1>24, <1>26, <1>28, <2>1
  <2> QED  BY <2>1, <2>2
<1>33. /\ n.package = d.package /\ n.content = d.content /\ n.quiet = d.quiet /\ n.used = used
       /\ n.todo = d.todo /\ n.listed = d.listed /\ n.codes = codes
  BY <1>31
<1>34. /\ b.files = files /\ b.complete = a.complete /\ b.damaged = a.damaged
       /\ b.quiet = a.quiet /\ b.blank = bad /\ b.source = source
  BY <1>32
<1>35. SourceOK(source)
  <2>1. old.entities \in [Entities -> EntityRow \cup {None}]  BY <1>20 DEF SourceOK, Content
  <2>2. PICK f : f = old.entities  OBVIOUS
  <2>3. [entities |-> f, collections |-> rows] \in Content
    BY <1>27, <2>1, <2>2 DEF Content
  <2>4. source \in Content  BY <1>29, <2>2, <2>3
  <2> QED  BY <1>20, <1>30, <2>4 DEF SourceOK, AuthoredRows, EntitiesOK, There
<1>36. There(source) = There(old)  BY <1>30 DEF There
<1>37. Enabled(source) = Enabled(old)
  BY <1>22, <1>23, <1>25, <1>27, <1>30 DEF Enabled
<1>38. PICK done : done = There(source)  OBVIOUS
<1>39. EntitiesDone(d, a) = done /\ EntitiesDone(n, b) = done
  BY <1>19, <1>21, <1>33, <1>34, <1>36, <1>38 DEF EntitiesDone
<1>40. PICK written : written = Enabled(old) \ d.codes  OBVIOUS
<1>41. CodesDone(d, a) = written /\ CodesDone(n, b) = written \cup {c}
  BY <1>5, <1>14, <1>19, <1>21, <1>33, <1>34, <1>37, <1>40 DEF CodesDone
<1>42. written \subseteq Codes /\ c \notin written  BY <1>14, <1>40 DEF Enabled
<1>43. /\ Sorted(before, old, done, written) /\ Whole(before, old, done, written)
       /\ SlugsUsed(before, was) /\ OneToml(before) /\ a.complete = FALSE
  BY <1>7, <1>9, <1>18, <1>19, <1>39, <1>41 DEF DumpOK, ArchiveOK
<1>44. \A k \in written : source.collections[k].entities = old.collections[k].entities
  BY <1>27, <1>30, <1>42
<1>45. Sorted(before, source, done, written) /\ Whole(before, source, done, written)
  <2>1. Sorted(before, old, done, written) => Sorted(before, source, done, written)
    BY <1>30, <1>44, SameSource
  <2>2. Whole(before, old, done, written) => Whole(before, source, done, written)
    BY <1>30, <1>44, SameSource
  <2> QED  BY <1>43, <2>1, <2>2
<1>46. source.collections[c].entities = held  BY <1>25, <1>27, <1>30
<1>47. files = With(before, root, [valid |-> ok, key |-> c,
                                   entities |-> source.collections[c].entities])
  BY <1>10, <1>11, <1>46
<1>48. /\ Sorted(files, source, done, written \cup {c})
       /\ OneToml(files)
       /\ SlugsUsed(files, was \cup {Slug[c]})
       /\ Whole(before, source, done, written) => Whole(files, source, done, written \cup {c})
  BY <1>8, <1>42, <1>43, <1>45, <1>47, <1>59, CollectionFileWritten
<1>62. AllValid(before) /\ ok = TRUE => AllValid(files)
  <2>1. body.valid = ok  BY <1>10
  <2> QED  BY <1>11, <2>1, FileStaysValid
<1>49. Sorted(files, source, There(source), Enabled(source))
  <2>1. written \cup {c} \subseteq Enabled(source)  BY <1>14, <1>21, <1>37, <1>40
  <2>2. done \subseteq There(source)  BY <1>38
  <2> QED  BY <1>48, <2>1, <2>2, SortedGrows
<1>50. b = [files |-> b.files, complete |-> b.complete, damaged |-> b.damaged,
            quiet |-> b.quiet, blank |-> b.blank, source |-> b.source]
  BY <1>32, <1>34
<1>51. ArchiveOK(b)
  BY <1>34, <1>35, <1>43, <1>48, <1>49, <1>50 DEF ArchiveOK
<1>52. n = [package |-> n.package, content |-> n.content, quiet |-> n.quiet, used |-> n.used,
            todo |-> n.todo, listed |-> n.listed, codes |-> n.codes]
  BY <1>31, <1>33
<1>53. n.quiet = TRUE => packages[n.package] = n.content /\ b.source = n.content
  <2>1. ASSUME d.quiet = TRUE PROVE source = d.content
    <3>1. packages[d.package] = d.content /\ old = d.content  BY <1>18, <1>19, <2>1 DEF DumpOK
    <3>2. held = row.entities  BY <1>3, <1>4, <1>23, <3>1
    <3>3. after = row  BY <1>22, <1>23, <1>24, <3>2 DEF CollectionRow
    <3>4. rows = old.collections  BY <1>22, <1>23, <1>26, <3>3
    <3>5. old = [entities |-> old.entities, collections |-> old.collections]
      BY <1>20 DEF SourceOK, Content
    <3> QED  BY <1>29, <3>1, <3>4, <3>5
  <2> QED  BY <1>18, <1>33, <1>34, <2>1 DEF DumpOK
<1>54. \A k \in n.codes : packages[n.package].collections[k] \in CollectionRow
  BY <1>5, <1>18, <1>33 DEF DumpOK
<1>55. /\ n.package \in Packages /\ Authored(packages[n.package])
       /\ b.source.entities = n.content.entities
       /\ n.todo \subseteq There(b.source)
       /\ n.todo = {} /\ n.codes \subseteq Enabled(b.source) /\ n.listed = TRUE
  BY <1>5, <1>18, <1>19, <1>21, <1>30, <1>33, <1>34, <1>37 DEF DumpOK
<1>56. /\ Sorted(b.files, b.source, EntitiesDone(n, b), CodesDone(n, b))
       /\ Whole(b.files, b.source, EntitiesDone(n, b), CodesDone(n, b))
       /\ SlugsUsed(b.files, n.used) /\ b.complete = FALSE
  BY <1>6, <1>7, <1>33, <1>34, <1>39, <1>41, <1>43, <1>45, <1>48
<1>61. b.blank # TRUE => AllValid(b.files)
  <2>1. a.blank # TRUE => AllValid(before)  BY <1>9, <1>18 DEF DumpOK
  <2>2. bad # TRUE => a.blank # TRUE /\ ok = TRUE  BY <1>59, <1>60
  <2> QED  BY <1>34, <1>62, <2>1, <2>2
<1>57. DumpOK(n, b, packages)  BY <1>52, <1>53, <1>54, <1>55, <1>56, <1>61 DEF DumpOK
<1>58. load = None  BY <1>14, NoLoadYet
<1> QED  BY <1>12, <1>13, <1>14, <1>51, <1>57, <1>58, DumpStepKeeps

\* At the end everything has been written.
LEMMA DumpEndsInv ==
    ASSUME BackupInv, DumpEnds
    PROVE  BackupInv'
<1>1. PICK a : a = archive  OBVIOUS
<1>2. PICK d : d = dump  OBVIOUS
<1>3. PICK b : b = archive'  OBVIOUS
<1>4. PICK yes : yes = TRUE  OBVIOUS
<1>5. PICK quiet : quiet = d.quiet  OBVIOUS
<1>6. /\ dump # None /\ d.listed /\ d.codes = {} /\ dump' = None /\ edits' = 0
      /\ UNCHANGED <<packages, types, load>>
  BY <1>2 DEF DumpEnds
<1>7. b = [a EXCEPT !.complete = yes, !.quiet = quiet]
  BY <1>1, <1>2, <1>3, <1>4, <1>5 DEF DumpEnds
<1>8. ArchiveOK(a) /\ DumpOK(d, a, packages)  BY <1>1, <1>2, <1>6 DEF BackupInv
<1>9. b = [files |-> a.files, complete |-> yes, damaged |-> a.damaged,
           quiet |-> quiet, blank |-> a.blank, source |-> a.source]
  <2>1. a = [files |-> a.files, complete |-> a.complete, damaged |-> a.damaged,
             quiet |-> a.quiet, blank |-> a.blank, source |-> a.source]
    BY <1>8 DEF ArchiveOK
  <2> QED  BY <1>7, <2>1
<1>10. /\ b.files = a.files /\ b.complete = yes /\ b.damaged = a.damaged
       /\ b.quiet = quiet /\ b.blank = a.blank /\ b.source = a.source
       /\ b = [files |-> b.files, complete |-> b.complete, damaged |-> b.damaged,
               quiet |-> b.quiet, blank |-> b.blank, source |-> b.source]
  BY <1>9
<1>11. PICK source : source = a.source  OBVIOUS
<1>12. Whole(a.files, source, There(source), Enabled(source))
  <2>1. CASE d.listed = TRUE
    <3>1. d.todo = {}  BY <1>8, <2>1 DEF DumpOK
    <3>2. EntitiesDone(d, a) = There(source) /\ CodesDone(d, a) = Enabled(source)
      BY <1>6, <1>11, <2>1, <3>1 DEF EntitiesDone, CodesDone
    <3> QED  BY <1>8, <1>11, <3>2 DEF DumpOK
  <2> QED  BY <1>6, <2>1
<1>13. ASSUME quiet = TRUE PROVE CollectionsOK(source)
  <2>1. packages[d.package] = source /\ Authored(packages[d.package])
    BY <1>5, <1>8, <1>11, <1>13 DEF DumpOK
  <2>2. WellFormed(source)  BY <2>1 DEF Authored
  <2> QED  BY <2>2, WellFormedIs DEF CollectionsOK
<1>16. b.blank # TRUE => AllValid(b.files)  BY <1>8, <1>10 DEF DumpOK
<1>14. ArchiveOK(b)
  BY <1>8, <1>10, <1>11, <1>12, <1>13, <1>16 DEF ArchiveOK
<1>15. load = None  BY <1>6, NoLoadYet
<1> QED  BY <1>3, <1>6, <1>14, <1>15, DumpStepKeeps

\* A dump that fails leaves an archive that is not complete.
LEMMA DumpFailsInv ==
    ASSUME BackupInv, DumpFails
    PROVE  BackupInv'
<1>1. /\ dump # None /\ dump' = None /\ edits' = 0 /\ archive' = archive
      /\ UNCHANGED <<packages, types, load>>
  BY DEF DumpFails
<1>2. ArchiveOK(archive')  BY <1>1 DEF BackupInv
<1>3. load = None  BY <1>1, NoLoadYet
<1> QED  BY <1>1, <1>2, <1>3, DumpStepKeeps

\* Damage takes away, and adds nothing.
LEMMA DamageInv ==
    ASSUME BackupInv, NEW path \in Files, Damage(path)
    PROVE  BackupInv'
<1>1. PICK a : a = archive  OBVIOUS
<1>2. PICK b : b = archive'  OBVIOUS
<1>3. PICK yes : yes = TRUE  OBVIOUS
<1>4. /\ dump = None /\ load = None /\ archive # NoArchive
      /\ path \in DOMAIN a.files /\ path.version = 0
      /\ UNCHANGED <<packages, types, dump, load, edits>>
  BY <1>1 DEF Damage, NoArchive
<1>5. ArchiveOK(a)  BY <1>1, <1>4 DEF BackupInv
<1>6. PICK source : source = a.source  OBVIOUS
<1>7. PICK before : before = a.files  OBVIOUS
<1>8. /\ a = [files |-> a.files, complete |-> a.complete, damaged |-> a.damaged,
              quiet |-> a.quiet, blank |-> a.blank, source |-> a.source]
      /\ Sorted(before, source, There(source), Enabled(source)) /\ OneToml(before)
  BY <1>5, <1>6, <1>7 DEF ArchiveOK
<1>9. \E files : /\ b = [a EXCEPT !.damaged = yes, !.files = files]
                 /\ Sorted(files, source, There(source), Enabled(source)) /\ OneToml(files)
  <2>1. \/ b = [a EXCEPT !.damaged = yes,
                   !.files = [f \in DOMAIN before \ {path} |-> before[f]]]
        \/ b = [a EXCEPT !.damaged = TRUE, !.files[path].valid = FALSE]
    BY <1>1, <1>2, <1>3, <1>7 DEF Damage
  <2>2. PICK lost : lost = [f \in DOMAIN before \ {path} |-> before[f]]  OBVIOUS
  <2>3. PICK less : less = [before EXCEPT ![path].valid = FALSE]  OBVIOUS
  <2>4. Sorted(lost, source, There(source), Enabled(source)) /\ OneToml(lost)
    BY <1>8, <2>2, FileLost
  <2>5. Sorted(less, source, There(source), Enabled(source)) /\ OneToml(less)
    BY <1>4, <1>7, <1>8, <2>3, FieldLost
  <2>6. CASE b = [a EXCEPT !.damaged = yes,
                   !.files = [f \in DOMAIN before \ {path} |-> before[f]]]
    BY <2>2, <2>4, <2>6
  <2>7. CASE b = [a EXCEPT !.damaged = TRUE, !.files[path].valid = FALSE]
    <3>1. b = [a EXCEPT !.damaged = yes, !.files = less]  BY <1>3, <1>7, <1>8, <2>3, <2>7
    <3> QED  BY <2>5, <3>1
  <2> QED  BY <2>1, <2>6, <2>7
<1>10. PICK files : /\ b = [a EXCEPT !.damaged = yes, !.files = files]
                    /\ Sorted(files, source, There(source), Enabled(source)) /\ OneToml(files)
  BY <1>9
<1>11. b = [files |-> files, complete |-> a.complete, damaged |-> yes,
            quiet |-> a.quiet, blank |-> a.blank, source |-> a.source]
  BY <1>8, <1>10
<1>12. /\ b.files = files /\ b.complete = a.complete /\ b.damaged = yes
       /\ b.quiet = a.quiet /\ b.blank = a.blank /\ b.source = source
       /\ b = [files |-> b.files, complete |-> b.complete, damaged |-> b.damaged,
               quiet |-> b.quiet, blank |-> b.blank, source |-> b.source]
  BY <1>6, <1>11
<1>13. ArchiveOK(b)
  BY <1>3, <1>5, <1>6, <1>10, <1>12 DEF ArchiveOK
<1>14. archive' # NoArchive
  <2>1. b.damaged = TRUE  BY <1>3, <1>12
  <2>2. NoArchive.damaged = FALSE  BY DEF NoArchive
  <2> QED  BY <1>2, <2>1, <2>2
<1>15. PackagesOK'
  <2>1. packages = [p \in Packages |-> packages[p]]  BY DEF BackupInv, PackagesOK
  <2> QED  BY <1>4, <1>14, <2>1 DEF PackagesOK
<1>16. TypeOK'  BY <1>4 DEF BackupInv, TypeOK, In
<1> QED  BY <1>2, <1>4, <1>13, <1>14, <1>15, <1>16 DEF BackupInv

-----------------------------------------------------------------------------
(* The load                                                                *)

\* What a load reads stays as it is while the archive does: the files, ...
LEMMA TomlsStay ==
    ASSUME archive' = archive
    PROVE  /\ Files' = Files
           /\ ComponentTomls' = ComponentTomls
           /\ ContainerTomls' = ContainerTomls
           /\ CollectionTomls' = CollectionTomls
           /\ FilesMissing' <=> FilesMissing
<1>1. Files' = Files  BY DEF Files
<1>2. ComponentTomls' = ComponentTomls  BY <1>1 DEF ComponentTomls, IsStatic
<1>3. ContainerTomls' = ContainerTomls  BY <1>1 DEF ContainerTomls
<1>4. CollectionTomls' = CollectionTomls  BY <1>1 DEF CollectionTomls
<1>5. FilesMissing' <=> FilesMissing  BY <1>1 DEF FilesMissing, IsStatic, RootOf, Short
<1> QED  BY <1>1, <1>2, <1>3, <1>4, <1>5

\* ... what the serializers accept, ...
LEMMA ValidStay ==
    ASSUME archive' = archive
    PROVE  /\ ValidEntities' = ValidEntities
           /\ Restored' = Restored
           /\ ErrorsFound' <=> ErrorsFound
<1>1. /\ ComponentTomls' = ComponentTomls /\ ContainerTomls' = ContainerTomls
      /\ CollectionTomls' = CollectionTomls
  BY TomlsStay
<1>2. ValidEntities' = ValidEntities  BY <1>1 DEF ValidEntities, ValidEntity, Body
<1>3. Restored' = Restored  BY <1>2 DEF Restored, Body
<1>4. ErrorsFound' <=> ErrorsFound  BY <1>1, <1>2 DEF ErrorsFound, Body
<1> QED  BY <1>2, <1>3, <1>4

\* ... the file of an entity, ...
LEMMA FileOfStays ==
    ASSUME archive' = archive, NEW e
    PROVE  FileOf(e)' = FileOf(e)
<1>1. ValidEntities' = ValidEntities  BY ValidStay
<1> QED  BY <1>1 DEF FileOf, Body

\* ... its versions, ...
LEMMA VersionStays ==
    ASSUME archive' = archive, NEW e, NEW n
    PROVE  RestoredVersion(e, n)' = RestoredVersion(e, n)
<1>1. FileOf(e)' = FileOf(e)  BY FileOfStays
<1>2. Restored' = Restored /\ Files' = Files  BY ValidStay, TomlsStay
<1>3. StaticContent(FileOf(e), n)' = StaticContent(FileOf(e), n)
  BY <1>1, <1>2 DEF StaticContent, Body
<1>4. Body(FileOf(e))' = Body(FileOf(e))  BY <1>1 DEF Body
<1> QED  BY <1>1, <1>2, <1>3, <1>4 DEF RestoredVersion

\* ... and what is saved first.
LEMMA PublishedStays ==
    ASSUME archive' = archive
    PROVE  PublishedContent' = PublishedContent
<1>1. /\ Restored' = Restored /\ CollectionTomls' = CollectionTomls
  BY ValidStay, TomlsStay
<1>2. \A e : FileOf(e)' = FileOf(e)  BY FileOfStays
<1>3. \A e, n : RestoredVersion(e, n)' = RestoredVersion(e, n)  BY VersionStays
<1>4. \A row, e, n : WithVersion(row, e, n)' = WithVersion(row, e, n)
  BY <1>3 DEF WithVersion
<1> QED  BY <1>1, <1>2, <1>4 DEF PublishedContent, Body, VersionToPublish

\* So the stages go on from what the stages before have found.
LEMMA LoadStays ==
    ASSUME archive' = archive, dump' = dump, LoadOK(load')
    PROVE  LoadOK(load)'
<1>1. FilesMissing' <=> FilesMissing  BY TomlsStay
<1>2. ErrorsFound' <=> ErrorsFound  BY ValidStay
<1>3. ComponentTomls' = ComponentTomls /\ ValidEntities' = ValidEntities
  BY TomlsStay, ValidStay
<1>4. PublishedContent' = PublishedContent  BY PublishedStays
<1> QED  BY <1>1, <1>2, <1>3, <1>4 DEF LoadOK

\* A stage that changes the load alone.
LEMMA StageKeeps ==
    ASSUME BackupInv, UNCHANGED <<packages, types, dump, archive, edits>>,
           load' # None => LoadOK(load')
    PROVE  BackupInv'
<1>1. PackagesOK' /\ TypeOK'  BY DEF BackupInv, PackagesOK, TypeOK, In
<1>2. load' # None => LoadOK(load)'  BY LoadStays
<1> QED  BY <1>1, <1>2 DEF BackupInv

\* A load may start when there is an archive.
LEMMA LoadStartInv ==
    ASSUME BackupInv, NEW p \in Packages, LoadStart(p)
    PROVE  BackupInv'
<1>1. /\ load' = [ref |-> p, stage |-> "check", types |-> {}, content |-> None]
      /\ archive # NoArchive /\ dump = None
      /\ UNCHANGED <<packages, types, dump, archive, edits>>
  BY DEF LoadStart
<1>2. PICK none : none = {}  OBVIOUS
<1>3. PICK l : l = [ref |-> p, stage |-> "check", types |-> none, content |-> None]  OBVIOUS
<1>4. l.ref = p /\ l.stage = "check"
      /\ l = [ref |-> l.ref, stage |-> l.stage, types |-> l.types, content |-> l.content]
  BY <1>3
<1>5. LoadOK(l)  BY <1>1, <1>4 DEF LoadOK
<1>6. load' = l  BY <1>1, <1>2, <1>3
<1> QED  BY <1>1, <1>5, <1>6, StageKeeps

\* The load after a stage.
LEMMA NextStage ==
    ASSUME BackupInv, load # None, NEW stage, NEW kinds, NEW content,
           load' = [load EXCEPT !.stage = stage, !.types = kinds, !.content = content]
    PROVE  /\ load' = [ref |-> load'.ref, stage |-> load'.stage, types |-> load'.types,
                       content |-> load'.content]
           /\ load'.ref = load.ref /\ load'.stage = stage /\ load'.types = kinds
           /\ load'.content = content
<1>1. PICK l : l = load  OBVIOUS
<1>2. l = [ref |-> l.ref, stage |-> l.stage, types |-> l.types, content |-> l.content]
  BY <1>1 DEF BackupInv, LoadOK
<1>3. load' = [ref |-> l.ref, stage |-> stage, types |-> kinds, content |-> content]
  BY <1>1, <1>2
<1> QED  BY <1>1, <1>3

\* Stage leaves the component types alone.
LEMMA StageIs ==
    ASSUME BackupInv, load # None, NEW stage, NEW content, Stage(stage, content)
    PROVE  load' = [load EXCEPT !.stage = stage, !.types = load.types, !.content = content]
<1>1. PICK l : l = load  OBVIOUS
<1>2. l = [ref |-> l.ref, stage |-> l.stage, types |-> l.types, content |-> l.content]
  BY <1>1 DEF BackupInv, LoadOK
<1>3. load' = [l EXCEPT !.stage = stage, !.content = content]  BY <1>1 DEF Stage
<1>4. load' = [l EXCEPT !.stage = stage, !.types = l.types, !.content = content]
  BY <1>2, <1>3
<1> QED  BY <1>1, <1>4

\* check_mandatory_files.
LEMMA LoadCheckInv ==
    ASSUME BackupInv, LoadCheck
    PROVE  BackupInv'
<1>1. PICK stage : stage = IF FilesMissing THEN "error" ELSE "extract"  OBVIOUS
<1>2. load # None /\ Stage(stage, None) /\ UNCHANGED <<packages, types, dump, archive, edits>>
  BY <1>1 DEF LoadCheck, At
<1>3. load' = [load EXCEPT !.stage = stage, !.types = load.types, !.content = None]
  BY <1>2, StageIs
<1>4. /\ load' = [ref |-> load'.ref, stage |-> load'.stage, types |-> load'.types,
                  content |-> load'.content]
      /\ load'.ref = load.ref /\ load'.stage = stage
  BY <1>2, <1>3, NextStage
<1>5. LoadOK(load)  BY <1>2 DEF BackupInv
<1>6. LoadOK(load')
  BY <1>1, <1>4, <1>5 DEF LoadOK
<1> QED  BY <1>2, <1>6, StageKeeps

\* The serializers, which also make component types.
LEMMA LoadExtractInv ==
    ASSUME BackupInv, LoadExtract
    PROVE  BackupInv'
<1>1. PICK stage : stage = IF ErrorsFound THEN "error" ELSE "save"  OBVIOUS
<1>2. PICK kinds : kinds = {path.type : path \in ComponentTomls \cap ValidEntities}  OBVIOUS
<1>3. PICK l : l = load  OBVIOUS
<1>4. load # None /\ load.stage = "extract" /\ UNCHANGED <<packages, types, dump, archive, edits>>
  BY DEF LoadExtract, At
<1>5. LoadOK(load)  BY <1>4 DEF BackupInv
<1>6. load' = [l EXCEPT !.stage = stage, !.types = kinds]
  BY <1>1, <1>2, <1>3 DEF LoadExtract
<1>7. l = [ref |-> l.ref, stage |-> l.stage, types |-> l.types, content |-> l.content]
  BY <1>3, <1>5 DEF LoadOK
<1>8. load' = [ref |-> l.ref, stage |-> stage, types |-> kinds, content |-> l.content]
  BY <1>6, <1>7
<1>9. /\ load' = [ref |-> load'.ref, stage |-> load'.stage, types |-> load'.types,
                  content |-> load'.content]
      /\ load'.ref = l.ref /\ load'.stage = stage /\ load'.types = kinds
  BY <1>8
<1>10. LoadOK(load')
  BY <1>1, <1>2, <1>3, <1>4, <1>5, <1>9 DEF LoadOK
<1> QED  BY <1>4, <1>10, StageKeeps

\* _save up to the publication.
LEMMA LoadSaveInv ==
    ASSUME BackupInv, LoadSave
    PROVE  BackupInv'
<1>1. PICK stage : stage = "publish"  OBVIOUS
<1>2. PICK content : content = PublishedContent  OBVIOUS
<1>3. /\ load # None /\ load.stage = "save" /\ Stage(stage, content)
      /\ UNCHANGED <<packages, types, dump, archive, edits>>
  BY <1>1, <1>2 DEF LoadSave, At
<1>4. load' = [load EXCEPT !.stage = stage, !.types = load.types, !.content = content]
  BY <1>3, StageIs
<1>5. PICK kinds : kinds = load.types  OBVIOUS
<1>6. load' = [load EXCEPT !.stage = stage, !.types = kinds, !.content = content]
  BY <1>4, <1>5
<1>7. /\ load' = [ref |-> load'.ref, stage |-> load'.stage, types |-> load'.types,
                  content |-> load'.content]
      /\ load'.ref = load.ref /\ load'.stage = stage /\ load'.types = kinds
      /\ load'.content = content
  BY <1>3, <1>6, NextStage
<1>8. LoadOK(load)  BY <1>3 DEF BackupInv
<1>9. LoadOK(load')
  BY <1>1, <1>2, <1>3, <1>5, <1>7, <1>8 DEF LoadOK
<1> QED  BY <1>3, <1>9, StageKeeps

\* publish_all_drafts.
LEMMA LoadPublishInv ==
    ASSUME BackupInv, LoadPublish
    PROVE  BackupInv'
<1>1. PICK stage : stage = "drafts"  OBVIOUS
<1>2. PICK content : content = WithAllPublished(load.content)  OBVIOUS
<1>3. /\ load # None /\ load.stage = "publish" /\ Stage(stage, content)
      /\ UNCHANGED <<packages, types, dump, archive, edits>>
  BY <1>1, <1>2 DEF LoadPublish, At
<1>4. load' = [load EXCEPT !.stage = stage, !.types = load.types, !.content = content]
  BY <1>3, StageIs
<1>5. PICK kinds : kinds = load.types  OBVIOUS
<1>6. load' = [load EXCEPT !.stage = stage, !.types = kinds, !.content = content]
  BY <1>4, <1>5
<1>7. /\ load' = [ref |-> load'.ref, stage |-> load'.stage, types |-> load'.types,
                  content |-> load'.content]
      /\ load'.ref = load.ref /\ load'.stage = stage /\ load'.types = kinds
      /\ load'.content = content
  BY <1>3, <1>6, NextStage
<1>8. LoadOK(load)  BY <1>3 DEF BackupInv
<1>9. content = WithAllPublished(PublishedContent)  BY <1>2, <1>3, <1>8 DEF LoadOK
<1>10. LoadOK(load')
  BY <1>1, <1>3, <1>5, <1>7, <1>8, <1>9 DEF LoadOK
<1> QED  BY <1>3, <1>10, StageKeeps

\* The archive that a load reads.
LEMMA LoadReads ==
    ASSUME BackupInv, load # None
    PROVE  /\ Readable /\ ArchiveOK(archive) /\ archive # NoArchive /\ dump = None
           /\ load.ref \in Packages
BY DEF BackupInv, LoadOK, ArchiveOK, Readable

\* _save_draft_versions completes the package.
LEMMA DraftsRestored ==
    ASSUME BackupInv, LoadDrafts
    PROVE  /\ IsRestored(packages'[load.ref])
           /\ ~ ErrorsFound
           /\ load.types = {path.type : path \in ComponentTomls \cap ValidEntities}
<1>1. load # None /\ load.stage = "drafts"  BY DEF LoadDrafts, At
<1>2. LoadOK(load)  BY <1>1 DEF BackupInv
<1>3. load.ref \in Packages /\ load.content = WithAllPublished(PublishedContent)
      /\ ~ ErrorsFound /\ load.types = {path.type : path \in ComponentTomls \cap ValidEntities}
  BY <1>1, <1>2 DEF LoadOK
<1>4. packages' = [packages EXCEPT ![load.ref] = WithDrafts(load.content)]
  BY DEF LoadDrafts
<1>5. packages = [p \in Packages |-> packages[p]]  BY DEF BackupInv, PackagesOK
<1>6. packages'[load.ref] = WithDrafts(load.content)  BY <1>3, <1>4, <1>5
<1> QED  BY <1>3, <1>6 DEF IsRestored

\* The package that is committed is well formed and has its component types.
LEMMA LoadDraftsInv ==
    ASSUME BackupInv, LoadDrafts
    PROVE  BackupInv'
<1>1. PICK ref : ref = load.ref  OBVIOUS
<1>2. PICK content : content = packages'[ref]  OBVIOUS
<1>3. PICK made : made = WithDrafts(load.content)  OBVIOUS
<1>4. /\ load # None /\ load' = None /\ types' = types \cup load.types
      /\ packages' = [packages EXCEPT ![ref] = made]
      /\ UNCHANGED <<dump, archive, edits>>
  BY <1>1, <1>3 DEF LoadDrafts, At
<1>5. Readable /\ ArchiveOK(archive) /\ archive # NoArchive /\ dump = None /\ ref \in Packages
  BY <1>1, <1>4, LoadReads
<1>6. /\ IsRestored(content)
      /\ load.types = {path.type : path \in ComponentTomls \cap ValidEntities}
  BY <1>1, <1>2, DraftsRestored
<1>7. packages = [p \in Packages |-> packages[p]]  BY DEF BackupInv, PackagesOK
<1>8. /\ packages' = [p \in Packages |-> packages'[p]]
      /\ \A p \in Packages : p # ref => packages'[p] = packages[p]
  BY <1>4, <1>5, <1>7
<1>9. PackagesOK'  BY <1>4, <1>5, <1>8 DEF PackagesOK
<1>10. WellFormed(content) /\ There(content) = Restored
  BY <1>5, <1>6, RestoredIsWellFormed
<1>11. TypesOf(content, types')
  BY <1>4, <1>5, <1>6, <1>10, TypesAreMade DEF TypesOf
<1>12. TypeOK'
  <2>1. ASSUME NEW p \in Packages, packages'[p] # None
        PROVE  WellFormed(packages'[p]) /\ TypesOf(packages'[p], types')
    <3>1. CASE p = ref  BY <1>2, <1>10, <1>11, <3>1
    <3>2. CASE p # ref
      <4>1. packages'[p] = packages[p]  BY <1>8, <3>2
      <4>2. TypesOf(packages[p], types) /\ WellFormed(packages[p])
        BY <2>1, <4>1, TypesHeld DEF BackupInv
      <4>3. TypesOf(packages[p], types')  BY <1>4, <4>2 DEF TypesOf
      <4> QED  BY <4>1, <4>2, <4>3
    <3> QED  BY <3>1, <3>2
  <2>2. edits' \in 0 .. MaxEdits  BY <1>4 DEF BackupInv, TypeOK
  <2> QED  BY <2>1, <2>2 DEF TypeOK, TypesOf, There, In
<1> QED  BY <1>4, <1>5, <1>9, <1>12 DEF BackupInv

\* Component types stay after errors.
LEMMA LoadReturnsErrorsInv ==
    ASSUME BackupInv, LoadReturnsErrors
    PROVE  BackupInv'
<1>1. /\ load # None /\ load' = None /\ types \subseteq types'
      /\ UNCHANGED <<packages, dump, archive, edits>>
  BY DEF LoadReturnsErrors, At
<1>2. PackagesOK' /\ TypeOK'  BY <1>1 DEF BackupInv, PackagesOK, TypeOK, In
<1> QED  BY <1>1, <1>2 DEF BackupInv

\* A rollback.
LEMMA LoadRaisesInv ==
    ASSUME BackupInv, LoadRaises
    PROVE  BackupInv'
<1>1. load' = None /\ UNCHANGED <<packages, types, dump, archive, edits>>  BY DEF LoadRaises
<1> QED  BY <1>1, StageKeeps

-----------------------------------------------------------------------------
(* The theorems                                                            *)

\* Every step keeps the invariant.
LEMMA NextInv ==
    ASSUME BackupInv, [BackupNext]_vars
    PROVE  BackupInv'
<1>1. CASE \E p \in Packages : Author(p)
  <2>1. PICK p \in Packages : Author(p)  BY <1>1
  <2>2. CASE \E e \in Entities : CreateEntity(p, e) \/ SoftDelete(p, e)
    BY <2>2, CreateEntityInv, SoftDeleteInv
  <2>3. CASE \E e \in Entities : \E content \in Contents[e] : CreateNextVersion(p, e, content)
    BY <2>3, CreateNextVersionInv
  <2>4. CASE PublishAll(p)  BY <2>4, PublishAllInv
  <2>5. CASE \E c \in Codes : DeleteCollection(p, c)  BY <2>5, DeleteCollectionInv
  <2>6. CASE \E c \in Codes, e \in Entities : Collect(p, c, e)  BY <2>6, CollectInv
  <2> QED  BY <2>1, <2>2, <2>3, <2>4, <2>5, <2>6 DEF Author
<1>2. CASE \E p \in Packages, blank \in BOOLEAN : DumpStart(p, blank)
  BY <1>2, DumpStartInv
<1>3. CASE \E p \in Packages : LoadStart(p)  BY <1>3, LoadStartInv
<1>4. CASE DumpEntity  BY <1>4, DumpEntityInv
<1>5. CASE DumpCollections  BY <1>5, DumpCollectionsInv
<1>6. CASE DumpEnds  BY <1>6, DumpEndsInv
<1>7. CASE DumpFails  BY <1>7, DumpFailsInv
<1>8. CASE \E c \in Codes, blank \in BOOLEAN : DumpCollection(c, blank)
  BY <1>8, DumpCollectionInv
<1>9. CASE \E path \in Files : Damage(path)  BY <1>9, DamageInv
<1>10. CASE LoadCheck  BY <1>10, LoadCheckInv
<1>11. CASE LoadExtract  BY <1>11, LoadExtractInv
<1>12. CASE LoadSave  BY <1>12, LoadSaveInv
<1>13. CASE LoadPublish  BY <1>13, LoadPublishInv
<1>14. CASE LoadDrafts  BY <1>14, LoadDraftsInv
<1>15. CASE LoadReturnsErrors  BY <1>15, LoadReturnsErrorsInv
<1>16. CASE LoadRaises  BY <1>16, LoadRaisesInv
<1>17. CASE UNCHANGED vars
  <2>1. UNCHANGED <<packages, types, dump, archive, edits>> /\ load' = load  BY <1>17 DEF vars
  <2>2. load' # None => LoadOK(load')  BY <2>1 DEF BackupInv
  <2> QED  BY <2>1, <2>2, StageKeeps
<1> QED
  BY <1>1, <1>2, <1>3, <1>4, <1>5, <1>6, <1>7, <1>8, <1>9, <1>10, <1>11, <1>12, <1>13, <1>14,
     <1>15, <1>16, <1>17 DEF BackupNext, Load

\* Whatever authors do before and during a dump, each file of the archive is one of an
\* entity, a version or a collection that the dump has seen, none was overwritten by
\* another of the same slug (get_entity_toml_filename), a complete archive has them all,
\* and a load is at what its stages have found in them.
THEOREM BackupInvHolds == BackupSpec => []BackupInv
<1>1. BackupInit => BackupInv  BY InitInv
<1>2. BackupInv /\ [BackupNext]_vars => BackupInv'  BY NextInv
<1> QED  BY <1>1, <1>2, PTL DEF BackupSpec

\* A load of such an archive has found no errors.
LEMMA QuietLoads ==
    ASSUME BackupInv
    PROVE  QuietBackupLoads
<1> SUFFICES ASSUME archive.complete, archive.quiet, ~ archive.damaged, ~ archive.blank,
                    Supported(archive.source), At("error")
             PROVE  FALSE
  BY DEF QuietBackupLoads
<1>1. load # None /\ load.stage = "error"  BY DEF At
<1>2. FilesMissing \/ ErrorsFound  BY <1>1 DEF BackupInv, LoadOK
<1>3. Readable /\ ArchiveOK(archive)  BY <1>1, LoadReads
<1>4. WholeArchive  BY <1>3 DEF ArchiveOK, WholeArchive
<1>5. CollectionsOK(archive.source)  BY <1>3 DEF ArchiveOK
<1>7. AllValid(archive.files)  BY <1>3 DEF ArchiveOK
<1>6. ~ FilesMissing /\ ~ ErrorsFound
  BY <1>3, <1>4, <1>5, <1>7, WholeLoads DEF CollectionsOK
<1> QED  BY <1>2, <1>6

\* An archive that was finished while nobody edited, and is not damaged, loads without
\* errors, whatever the names, deletions and collections (create_zip, load): the first
\* part of RestoreMatchesSource.
THEOREM QuietBackupsLoad == BackupSpec => [](TypeOK /\ QuietBackupLoads)
<1>1. BackupInv => TypeOK /\ QuietBackupLoads  BY QuietLoads DEF BackupInv
<1> QED  BY <1>1, BackupInvHolds, PTL

\* Only the last stage of a load makes a package of the load's ref.
LEMMA LoadedIsRestored ==
    ASSUME BackupInv, [BackupNext]_vars, Loaded
    PROVE  IsRestored(packages'[load.ref]) /\ ~ ErrorsFound
<1>1. /\ load # None /\ load' = None /\ packages[load.ref] = None /\ packages'[load.ref] # None
  BY DEF Loaded
<1>2. packages' # packages  BY <1>1
<1>3. archive # NoArchive /\ dump = None  BY <1>1, LoadReads
<1>4. \A p \in Packages : \A content : ~ Edit(p, content)  BY <1>3 DEF Edit, BeingDumped
<1>5. \A p \in Packages : ~ Author(p)
  BY <1>4 DEF Author, CreateEntity, SoftDelete, CreateNextVersion, PublishAll, DeleteCollection,
     Collect
<1>6. LoadDrafts
  BY <1>2, <1>5 DEF BackupNext, vars, DumpStart, LoadStart, DumpEntity, DumpCollections, DumpEnds,
     DumpFails, DumpCollection, Damage, Load, LoadCheck, LoadExtract, LoadSave, LoadPublish,
     LoadReturnsErrors, LoadRaises
<1> QED  BY <1>6, DraftsRestored

\* What RestoreMatchesSource says of the package that a load has made.
LEMMA RestoreMatches ==
    ASSUME BackupInv, [BackupNext]_vars, Loaded, archive.complete, ~ archive.damaged,
           NEW source, source = archive.source, NEW new, new = packages'[load.ref]
    PROVE  /\ \A e \in Entities :
                /\ (source.entities[e] = None) = (new.entities[e] = None)
                /\ new.entities[e] # None =>
                     /\ ReadAlike(e, source.entities[e], source.entities[e].published,
                                  new.entities[e], new.entities[e].published)
                     /\ source.entities[e].draft # 0 =>
                          ReadAlike(e, source.entities[e], source.entities[e].draft,
                                    new.entities[e], new.entities[e].draft)
           /\ \A c \in Codes :
                IF source.collections[c] # None /\ source.collections[c].enabled
                THEN new.collections[c] = source.collections[c]
                ELSE new.collections[c] = None
<1>1. load # None  BY DEF Loaded
<1>2. Readable /\ ArchiveOK(archive)  BY <1>1, LoadReads
<1>3. WholeArchive  BY <1>2 DEF ArchiveOK, WholeArchive
<1>4. IsRestored(new) /\ ~ ErrorsFound  BY LoadedIsRestored
<1>5. ASSUME NEW e \in Entities
      PROVE  /\ (source.entities[e] = None) = (new.entities[e] = None)
             /\ new.entities[e] # None =>
                  /\ ReadAlike(e, source.entities[e], source.entities[e].published,
                               new.entities[e], new.entities[e].published)
                  /\ source.entities[e].draft # 0 =>
                       ReadAlike(e, source.entities[e], source.entities[e].draft,
                                 new.entities[e], new.entities[e].draft)
  BY <1>2, <1>3, <1>4, EntityMatches
<1>6. ASSUME NEW c \in Codes
      PROVE  IF source.collections[c] # None /\ source.collections[c].enabled
             THEN new.collections[c] = source.collections[c]
             ELSE new.collections[c] = None
  BY <1>2, <1>3, <1>4, CollectionMatches
<1> QED  BY <1>5, <1>6

\* The package that is made from a whole archive has the entities of its source with
\* their published versions and drafts, numbers included, and the enabled collections.
THEOREM RestoresMatchTheirSource == BackupSpec => RestoreMatchesSource
<1> DEFINE Matches ==
        (Loaded /\ archive.complete /\ ~ archive.damaged) =>
            LET source == archive.source
                new == packages'[load.ref]
            IN  /\ \A e \in Entities :
                      /\ (source.entities[e] = None) = (new.entities[e] = None)
                      /\ new.entities[e] # None =>
                           LET row == source.entities[e]
                               restored == new.entities[e]
                           IN  /\ ReadAlike(e, row, row.published, restored, restored.published)
                               /\ row.draft # 0 => ReadAlike(e, row, row.draft, restored, restored.draft)
                /\ \A c \in Codes :
                      LET collected == source.collections[c]
                      IN  IF collected # None /\ collected.enabled
                          THEN new.collections[c] = collected
                          ELSE new.collections[c] = None
<1>1. BackupInv /\ [BackupNext]_vars => Matches
  <2> SUFFICES ASSUME BackupInv, [BackupNext]_vars, Loaded, archive.complete, ~ archive.damaged
               PROVE  Matches
    OBVIOUS
  <2>1. PICK source : source = archive.source  OBVIOUS
  <2>2. PICK new : new = packages'[load.ref]  OBVIOUS
  <2>3. \A e \in Entities :
                /\ (source.entities[e] = None) = (new.entities[e] = None)
                /\ new.entities[e] # None =>
                     /\ ReadAlike(e, source.entities[e], source.entities[e].published,
                                  new.entities[e], new.entities[e].published)
                     /\ source.entities[e].draft # 0 =>
                          ReadAlike(e, source.entities[e], source.entities[e].draft,
                                    new.entities[e], new.entities[e].draft)
    BY <2>1, <2>2, RestoreMatches
  <2>4. \A c \in Codes :
                IF source.collections[c] # None /\ source.collections[c].enabled
                THEN new.collections[c] = source.collections[c]
                ELSE new.collections[c] = None
    BY <2>1, <2>2, RestoreMatches
  <2> QED  BY <2>1, <2>2, <2>3, <2>4
<1> HIDE DEF Matches
<1>2. BackupInv /\ [BackupNext]_vars => [Matches]_vars  BY <1>1
<1>3. BackupSpec => [][Matches]_vars  BY <1>2, BackupInvHolds, PTL DEF BackupSpec
<1>4. BackupSpec => [](TypeOK /\ QuietBackupLoads)  BY QuietBackupsLoad
<1> QED  BY <1>3, <1>4, PTL DEF RestoreMatchesSource, Matches

\* What RestoreInventsNothing says of an entity.
LEMMA RestoreKeepsTo ==
    ASSUME BackupInv, [BackupNext]_vars, Loaded, NEW e \in Entities,
           NEW row, row = archive.source.entities[e],
           NEW restored, restored = packages'[load.ref].entities[e], restored # None
    PROVE  /\ row # None
           /\ restored.published \in {0, row.published}
           /\ restored.draft \in VersionNumbers(row) \cup {0}
           /\ \A n \in DOMAIN restored.versions :
                IF Container(e)
                THEN Range(Reads(e, restored.versions[n])) \subseteq Range(Reads(e, row.versions[n]))
                ELSE restored.versions[n] \subseteq row.versions[n]
<1>1. load # None  BY DEF Loaded
<1>2. Readable  BY <1>1, LoadReads
<1>3. PICK content : content = packages'[load.ref]  OBVIOUS
<1>4. IsRestored(content)  BY <1>3, LoadedIsRestored
<1>5. ~ Invented(e, archive.source.entities[e], content.entities[e])
  BY <1>2, <1>3, <1>4, NothingInvented
<1> QED  BY <1>3, <1>5 DEF Invented

\* Whatever the archive has lost, and whether or not its dump was finished, a load makes
\* no version, file or child that the source had not.
THEOREM RestoresInventNothing == BackupSpec => RestoreInventsNothing
<1> DEFINE KeepsTo ==
        Loaded =>
         \A e \in Entities :
            LET row == archive.source.entities[e]
                restored == packages'[load.ref].entities[e]
            IN  restored # None =>
                   /\ row # None
                   /\ restored.published \in {0, row.published}
                   /\ restored.draft \in VersionNumbers(row) \cup {0}
                   /\ \A n \in DOMAIN restored.versions :
                        IF Container(e)
                        THEN Range(Reads(e, restored.versions[n])) \subseteq Range(Reads(e, row.versions[n]))
                        ELSE restored.versions[n] \subseteq row.versions[n]
<1>1. BackupInv /\ [BackupNext]_vars => KeepsTo  BY RestoreKeepsTo
<1> HIDE DEF KeepsTo
<1>2. BackupInv /\ [BackupNext]_vars => [KeepsTo]_vars  BY <1>1
<1>3. BackupSpec => [][KeepsTo]_vars  BY <1>2, BackupInvHolds, PTL DEF BackupSpec
<1> QED  BY <1>3, PTL DEF RestoreInventsNothing, KeepsTo

==============================================================================
