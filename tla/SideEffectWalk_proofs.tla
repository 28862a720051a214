------------------------ MODULE SideEffectWalk_proofs ------------------------
(***************************************************************************)
(* Theorem about the walk of _create_side_effects_for_change_log: for      *)
(* every number of entities and every dependency relation, cyclic ones     *)
(* too, what it leaves behind when it ends is what CreateSideEffects of    *)
(* Publishing does in one step.                                            *)
(***************************************************************************)
EXTENDS SideEffectWalk, SequenceTheorems, FiniteSetTheorems, TLAPS

-----------------------------------------------------------------------------
(* Sequences                                                               *)

\* A finite set in some order: a sequence with every element of the set.
LEMMA InSomeOrder ==
    ASSUME NEW S, IsFiniteSet(S), NEW s \in SetToSeqs(S)
    PROVE  /\ s \in Seq(S)
           /\ \A x \in S : \E i \in 1 .. Len(s) : s[i] = x
<1> DEFINE n == Cardinality(S)
<1>1. n \in Nat
    BY FS_CardinalityType
<1>2. s \in [1 .. n -> S] /\ \A i, j \in 1 .. n : i # j => s[i] # s[j]
    BY DEF SetToSeqs
<1>3. s \in Injection(1 .. n, S)
    BY <1>2 DEF Injection, IsInjective
<1>4. Cardinality(1 .. n) = n
    BY <1>1, FS_Interval
<1>5. s \in Surjection(1 .. n, S)
    BY <1>3, <1>4, FS_Injection
<1>6. s \in Seq(S) /\ Len(s) = n
    BY <1>1, <1>2
<1> QED
    BY <1>5, <1>6 DEF Surjection

\* u has what s has, but perhaps its last, and what t has, and nothing else.
ReplacesLast(u, s, t) ==
    /\ \A i \in 1 .. Len(s) : s[i] = Last(s) \/ \E j \in 1 .. Len(u) : u[j] = s[i]
    /\ \A i \in 1 .. Len(t) : \E j \in 1 .. Len(u) : u[j] = t[i]
    /\ \A j \in 1 .. Len(u) : \/ \E i \in 1 .. Len(s) : u[j] = s[i]
                              \/ \E i \in 1 .. Len(t) : u[j] = t[i]

\* All but the last of a sequence, and something else in place of the last.
LEMMA LastReplaced ==
    ASSUME NEW S, NEW s \in Seq(S), s # <<>>, NEW t \in Seq(S)
    PROVE  Front(s) \o t \in Seq(S) /\ ReplacesLast(Front(s) \o t, s, t)
<1> DEFINE f == Front(s)
           n == Len(s)
           u == f \o t
<1>1. n \in Nat /\ n > 0 /\ n = Len(s) /\ Len(t) \in Nat
    <2>1. Len(s) \in Nat \ {0}
        BY EmptySeq
    <2> QED
        BY <2>1, LenProperties
<1> HIDE DEF n
<1>2. Last(s) = s[n] /\ Last(s) \in S
    <2>1. n \in 1 .. Len(s)
        BY <1>1
    <2>2. s[n] \in S
        BY <2>1, ElementOfSeq
    <2> QED
        BY <1>1, <2>2 DEF Last
<1>3. /\ f \in Seq(S) /\ Len(f) = n - 1
      /\ \A i \in 1 .. n - 1 : f[i] = s[i]
    <2> DEFINE k == n - 1
    <2>1. k \in Nat /\ 1 \in Int /\ k \in Int /\ (1 <= k \/ k = 0)
        BY <1>1
    <2>2. f = SubSeq(s, 1, k)
        BY <1>1 DEF Front
    <2>3. \A i \in 1 .. k : s[i] \in S
        BY <1>1, ElementOfSeq
    <2> HIDE DEF k, f
    <2>4. /\ SubSeq(s, 1, k) \in Seq(S)
          /\ Len(SubSeq(s, 1, k)) = IF 1 <= k THEN k - 1 + 1 ELSE 0
          /\ \A i \in 1 .. k - 1 + 1 : SubSeq(s, 1, k)[i] = s[1 + i - 1]
        BY <2>1, <2>3, SubSeqProperties
    <2>5. f \in Seq(S) /\ Len(f) = k /\ \A i \in 1 .. k : f[i] = s[i]
        BY <2>1, <2>2, <2>4
    <2> QED
        BY <2>5 DEF k
<1> HIDE DEF f
<1>4. /\ u \in Seq(S) /\ Len(u) = n - 1 + Len(t)
      /\ \A j \in 1 .. n - 1 + Len(t) :
            u[j] = IF j <= n - 1 THEN f[j] ELSE t[j - (n - 1)]
    <2>1. f \in Seq(S) /\ Len(f) = n - 1
        BY <1>3
    <2>2. /\ f \o t \in Seq(S) /\ Len(f \o t) = Len(f) + Len(t)
          /\ \A j \in 1 .. Len(f) + Len(t) :
                (f \o t)[j] = IF j <= Len(f) THEN f[j] ELSE t[j - Len(f)]
        BY <2>1, ConcatProperties
    <2> QED
        BY <2>1, <2>2
<1> HIDE DEF u
<1>5. ASSUME NEW i \in 1 .. n
      PROVE  s[i] = Last(s) \/ \E j \in 1 .. Len(u) : u[j] = s[i]
    <2>1. CASE i = n
        BY <1>2, <2>1
    <2>2. CASE i # n
        <3>1. i \in 1 .. Len(u) /\ i \in 1 .. n - 1
            BY <1>1, <1>4, <2>2
        <3>2. u[i] = s[i]
            BY <1>1, <1>3, <1>4, <3>1
        <3> QED
            BY <3>1, <3>2
    <2> QED
        BY <2>1, <2>2
<1>6. ASSUME NEW i \in 1 .. Len(t)
      PROVE  \E j \in 1 .. Len(u) : u[j] = t[i]
    <2> DEFINE j == n - 1 + i
    <2>1. j \in 1 .. Len(u) /\ ~ (j <= n - 1) /\ j - (n - 1) = i
        BY <1>1, <1>4
    <2> HIDE DEF j
    <2>2. u[j] = t[i]
        BY <1>4, <2>1
    <2> QED
        BY <2>1, <2>2
<1>7. ASSUME NEW j \in 1 .. Len(u)
      PROVE  (\E i \in 1 .. n : u[j] = s[i]) \/ (\E i \in 1 .. Len(t) : u[j] = t[i])
    <2>1. CASE j <= n - 1
        <3>1. j \in 1 .. n /\ j \in 1 .. n - 1
            BY <1>1, <1>4, <2>1
        <3>2. u[j] = s[j]
            BY <1>3, <1>4, <2>1, <3>1
        <3> QED
            BY <3>1, <3>2
    <2>2. CASE ~ (j <= n - 1)
        <3>1. j - (n - 1) \in 1 .. Len(t)
            BY <1>1, <1>4, <2>2
        <3>2. u[j] = t[j - (n - 1)]
            BY <1>4, <2>2
        <3> QED
            BY <3>1, <3>2
    <2> QED
        BY <2>1, <2>2
<1> QED
    BY <1>1, <1>2, <1>4, <1>5, <1>6, <1>7 DEF u, f, ReplacesLast

-----------------------------------------------------------------------------
(* The walk                                                                *)

\* A dependency is written down in a record that is there, or the frame of one
\* that depends on it is still on the stack, or its own walk has not started.
Reached(x, p) ==
    \/ p \in records
    \/ \E i \in 1 .. Len(todo) : todo[i] = x
    \/ \E i \in 1 .. Len(stack) : stack[i].effect = p

\* The frames on the stack lead from a record to what depends on it.
StackInv ==
    \A i \in 1 .. Len(stack) :
        stack[i].cause \in records /\ stack[i].cause \in deps[stack[i].effect]

\* The inductive invariant.
WalkInv ==
    /\ TypeOK
    /\ changed \subseteq records /\ repointed = records /\ processed \subseteq records
    /\ \A i \in 1 .. Len(todo) : todo[i] \in records
    /\ StackInv
    /\ \A x \in records : \A p \in Entities : x \in deps[p] => Reached(x, p)
    /\ EffectsAreExplained

\* The dependency relations that a branch can have.
LEMMA DepsType ==
    ASSUME TypeOK
    PROVE  DOMAIN deps = Entities /\ \A e \in Entities : deps[e] \subseteq Entities
BY GraphsAssumption DEF TypeOK

\* Frames for a set of entities: one for each, in some order.
LEMMA FramesInOrder ==
    ASSUME NEW e \in Entities, NEW A \in SUBSET Entities, NEW next \in FramesFor(e, A)
    PROVE  /\ next \in Seq(Frame)
           /\ \A i \in 1 .. Len(next) : next[i].cause = e /\ next[i].effect \in A
           /\ \A p \in A : \E i \in 1 .. Len(next) : next[i].effect = p
<1> DEFINE S == {[cause |-> e, effect |-> p] : p \in A}
           f == [p \in A |-> [cause |-> e, effect |-> p]]
<1>1. IsFiniteSet(A)
    BY EntitiesAssumption, FS_Subset
<1>2. f \in Surjection(A, S)
    BY DEF Surjection
<1>3. IsFiniteSet(S)
    BY <1>1, <1>2, FS_Surjection
<1>4. next \in SetToSeqs(S)
    BY DEF FramesFor
<1>5. S \subseteq Frame /\ \A s \in S : s.cause = e /\ s.effect \in A
    BY DEF Frame
<1>6. ASSUME NEW p \in A
      PROVE  \E s \in S : s.effect = p
    <2>1. [cause |-> e, effect |-> p] \in S /\ [cause |-> e, effect |-> p].effect = p
        OBVIOUS
    <2> QED
        BY <2>1
<1> HIDE DEF S, f
<1>7. next \in Seq(S) /\ \A x \in S : \E i \in 1 .. Len(next) : next[i] = x
    BY <1>3, <1>4, InSomeOrder
<1>8. next \in Seq(Frame)
    BY <1>5, <1>7, SeqMonotonic
<1>9. \A i \in 1 .. Len(next) : next[i] \in S
    BY <1>7, ElementOfSeq
<1>10. \A p \in A : \E i \in 1 .. Len(next) : next[i].effect = p
    BY <1>6, <1>7
<1> QED
    BY <1>5, <1>8, <1>9, <1>10

\* Before the walk every record is that of a changed entity, and still to do.
LEMMA WalkInit ==
    ASSUME Init
    PROVE  WalkInv
<1>1. PICK S \in SUBSET Entities : todo \in SetToSeqs(S)
    BY DEF Init, SetToAllKPermutations
<1>2. IsFiniteSet(S)
    BY EntitiesAssumption, FS_Subset
<1>3. todo \in Seq(S)
    BY <1>1, <1>2, InSomeOrder
<1>4. todo \in Seq(Entities)
    BY <1>3, SeqMonotonic
<1>5. DOMAIN todo = 1 .. Len(todo) /\ \A i \in 1 .. Len(todo) : todo[i] \in Entities
    BY <1>4, LenProperties, ElementOfSeq
<1>6. /\ changed = {todo[i] : i \in 1 .. Len(todo)} /\ changed \subseteq Entities
      /\ records = changed /\ repointed = changed
      /\ stack = <<>> /\ sideEffects = {} /\ processed = {} /\ deps \in Graphs
    BY <1>5 DEF Init, ToSet
<1>7. TypeOK
    BY <1>4, <1>6 DEF TypeOK
<1>8. StackInv
    BY <1>6 DEF StackInv
<1>9. \A x \in records : \E i \in 1 .. Len(todo) : todo[i] = x
    BY <1>6
<1>10. EffectsAreExplained
    BY <1>6 DEF EffectsAreExplained
<1> QED
    BY <1>6, <1>7, <1>8, <1>9, <1>10 DEF WalkInv, Reached

\* What depends on the next record is queued.
LEMMA NextOriginalChangeKeeps ==
    ASSUME WalkInv, NextOriginalChange
    PROVE  WalkInv'
<1> DEFINE x0 == Head(todo)
           A == AffectedBy(deps, {x0})
<1>1. /\ stack = <<>> /\ todo # <<>> /\ todo' = Tail(todo) /\ stack' \in FramesFor(x0, A)
      /\ UNCHANGED <<deps, changed, records, repointed, sideEffects, processed>>
    BY DEF NextOriginalChange
<1>2. todo \in Seq(Entities) /\ TypeOK
    BY DEF WalkInv, TypeOK
<1>3. /\ x0 \in Entities /\ todo' \in Seq(Entities) /\ Len(todo') = Len(todo) - 1
      /\ \A i \in 1 .. Len(todo') : todo'[i] = todo[i + 1]
      /\ Len(todo) \in Nat /\ Len(todo) # 0
    BY <1>1, <1>2, HeadTailProperties, EmptySeq, LenProperties
<1>4. A \in SUBSET Entities /\ \A p \in Entities : x0 \in deps[p] <=> p \in A
    BY <1>2, DepsType DEF AffectedBy
<1>5. x0 = todo[1]
    BY <1>1, <1>2
<1> HIDE DEF A, x0
<1>6. /\ stack' \in Seq(Frame)
      /\ \A i \in 1 .. Len(stack') : stack'[i].cause = x0 /\ stack'[i].effect \in A
      /\ \A p \in A : \E i \in 1 .. Len(stack') : stack'[i].effect = p
    BY <1>1, <1>3, <1>4, FramesInOrder
<1>7. x0 \in records /\ \A i \in 1 .. Len(todo') : todo'[i] \in records
    <2>1. 1 \in 1 .. Len(todo) /\ \A i \in 1 .. Len(todo') : i + 1 \in 1 .. Len(todo)
        BY <1>3
    <2> QED
        BY <1>3, <1>5, <2>1 DEF WalkInv
<1>8. TypeOK' /\ EffectsAreExplained'
    BY <1>1, <1>3, <1>6 DEF WalkInv, TypeOK, EffectsAreExplained
<1>9. StackInv'
    BY <1>1, <1>4, <1>6, <1>7, DepsType DEF StackInv, WalkInv, TypeOK, Frame
<1>10. ASSUME NEW x \in records, NEW p \in Entities, x \in deps[p]
       PROVE  Reached(x, p)'
    <2>1. CASE x = x0
        BY <1>4, <1>6, <1>10, <2>1 DEF Reached
    <2>2. CASE p \in records
        BY <1>1, <2>2 DEF Reached
    <2>3. CASE x # x0 /\ p \notin records
        <3>1. PICK i \in 1 .. Len(todo) : todo[i] = x
            BY <1>1, <1>10, <2>3 DEF WalkInv, Reached
        <3>2. i - 1 \in 1 .. Len(todo') /\ i - 1 + 1 = i
            BY <1>3, <1>5, <2>3, <3>1
        <3>3. todo'[i - 1] = x
            BY <1>3, <3>1, <3>2
        <3> QED
            BY <3>2, <3>3 DEF Reached
    <2> QED
        BY <2>1, <2>2, <2>3
<1> QED
    BY <1>1, <1>7, <1>8, <1>9, <1>10 DEF WalkInv

\* What depends on the affected entity is queued, but for what was processed,
\* which has a record already.
LEMMA VisitAffectedKeeps ==
    ASSUME WalkInv, VisitAffected
    PROVE  WalkInv'
<1> DEFINE frame == Last(stack)
           A == NotYetProcessed(AffectedBy(deps, {frame.effect}))
<1>1. /\ stack # <<>>
      /\ records' = records \cup {frame.effect} /\ repointed' = repointed \cup {frame.effect}
      /\ sideEffects' = sideEffects \cup {<<frame.cause, frame.effect>>}
      /\ processed' = processed \cup {frame.cause}
      /\ UNCHANGED <<deps, changed, todo>>
    BY DEF VisitAffected
<1>2. PICK next \in FramesFor(frame.effect, A) : stack' = Front(stack) \o next
    BY DEF VisitAffected
<1>3. stack \in Seq(Frame) /\ TypeOK
    BY DEF WalkInv, TypeOK
<1>4. frame \in Frame /\ frame.cause \in records /\ frame.cause \in deps[frame.effect]
    <2>1. Len(stack) \in 1 .. Len(stack)
        BY <1>1, <1>3, EmptySeq
    <2>2. stack[Len(stack)] \in Frame
        BY <1>3, <2>1, ElementOfSeq
    <2> QED
        BY <2>1, <2>2 DEF Last, WalkInv, StackInv
<1>5. frame.cause \in Entities /\ frame.effect \in Entities
    BY <1>4 DEF Frame
<1>6. /\ A \in SUBSET Entities
      /\ \A p \in Entities : frame.effect \in deps[p] => p \in A \/ p \in processed'
      /\ \A p \in A : frame.effect \in deps[p]
    BY <1>3, DepsType DEF AffectedBy, NotYetProcessed
<1> HIDE DEF A, frame
<1>7. /\ next \in Seq(Frame)
      /\ \A i \in 1 .. Len(next) : next[i].cause = frame.effect /\ next[i].effect \in A
      /\ \A p \in A : \E i \in 1 .. Len(next) : next[i].effect = p
    BY <1>2, <1>5, <1>6, FramesInOrder
<1>8. /\ stack' \in Seq(Frame)
      /\ \A i \in 1 .. Len(stack) :
            stack[i] = frame \/ \E j \in 1 .. Len(stack') : stack'[j] = stack[i]
      /\ \A i \in 1 .. Len(next) : \E j \in 1 .. Len(stack') : stack'[j] = next[i]
      /\ \A j \in 1 .. Len(stack') :
            \/ \E i \in 1 .. Len(stack) : stack'[j] = stack[i]
            \/ \E i \in 1 .. Len(next) : stack'[j] = next[i]
    <2> DEFINE s == stack
               u == Front(s) \o next
    <2>1. s \in Seq(Frame) /\ s # <<>>
        BY <1>1, <1>3
    <2>2. frame = Last(s) /\ stack' = u
        BY <1>2 DEF frame
    <2> HIDE DEF s
    <2>3. u \in Seq(Frame) /\ ReplacesLast(u, s, next)
        BY <1>7, <2>1, LastReplaced
    <2> HIDE DEF u
    <2> QED
        BY <2>2, <2>3 DEF s, ReplacesLast
<1>9. TypeOK'
    BY <1>1, <1>3, <1>5, <1>8 DEF TypeOK
<1>10. changed' \subseteq records' /\ repointed' = records' /\ processed' \subseteq records'
    BY <1>1, <1>4 DEF WalkInv
<1>11. StackInv'
    <2> SUFFICES ASSUME NEW j \in 1 .. Len(stack')
                 PROVE  stack'[j].cause \in records' /\ stack'[j].cause \in deps[stack'[j].effect]
        BY <1>1 DEF StackInv
    <2>1. CASE \E i \in 1 .. Len(stack) : stack'[j] = stack[i]
        BY <1>1, <2>1 DEF WalkInv, StackInv
    <2>2. CASE \E i \in 1 .. Len(next) : stack'[j] = next[i]
        BY <1>1, <1>6, <1>7, <2>2
    <2> QED
        BY <1>8, <2>1, <2>2
<1>12. ASSUME NEW x \in records', NEW p \in Entities, x \in deps[p], p \notin records'
       PROVE  Reached(x, p)'
    <2>1. CASE x = frame.effect
        <3>1. p \in A
            BY <1>6, <1>10, <1>12, <2>1
        <3>2. PICK i \in 1 .. Len(next) : next[i].effect = p
            BY <1>7, <3>1
        <3>3. PICK j \in 1 .. Len(stack') : stack'[j] = next[i]
            BY <1>8
        <3> QED
            BY <3>2, <3>3 DEF Reached
    <2>2. CASE x # frame.effect
        <3>1. x \in records /\ p \notin records /\ p # frame.effect
            BY <1>1, <1>12, <2>2
        <3>2. Reached(x, p)
            BY <1>12, <3>1 DEF WalkInv
        <3>3. CASE \E i \in 1 .. Len(todo) : todo[i] = x
            BY <1>1, <3>3 DEF Reached
        <3>4. CASE \E i \in 1 .. Len(stack) : stack[i].effect = p
            <4>1. PICK i \in 1 .. Len(stack) : stack[i].effect = p
                BY <3>4
            <4>2. PICK j \in 1 .. Len(stack') : stack'[j] = stack[i]
                BY <1>8, <3>1, <4>1
            <4> QED
                BY <4>1, <4>2 DEF Reached
        <3> QED
            BY <3>1, <3>2, <3>3, <3>4 DEF Reached
    <2> QED
        BY <2>1, <2>2
<1>13. EffectsAreExplained'
    <2>1. \A link \in sideEffects' : link[1] \in deps[link[2]]
        BY <1>1, <1>4 DEF WalkInv, EffectsAreExplained
    <2>2. ASSUME NEW T \in SUBSET Entities, changed \subseteq T,
                 \A link \in sideEffects' : link[1] \in T => link[2] \in T
          PROVE  records' \subseteq T
        <3>1. records \subseteq T
            BY <1>1, <2>2 DEF WalkInv, EffectsAreExplained
        <3>2. frame.effect \in T
            <4>1. <<frame.cause, frame.effect>> \in sideEffects'
                BY <1>1
            <4> QED
                BY <1>4, <2>2, <3>1, <4>1
        <3> QED
            BY <1>1, <3>1, <3>2
    <2> QED
        BY <1>1, <2>1, <2>2 DEF EffectsAreExplained
<1>14. \A i \in 1 .. Len(todo') : todo'[i] \in records'
    BY <1>1 DEF WalkInv
<1>15. \A x \in records' : \A p \in Entities : x \in deps'[p] => Reached(x, p)'
    BY <1>1, <1>12 DEF Reached
<1> QED
    BY <1>9, <1>10, <1>11, <1>13, <1>14, <1>15 DEF WalkInv

\* What depends on an ancestor is an ancestor.
LEMMA AncestorsClosedUpwards ==
    ASSUME NEW D, DOMAIN D = Entities, NEW S, NEW e \in Entities, NEW d \in D[e],
           d \in S \/ d \in Ancestors(D, S)
    PROVE  e \in Ancestors(D, S)
<1> SUFFICES ASSUME NEW T \in SUBSET DOMAIN D, AffectedBy(D, S \cup T) \subseteq T
             PROVE  e \in T
    BY DEF Ancestors
<1>1. d \in S \cup T
    BY DEF Ancestors
<1>2. e \in AffectedBy(D, S \cup T)
    BY <1>1 DEF AffectedBy
<1> QED
    BY <1>2

\* A walk that has ended has reached every ancestor, and nothing else.
LEMMA DoneReachesAncestors ==
    ASSUME WalkInv, Done
    PROVE  records = changed \cup Ancestors(deps, changed)
<1> DEFINE up == changed \cup Ancestors(deps, changed)
<1>1. /\ DOMAIN deps = Entities /\ TypeOK
      /\ changed \subseteq records /\ records \subseteq Entities
    BY DepsType DEF WalkInv, TypeOK
<1>2. \A x \in records : \A p \in Entities : x \in deps[p] => p \in records
    BY DEF Done, WalkInv, Reached
<1>3. up \subseteq records
    <2>1. changed \cup records = records
        BY <1>1
    <2>2. AffectedBy(deps, records) \subseteq records
        BY <1>1, <1>2 DEF AffectedBy
    <2> QED
        BY <1>1, <2>1, <2>2 DEF Ancestors
<1>4. records \subseteq up
    <2>1. up \in SUBSET Entities
        BY <1>1 DEF Ancestors
    <2>2. ASSUME NEW link \in sideEffects, link[1] \in up
          PROVE  link[2] \in up
        <3>1. link[1] \in deps[link[2]] /\ link[2] \in Entities
            BY DEF WalkInv, EffectsAreExplained, TypeOK
        <3> QED
            BY <1>1, <2>2, <3>1, AncestorsClosedUpwards
    <2> QED
        BY <2>1, <2>2 DEF WalkInv, EffectsAreExplained
<1> QED
    BY <1>3, <1>4

-----------------------------------------------------------------------------
\* Although _create_side_effects_for_change_log skips what it has processed and
\* walks the records and what is affected in whatever order the queries return
\* them, a walk that has ended has given a record to exactly the changed
\* entities and their ancestors, pointed their rows at it, and explained every
\* record by a chain of side effects, for all finite sets of entities and all
\* dependency relations.
THEOREM WalksReachAncestors == Spec => []WalkReachesAncestors
<1>1. Init => WalkInv
    BY WalkInit
<1>2. WalkInv /\ [Next]_vars => WalkInv'
    <2>1. CASE NextOriginalChange
        BY <2>1, NextOriginalChangeKeeps
    <2>2. CASE VisitAffected
        BY <2>2, VisitAffectedKeeps
    <2>3. ASSUME WalkInv, UNCHANGED vars
          PROVE  WalkInv'
        BY <2>3 DEF vars, WalkInv, TypeOK, StackInv, Reached, EffectsAreExplained
    <2> QED
        BY <2>1, <2>2, <2>3 DEF Next
<1>3. WalkInv => WalkReachesAncestors
    BY DoneReachesAncestors DEF WalkInv, WalkReachesAncestors
<1> QED
    BY <1>1, <1>2, <1>3, PTL DEF Spec
=============================================================================
