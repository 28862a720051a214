----------------------------- MODULE MCContainers -----------------------------
(* Small instances of Containers. *)
EXTENDS ContentUpgrade, TLC

CONSTANTS c1, c2, u1, s1, lp1

Of(f) == [e \in Entities |-> f[e]]
ThreeLevels == Of(c1 :> 0 @@ c2 :> 0 @@ u1 :> 1 @@ s1 :> 2)
OnePackage == [e \in Entities |-> lp1]
LowerEntities == [e \in Entities |-> SUBSET {d \in Entities : Level[d] < Level[e]}]

Unpin(e) == [entity |-> e, pin |-> 0]
Pin(e, n) == [entity |-> e, pin |-> n]

\* One unpinned child, or it together with a pinned reference to it.
UnitsOfOne == [c \in Containers |-> {<<Unpin(c1)>>, <<Pin(c1, 1), Unpin(c1)>>}]
FewVersions == Of(c1 :> 2 @@ u1 :> 3)

\* For runs with bulk contexts.
UnitsOfTwo == [c \in Containers |-> {<<Unpin(c1)>>, <<Pin(c1, 1)>>}]
TwoVersions == Of(c1 :> 2 @@ u1 :> 2)
=============================================================================
