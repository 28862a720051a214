----------------------------- MODULE MCPublishing -----------------------------
(* Small instances of Publishing. *)
EXTENDS Publishing, TLC

CONSTANTS c1, c2, u1, s1, lp1, lp2

\* A component, a unit and a subsection: chains, and diamonds when the
\* subsection depends on both.
Of(f) == [e \in Entities |-> f[e]]
ThreeLevels == Of(c1 :> 0 @@ c2 :> 0 @@ u1 :> 1 @@ s1 :> 2)
OnePackage == Of(c1 :> lp1 @@ u1 :> lp1 @@ s1 :> lp1)
TwoPackages == Of(c1 :> lp1 @@ u1 :> lp1 @@ c2 :> lp2)
Hierarchies == Of(c1 :> {{}} @@ c2 :> {{}} @@ u1 :> {{}, {c1}} @@ s1 :> {{u1}, {c1, u1}})
FewVersions == Of(c1 :> 2 @@ c2 :> 1 @@ u1 :> 2 @@ s1 :> 1)

\* Longer histories: a component, a unit and a subsection are created from the
\* bottom up and published, and only then is every order explored.
ManyVersions == Of(c1 :> 3 @@ u1 :> 2 @@ s1 :> 1)
BuiltBottomUp ==
    /\ serial = 0 => CreateVersion(c1, {})
    /\ serial = 1 => CreateVersion(u1, {c1})
    /\ serial = 2 => \E deps \in DependencySets[s1] : CreateVersion(s1, deps)
    /\ serial = 3 /\ publishLogs = <<>> => PublishAllDrafts(lp1)
=============================================================================
