--------------------------- MODULE DependencyGraph ---------------------------
(***************************************************************************)
(* The dependency relation of one branch: deps[e] is the set of entities   *)
(* that the current version of e declares as dependencies, empty when e    *)
(* has no current version.                                                 *)
(***************************************************************************)

\* branch_cls.objects.filter(version__dependencies=...): the entities whose
\* current version depends on a member of S.
AffectedBy(deps, S) == {p \in DOMAIN deps : deps[p] \cap S # {}}

\* Everything affected by S at any distance: the least set closed upwards.
Ancestors(deps, S) ==
    {p \in DOMAIN deps : \A T \in SUBSET DOMAIN deps :
                            AffectedBy(deps, S \cup T) \subseteq T => p \in T}

\* All dependencies of S at any distance: the least set closed downwards.
Descendants(deps, S) ==
    {d \in DOMAIN deps : \A T \in SUBSET DOMAIN deps :
        (UNION {deps[e] : e \in S \cup T}) \subseteq T => d \in T}
=============================================================================
