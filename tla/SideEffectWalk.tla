---------------------------- MODULE SideEffectWalk ----------------------------
(***************************************************************************)
(* The loop of _create_side_effects_for_change_log, one stack frame at a   *)
(* time: for each record that a DraftChangeLog or PublishLog holds already *)
(* it walks from the changed entity up to everything that depends on it,   *)
(* adding records and (cause, effect) side effects to the log.  Publishing *)
(* takes the whole walk as one step, CreateSideEffects; this module shows  *)
(* what that step abstracts from.                                          *)
(***************************************************************************)
EXTENDS FiniteSets, Sequences, SequencesExt, DependencyGraph

CONSTANTS
    Entities,   \* PublishableEntity rows
    Graphs      \* input: the dependency relations a branch may have

ASSUME EntitiesAssumption == IsFiniteSet(Entities)
ASSUME GraphsAssumption == Graphs \subseteq [Entities -> SUBSET Entities]

VARIABLES
    deps,         \* the dependency relation of the branch, which the walk reads
    changed,      \* the entities with a record before the walk
    todo,         \* their records not yet walked from, in primary key order
    stack,        \* changes_and_affected
    records,      \* entities with a record in the log
    repointed,    \* branch rows whose log_record now is their record in the log
    sideEffects,  \* rows of DraftSideEffect or PublishSideEffect
    processed     \* processed_entity_ids

vars == <<deps, changed, todo, stack, records, repointed, sideEffects, processed>>

Frame == [cause : Entities, effect : Entities]

\* Frames for what depends on e, in whatever order the query returns them.
FramesFor(e, affected) == SetToSeqs({[cause |-> e, effect |-> p] : p \in affected})

Init ==
    /\ deps \in Graphs
    /\ todo \in SetToAllKPermutations(Entities)
    /\ changed = ToSet(todo)
    /\ records = changed
    /\ repointed = changed
    /\ stack = <<>>
    /\ sideEffects = {}
    /\ processed = {}

\* Next record of the log: everything directly affected by it is queued.
NextOriginalChange ==
    /\ stack = <<>>
    /\ todo # <<>>
    /\ todo' = Tail(todo)
    /\ stack' \in FramesFor(Head(todo), AffectedBy(deps, {Head(todo)}))
    /\ UNCHANGED <<deps, changed, records, repointed, sideEffects, processed>>

\* Mutants: the walk stops at direct dependents; or it never stops on a cycle.
NothingFurther(affected) == {}
EverythingAgain(affected) == affected

NotYetProcessed(affected) == affected \ processed'

\* One iteration of the inner loop.
VisitAffected ==
    LET frame == Last(stack) IN
    /\ stack # <<>>
    /\ records' = records \cup {frame.effect}
    /\ repointed' = repointed \cup {frame.effect}
    /\ sideEffects' = sideEffects \cup {<<frame.cause, frame.effect>>}
    /\ processed' = processed \cup {frame.cause}
    /\ \E next \in FramesFor(frame.effect,
                             NotYetProcessed(AffectedBy(deps, {frame.effect}))) :
        stack' = Front(stack) \o next
    /\ UNCHANGED <<deps, changed, todo>>

Next == NextOriginalChange \/ VisitAffected

\* The loop is ordinary sequential code: it goes on while it has work.
Spec == Init /\ [][Next]_vars /\ WF_vars(Next)

-----------------------------------------------------------------------------
Done == todo = <<>> /\ stack = <<>>

\* Every variable holds values of its kind.
TypeOK ==
    /\ deps \in Graphs
    /\ todo \in Seq(Entities) /\ stack \in Seq(Frame)
    /\ changed \subseteq Entities /\ records \subseteq Entities
    /\ repointed \subseteq Entities /\ processed \subseteq Entities
    /\ sideEffects \subseteq Entities \X Entities

\* Every record is the effect of a chain of side effects that starts at an
\* entity the log had changed, and each link is a dependency.
EffectsAreExplained ==
    /\ \A link \in sideEffects : link[1] \in deps[link[2]]
    /\ \A T \in SUBSET Entities :
        changed \subseteq T /\ (\A link \in sideEffects : link[1] \in T => link[2] \in T)
        => records \subseteq T

\* Although the walk skips entities it has processed, when it ends exactly the
\* changed entities and all their ancestors have a record, the row of each
\* points at it, and side effects explain it: what CreateSideEffects of
\* Publishing does in one step.
WalkReachesAncestors ==
    /\ TypeOK
    /\ Done => /\ records = changed \cup Ancestors(deps, changed)
               /\ repointed = records
               /\ EffectsAreExplained

\* The walk ends, on cyclic dependencies too: processed_entity_ids guards
\* against infinite parent-child relationship loops.
Termination == <>Done
=============================================================================
